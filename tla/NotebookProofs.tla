--------------------------- MODULE NotebookProofs ---------------------------
(***************************************************************************)
(* What is proved of the notebooks but for the layers of the archive:      *)
(* what Airflow may conclude from the executor's answers, for any DAGs,    *)
(* notebooks and sizes of the pool, any number of retries, runs and        *)
(* crashes; that the AI report is made and is silent on devices that are   *)
(* off; that the historical summary is of one reading of the archive, and  *)
(* each of its rows true; that runs are short.                             *)
(***************************************************************************)
EXTENDS NotebookPipeline, AiReport, HistoricalSummary, OrderLemmas, FiniteSetTheorems, TLAPS

\* The shape of runs and attempts, as far as the two results need it.
Shape ==
    /\ dagRuns \in Seq(RunState)
    /\ \A i \in DOMAIN dagRuns :
          /\ dagRuns[i].task \in 1 .. Len(Tasks[dagRuns[i].dag])
          /\ dagRuns[i].try <= Retries
          /\ dagRuns[i].state = "up_for_retry" => dagRuns[i].try < Retries
    /\ DOMAIN posts \subseteq Attempt /\ DOMAIN jobs \subseteq DOMAIN posts
    /\ \A a \in DOMAIN posts : a.try <= Retries

\* An answer "queued" is only given with a background task, and no task is
\* passed without that answer.
Accounted ==
    /\ \A i \in DOMAIN dagRuns : dagRuns[i].state = "posted" => Current(i) \in DOMAIN posts
    /\ \A a \in DOMAIN posts : posts[a] = "queued" => a \in DOMAIN jobs
    /\ NoTaskWithoutJob

LEMMA InitInv == Init => Shape /\ Accounted
BY DEF Init, Shape, Accounted, NoTaskWithoutJob

\* A step that changes one run and neither posts nor jobs.
LEMMA OneRun ==
    ASSUME Shape, NEW i \in DOMAIN dagRuns, NEW new \in RunState,
           dagRuns' = [dagRuns EXCEPT ![i] = new]
    PROVE  /\ dagRuns' \in Seq(RunState) /\ DOMAIN dagRuns' = DOMAIN dagRuns
           /\ dagRuns'[i] = new
           /\ \A j \in DOMAIN dagRuns \ {i} : dagRuns'[j] = dagRuns[j]
BY DEF Shape

\* A run is a record of its four fields.
LEMMA RunFields ==
    ASSUME Shape, NEW i \in DOMAIN dagRuns
    PROVE  /\ i \in Nat /\ dagRuns[i] \in RunState
           /\ dagRuns[i].dag \in Dags /\ dagRuns[i].task \in Nat /\ dagRuns[i].try \in Nat
           /\ Len(Tasks[dagRuns[i].dag]) \in Nat \ {0}
<1>1. i \in Nat /\ dagRuns[i] \in RunState
  BY DEF Shape
<1> QED
  BY <1>1, PipelineAssumption DEF RunState

LEMMA ScheduleInv ==
    ASSUME Shape, Accounted, NEW d \in Dags, Schedule(d)
    PROVE  Shape' /\ Accounted'
<1> DEFINE new == Ready(d, 1, 0)
<1>1. /\ new \in RunState /\ new.dag = d /\ new.task = 1 /\ new.try = 0 /\ new.state = "ready"
      /\ Len(Tasks[d]) \in Nat \ {0} /\ Retries \in Nat
  BY PipelineAssumption DEF RunState, Ready
<1>2. /\ dagRuns' \in Seq(RunState)
      /\ DOMAIN dagRuns' = DOMAIN dagRuns \cup {Len(dagRuns) + 1}
      /\ dagRuns'[Len(dagRuns) + 1] = new
      /\ \A i \in DOMAIN dagRuns : dagRuns'[i] = dagRuns[i]
  BY <1>1 DEF Schedule, Shape
<1>3. posts' = posts /\ jobs' = jobs
  BY DEF Schedule
<1> HIDE DEF new
<1>4. Shape'
  BY <1>1, <1>2, <1>3 DEF Shape
<1>5. Accounted'
  BY <1>1, <1>2, <1>3 DEF Accounted, NoTaskWithoutJob, Current
<1> QED
  BY <1>4, <1>5

LEMMA PostInv ==
    ASSUME Shape, Accounted, NEW i \in DOMAIN dagRuns, Post(i)
    PROVE  Shape' /\ Accounted'
<1> DEFINE new == [dagRuns[i] EXCEPT !.state = "posted"]
<1>1. /\ dagRuns[i] \in RunState /\ new \in RunState
      /\ new.dag = dagRuns[i].dag /\ new.task = dagRuns[i].task
      /\ new.try = dagRuns[i].try /\ new.state = "posted"
      /\ dagRuns' = [dagRuns EXCEPT ![i] = new]
  BY RunFields DEF RunState, Post
<1>2. /\ dagRuns' \in Seq(RunState) /\ DOMAIN dagRuns' = DOMAIN dagRuns
      /\ dagRuns'[i] = new
      /\ \A j \in DOMAIN dagRuns \ {i} : dagRuns'[j] = dagRuns[j]
  BY <1>1, OneRun
<1>3. /\ jobs' = jobs /\ DOMAIN posts' = DOMAIN posts \cup {Current(i)}
      /\ posts'[Current(i)] = "sent"
      /\ \A a \in DOMAIN posts : a # Current(i) => posts'[a] = posts[a]
  BY DEF Post, Set
<1>4. Current(i) \in Attempt /\ Current(i).try <= Retries
  BY RunFields DEF Attempt, Current, Shape
<1>5. Shape'
  BY <1>1, <1>2, <1>3, <1>4 DEF Shape
<1>6. \A j \in DOMAIN dagRuns : Current(j)' = Current(j)
  BY <1>1, <1>2 DEF Current
<1>7. NoTaskWithoutJob'
  BY <1>1, <1>2, <1>3 DEF Accounted, NoTaskWithoutJob
<1>8. Accounted'
  BY <1>1, <1>2, <1>3, <1>4, <1>6, <1>7 DEF Accounted
<1> QED
  BY <1>5, <1>8

\* A run that keeps its DAG, and goes on to a task whose predecessor was
\* accounted for, with a try the retries allow.
LEMMA RunGoesOn ==
    ASSUME Shape, Accounted, NEW i \in DOMAIN dagRuns, NEW new \in RunState,
           dagRuns' = [dagRuns EXCEPT ![i] = new], posts' = posts, jobs' = jobs,
           new.dag = dagRuns[i].dag, new.try <= Retries,
           new.state # "posted", new.state = "up_for_retry" => new.try < Retries,
           \/ /\ new.task = dagRuns[i].task
              /\ new.state = "success" => Current(i) \in DOMAIN jobs
           \/ /\ new.task = dagRuns[i].task + 1 /\ new.task <= Len(Tasks[new.dag])
              /\ new.state # "success" /\ Current(i) \in DOMAIN jobs
    PROVE  Shape' /\ Accounted'
<1>1. /\ dagRuns' \in Seq(RunState) /\ DOMAIN dagRuns' = DOMAIN dagRuns
      /\ dagRuns'[i] = new
      /\ \A j \in DOMAIN dagRuns \ {i} : dagRuns'[j] = dagRuns[j]
  BY OneRun
<1>2. dagRuns[i].task \in Nat /\ new.task \in Nat /\ Len(Tasks[new.dag]) \in Nat
  BY RunFields DEF RunState
<1>3. new.task \in 1 .. Len(Tasks[new.dag])
  BY <1>2 DEF Shape
<1>4. Shape'
  BY <1>1, <1>3 DEF Shape
<1>5. \A j \in DOMAIN dagRuns' : dagRuns'[j].state = "posted" => Current(j)' \in DOMAIN posts'
  BY <1>1 DEF Accounted, Current
<1>6. ASSUME NEW j \in DOMAIN dagRuns', NEW t \in 1 .. dagRuns'[j].task,
             t < dagRuns'[j].task \/ dagRuns'[j].state = "success"
      PROVE  \E a \in DOMAIN jobs' : a.run = j /\ a.task = t
  <2>1. CASE j # i
    BY <1>1, <1>6, <2>1 DEF Accounted, NoTaskWithoutJob
  <2>2. CASE j = i /\ t < dagRuns[i].task
    <3>1. t \in 1 .. dagRuns[i].task
      BY <1>1, <1>2, <1>6, <2>2
    <3> QED
      BY <2>2, <3>1 DEF Accounted, NoTaskWithoutJob
  <2>3. CASE j = i /\ ~(t < dagRuns[i].task)
    <3>1. t = dagRuns[i].task /\ Current(i) \in DOMAIN jobs
      BY <1>1, <1>2, <1>6, <2>3
    <3>2. Current(i).run = i /\ Current(i).task = dagRuns[i].task
      BY DEF Current
    <3> QED
      BY <2>3, <3>1, <3>2
  <2> QED
    BY <2>1, <2>2, <2>3
<1>7. Accounted'
  BY <1>5, <1>6 DEF Accounted, NoTaskWithoutJob
<1> QED
  BY <1>4, <1>7

\* The task succeeds only on the answer that comes with a background task.
LEMMA SucceedInv ==
    ASSUME Shape, Accounted, NEW i \in DOMAIN dagRuns, Succeed(i)
    PROVE  Shape' /\ Accounted'
<1> DEFINE next == Ready(dagRuns[i].dag, dagRuns[i].task + 1, 0)
           last == [dagRuns[i] EXCEPT !.state = "success"]
<1>1. Current(i) \in DOMAIN jobs
  BY DEF Succeed, Accounted
<1>2. posts' = posts /\ jobs' = jobs /\ Retries \in Nat
  BY PipelineAssumption DEF Succeed
<1>3. CASE dagRuns[i].task < Len(Tasks[dagRuns[i].dag])
  <2>1. dagRuns' = [dagRuns EXCEPT ![i] = next]
    BY <1>3 DEF Succeed
  <2>2. /\ next \in RunState /\ next.dag = dagRuns[i].dag
        /\ next.task = dagRuns[i].task + 1 /\ next.try = 0 /\ next.state = "ready"
    BY RunFields DEF RunState, Ready
  <2>3. next.task <= Len(Tasks[next.dag])
    BY <1>3, <2>2, RunFields
  <2> HIDE DEF next
  <2>4. next.try <= Retries /\ next.state # "posted" /\ next.state # "success"
    BY <1>2, <2>2
  <2>5. next.state = "up_for_retry" => next.try < Retries
    BY <2>2
  <2> QED
    BY <1>1, <1>2, <2>1, <2>2, <2>3, <2>4, <2>5, RunGoesOn, Zenon
<1>4. CASE ~(dagRuns[i].task < Len(Tasks[dagRuns[i].dag]))
  <2>1. dagRuns' = [dagRuns EXCEPT ![i] = last]
    BY <1>4 DEF Succeed
  <2>2. /\ last \in RunState /\ last.dag = dagRuns[i].dag
        /\ last.task = dagRuns[i].task /\ last.try = dagRuns[i].try
        /\ last.state = "success"
    BY RunFields DEF RunState
  <2>3. last.try <= Retries
    BY <2>2 DEF Shape
  <2> HIDE DEF last
  <2> QED
    BY <1>1, <1>2, <2>1, <2>2, <2>3, RunGoesOn
<1> QED
  BY <1>3, <1>4

\* A failed try is repeated while the retries last.
LEMMA FailInv ==
    ASSUME Shape, Accounted, NEW i \in DOMAIN dagRuns, Fail(i)
    PROVE  Shape' /\ Accounted'
<1> DEFINE s == IF dagRuns[i].try < Retries THEN "up_for_retry" ELSE "failed"
           new == [dagRuns[i] EXCEPT !.state = s]
<1>1. dagRuns' = [dagRuns EXCEPT ![i] = new] /\ posts' = posts /\ jobs' = jobs
  BY DEF Fail
<1>2. /\ new \in RunState /\ new.dag = dagRuns[i].dag /\ new.task = dagRuns[i].task
      /\ new.try = dagRuns[i].try /\ new.state = s
  BY RunFields DEF RunState
<1>3. new.try <= Retries /\ (s = "up_for_retry" => new.try < Retries)
  BY <1>2 DEF Shape
<1>4. s # "posted" /\ s # "success"
  OBVIOUS
<1> HIDE DEF new, s
<1> QED
  BY <1>1, <1>2, <1>3, <1>4, RunGoesOn

LEMMA RetryInv ==
    ASSUME Shape, Accounted, NEW i \in DOMAIN dagRuns, Retry(i)
    PROVE  Shape' /\ Accounted'
<1> DEFINE new == Ready(dagRuns[i].dag, dagRuns[i].task, dagRuns[i].try + 1)
<1>1. dagRuns' = [dagRuns EXCEPT ![i] = new] /\ posts' = posts /\ jobs' = jobs
  BY DEF Retry
<1>2. /\ new \in RunState /\ new.dag = dagRuns[i].dag /\ new.task = dagRuns[i].task
      /\ new.try = dagRuns[i].try + 1 /\ new.state = "ready"
  BY RunFields DEF RunState, Ready
<1>3. new.try <= Retries
  BY <1>2, RunFields, PipelineAssumption DEF Shape, Retry
<1> HIDE DEF new
<1> QED
  BY <1>1, <1>2, <1>3, RunGoesOn

\* The executor answers and forgets, and never answers "queued" alone.
LEMMA ExecutorInv ==
    ASSUME Shape, Accounted, dagRuns' = dagRuns,
           DOMAIN posts' = DOMAIN posts, DOMAIN jobs \subseteq DOMAIN jobs',
           DOMAIN jobs' \subseteq DOMAIN posts,
           \A a \in DOMAIN posts : posts'[a] = "queued" => a \in DOMAIN jobs'
    PROVE  Shape' /\ Accounted'
<1>1. Shape'
  BY DEF Shape
<1>2. Accounted'
  BY DEF Accounted, NoTaskWithoutJob, Current
<1> QED
  BY <1>1, <1>2

LEMMA NextInv == Shape /\ Accounted /\ [Next]_vars => Shape' /\ Accounted'
<1> SUFFICES ASSUME Shape, Accounted, [Next]_vars PROVE Shape' /\ Accounted'
  OBVIOUS
<1>1. CASE \E d \in Dags : Schedule(d)
  BY <1>1, ScheduleInv
<1>2. CASE \E i \in DOMAIN dagRuns : Handle(i)
  BY <1>2, PostInv, SucceedInv, FailInv, RetryInv DEF Handle
<1>3. ASSUME NEW a \in DOMAIN posts, Serve(a)
      PROVE  Shape' /\ Accounted'
  <2>1. /\ dagRuns' = dagRuns /\ DOMAIN posts' = DOMAIN posts
        /\ DOMAIN jobs \subseteq DOMAIN jobs' /\ DOMAIN jobs' \subseteq DOMAIN posts
    BY <1>3 DEF Serve, Accept, Refuse, Set, Shape
  <2>2. \A b \in DOMAIN posts : posts'[b] = "queued" => b \in DOMAIN jobs'
    BY <1>3 DEF Serve, Accept, Refuse, Set, Accounted
  <2> QED
    BY <2>1, <2>2, ExecutorInv
<1>4. ASSUME NEW a \in DOMAIN jobs, StartJob(a) \/ EndJob(a)
      PROVE  Shape' /\ Accounted'
  <2>1. dagRuns' = dagRuns /\ posts' = posts /\ DOMAIN jobs' = DOMAIN jobs
    BY <1>4 DEF StartJob, EndJob
  <2> QED
    BY <2>1, ExecutorInv DEF Shape, Accounted
<1>5. CASE Crash
  <2>1. /\ dagRuns' = dagRuns /\ DOMAIN posts' = DOMAIN posts /\ DOMAIN jobs' = DOMAIN jobs
        /\ \A b \in DOMAIN posts : posts'[b] = "queued" => posts[b] = "queued"
    BY <1>5 DEF Crash
  <2> QED
    BY <2>1, ExecutorInv DEF Shape, Accounted
<1>6. CASE Restart
  BY <1>6, ExecutorInv DEF Restart, Shape, Accounted
<1>7. CASE UNCHANGED vars
  BY <1>7, ExecutorInv DEF vars, Shape, Accounted
<1> QED
  BY <1>1, <1>2, <1>3, <1>4, <1>5, <1>6, <1>7 DEF Next

\* Neither late answers, retries, a full pool nor crashes let a run pass a
\* notebook that the executor did not take on in that run.
THEOREM TasksHaveJobs == Spec => []NoTaskWithoutJob
<1>1. Accounted => NoTaskWithoutJob
  BY DEF Accounted
<1> QED
  BY <1>1, InitInv, NextInv, PTL DEF Spec

\* The attempts at one task of a run are told apart by their try.
LEMMA FewAttempts ==
    ASSUME Shape, NEW i, NEW t
    PROVE  Cardinality({a \in DOMAIN jobs : a.run = i /\ a.task = t}) <= 1 + Retries
<1> DEFINE tries == 0 .. Retries
           f == [k \in tries |-> [run |-> i, task |-> t, try |-> k]]
           all == {f[k] : k \in tries}
           mine == {a \in DOMAIN jobs : a.run = i /\ a.task = t}
<1>1. IsFiniteSet(tries) /\ Cardinality(tries) = 1 + Retries /\ Retries \in Nat
  BY FS_Interval, PipelineAssumption
<1>2. f \in Surjection(tries, all)
  BY DEF Surjection
<1>3. IsFiniteSet(all) /\ Cardinality(all) <= Cardinality(tries)
  BY <1>1, <1>2, FS_Surjection
<1>4. mine \subseteq all
  <2>1. ASSUME NEW a \in mine PROVE a = f[a.try] /\ a.try \in tries
    BY PipelineAssumption DEF Shape, Attempt
  <2> QED
    BY <2>1
<1>5. Cardinality(mine) <= Cardinality(all) /\ IsFiniteSet(mine)
  BY <1>3, <1>4, FS_Subset
<1>6. Cardinality(mine) \in Nat /\ Cardinality(all) \in Nat
  BY <1>3, <1>5, FS_CardinalityType
<1> HIDE DEF mine, all, tries
<1>7. Cardinality(mine) <= 1 + Retries
  BY <1>1, <1>3, <1>5, <1>6
<1> QED
  BY <1>7 DEF mine

\* However many answers come late or are lost, a task of a run costs at most
\* 1 + Retries runs of its notebook.
THEOREM RepetitionBounded == Spec => []BoundedRepetition
<1>1. Shape => BoundedRepetition
  BY FewAttempts DEF BoundedRepetition
<1> QED
  BY <1>1, InitInv, NextInv, PTL DEF Spec

\* The steps a run has left at most: three for each try of each task, to post,
\* to hear or give up, and to wait for the retry.
Over(x) == x.state \in {"success", "failed"}
StepsOfTask(x) ==
    3 * (Retries - x.try) +
        (CASE x.state = "ready" -> 3 [] x.state = "posted" -> 2 [] OTHER -> 1)
LeftToDo(x) ==
    IF Over(x) THEN 0
    ELSE 3 * (1 + Retries) * (Len(Tasks[x.dag]) - x.task) + StepsOfTask(x)

\* The steps of a whole run.
AllToDo(d) == 3 * (1 + Retries) * Len(Tasks[d])

\* Products of natural numbers, which the solver does not multiply out in a
\* larger context.
LEMMA Distributes ==
    ASSUME NEW a \in Nat, NEW b \in Nat, NEW c \in Nat
    PROVE  /\ a * b \in Nat
           /\ a * (b + c) = a * b + a * c
           /\ a * (b + 1) = a * b + a
<1>1. a * b \in Nat
  OBVIOUS
<1>2. a * (b + c) = a * b + a * c
  OBVIOUS
<1>3. a * (b + 1) = a * b + a
  OBVIOUS
<1> QED
  BY <1>1, <1>2, <1>3

\* A task that is not done has some of its tries' steps left.
LEMMA StepsOfTaskCount ==
    ASSUME NEW x \in RunState, x.try <= Retries
    PROVE  StepsOfTask(x) \in 1 .. 3 * (1 + Retries)
<1>1. x.try \in Nat /\ Retries \in Nat /\ Retries - x.try \in 0 .. Retries
  BY PipelineAssumption DEF RunState
<1>2. (CASE x.state = "ready" -> 3 [] x.state = "posted" -> 2 [] OTHER -> 1) \in 1 .. 3
  OBVIOUS
<1> QED
  BY <1>1, <1>2 DEF StepsOfTask

\* A run has something left to do until it is over, and never more than its
\* tasks and their retries.
LEMMA LeftToDoCount ==
    ASSUME NEW x \in RunState, x.try <= Retries, x.task \in 1 .. Len(Tasks[x.dag])
    PROVE  LeftToDo(x) \in 0 .. AllToDo(x.dag) /\ (LeftToDo(x) = 0 <=> Over(x))
<1> DEFINE steps == StepsOfTask(x)
           each == 3 * (1 + Retries)
           after == Len(Tasks[x.dag]) - x.task
<1>1. steps \in 1 .. each
  BY StepsOfTaskCount
<1>2. each \in Nat /\ after \in Nat /\ x.task \in Nat \ {0} /\ Len(Tasks[x.dag]) \in Nat
  BY PipelineAssumption DEF RunState
<1>3. /\ ~Over(x) => LeftToDo(x) = each * after + steps
      /\ Over(x) => LeftToDo(x) = 0
  BY DEF LeftToDo
<1>4. AllToDo(x.dag) = each * Len(Tasks[x.dag])
  BY DEF AllToDo
<1>5. PICK before \in Nat : x.task = before + 1
  <2>1. x.task - 1 \in Nat /\ x.task = (x.task - 1) + 1
    BY <1>2
  <2> QED
    BY <2>1
<1>6. Len(Tasks[x.dag]) = (after + before) + 1 /\ after + before \in Nat
  BY <1>2, <1>5
<1> HIDE DEF steps, each, after
<1> DEFINE later == each * after
           earlier == each * before
           both == each * (after + before)
<1>7. both = later + earlier /\ later \in Nat /\ earlier \in Nat
  BY <1>2, <1>5, Distributes
<1>8. each * ((after + before) + 1) = both + each
  BY <1>2, <1>6, Distributes
<1>9. AllToDo(x.dag) = both + each
  BY <1>4, <1>6, <1>8
<1>10. ~Over(x) => LeftToDo(x) = later + steps
  BY <1>3
<1> HIDE DEF later, earlier, both
<1>11. CASE Over(x)
  <2>1. LeftToDo(x) = 0 /\ AllToDo(x.dag) \in Nat
    BY <1>2, <1>3, <1>7, <1>9, <1>11
  <2> QED
    BY <1>11, <2>1
<1>12. CASE ~Over(x)
  <2>1. LeftToDo(x) \in 1 .. AllToDo(x.dag)
    BY <1>1, <1>2, <1>7, <1>9, <1>10, <1>12
  <2>2. LeftToDo(x) # 0 /\ LeftToDo(x) \in 0 .. AllToDo(x.dag)
    <3> DEFINE n == LeftToDo(x)
               m == AllToDo(x.dag)
    <3>1. m \in Nat
      BY <1>2, <1>7, <1>9
    <3>2. n \in 1 .. m
      BY <2>1
    <3> HIDE DEF n, m
    <3>3. n # 0 /\ n \in 0 .. m
      BY <3>1, <3>2
    <3> QED
      BY <3>3 DEF n, m
  <2> QED
    BY <1>12, <2>2
<1> QED
  BY <1>11, <1>12

\* With the same still to come, fewer steps of a task are fewer steps.
LEMMA LessOfTask ==
    ASSUME NEW later \in Nat, NEW k \in Int, NEW here \in Int, NEW there \in Int,
           \/ here = 3 * k + 3 /\ there = 3 * k + 2
           \/ here = 3 * k + 2 /\ there = 3 * k + 1
           \/ here = 3 * k + 1 /\ there = 3 * (k - 1) + 3
    PROVE  later + there < later + here
OBVIOUS

\* Whatever becomes of its requests, a step of a run brings it nearer to its
\* end: an answer to the next task, a failure to the retry or the end.
LEMMA HandleComesNearer ==
    ASSUME Shape, NEW i \in DOMAIN dagRuns, Handle(i)
    PROVE  LeftToDo(dagRuns'[i]) < LeftToDo(dagRuns[i])
<1> DEFINE x == dagRuns[i]
           y == dagRuns'[i]
           each == 3 * (1 + Retries)
           after == Len(Tasks[x.dag]) - x.task
           later == each * after
<1>1. /\ x \in RunState /\ x.task \in 1 .. Len(Tasks[x.dag]) /\ x.try <= Retries
      /\ x.try \in Nat /\ x.task \in Nat /\ Len(Tasks[x.dag]) \in Nat
      /\ Retries \in Nat /\ each \in Nat /\ after \in Nat /\ dagRuns \in Seq(RunState)
  BY RunFields, PipelineAssumption DEF Shape
<1>2. StepsOfTask(x) \in 1 .. each /\ later \in Nat
  BY <1>1, StepsOfTaskCount, Distributes
<1>3. ~Over(x) => LeftToDo(x) = later + StepsOfTask(x)
  BY DEF LeftToDo
<1>4. ASSUME NEW s, dagRuns' = [dagRuns EXCEPT ![i].state = s]
      PROVE  /\ y.state = s /\ y.dag = x.dag /\ y.task = x.task /\ y.try = x.try
             /\ ~Over(y) => LeftToDo(y) = later + StepsOfTask(y)
  <2>1. y.state = s /\ y.dag = x.dag /\ y.task = x.task /\ y.try = x.try
    BY <1>1, <1>4 DEF RunState
  <2> QED
    BY <2>1 DEF LeftToDo
<1>5. PICK k \in Int : k = Retries - x.try
  BY <1>1
<1>6. ASSUME NEW here \in Int, NEW there \in Int,
             \/ here = 3 * k + 3 /\ there = 3 * k + 2
             \/ here = 3 * k + 2 /\ there = 3 * k + 1
             \/ here = 3 * k + 1 /\ there = 3 * (k - 1) + 3
      PROVE  later + there < later + here
  <2> HIDE DEF later
  <2> QED
    BY <1>2, <1>6, LessOfTask
<1>7. /\ 3 * k + 1 \in Int /\ 3 * k + 2 \in Int /\ 3 * k + 3 \in Int
      /\ 3 * (k - 1) + 3 \in Int
  BY <1>5
<1>8. CASE Post(i)
  <2>1. x.state = "ready" /\ y.state = "posted" /\ y.try = x.try
        /\ LeftToDo(y) = later + StepsOfTask(y)
    BY <1>4, <1>8 DEF Post, Over
  <2>2. StepsOfTask(x) = 3 * k + 3 /\ StepsOfTask(y) = 3 * k + 2
    BY <1>5, <2>1 DEF StepsOfTask
  <2>3. LeftToDo(x) = later + StepsOfTask(x)
    BY <1>3, <2>1 DEF Over
  <2> HIDE DEF later
  <2>4. later + StepsOfTask(y) < later + StepsOfTask(x)
    BY <1>6, <1>7, <2>2
  <2> QED
    BY <2>1, <2>3, <2>4
<1>9. CASE Fail(i)
  <2>1. /\ x.state = "posted" /\ y.try = x.try
        /\ y.state \in {"up_for_retry", "failed"}
        /\ ~Over(y) => LeftToDo(y) = later + StepsOfTask(y)
        /\ Over(y) => LeftToDo(y) = 0
    BY <1>4, <1>9 DEF Fail, LeftToDo
  <2>2. StepsOfTask(x) = 3 * k + 2
    BY <1>5, <2>1 DEF StepsOfTask
  <2>3. LeftToDo(x) = later + StepsOfTask(x)
    BY <1>3, <2>1 DEF Over
  <2>4. ~Over(y) => StepsOfTask(y) = 3 * k + 1
    BY <1>5, <2>1 DEF StepsOfTask, Over
  <2> HIDE DEF each, later
  <2>5. CASE Over(y)
    BY <1>2, <2>1, <2>3, <2>5
  <2>6. CASE ~Over(y)
    <3>1. later + StepsOfTask(y) < later + StepsOfTask(x)
      BY <1>6, <1>7, <2>2, <2>4, <2>6
    <3> QED
      BY <2>1, <2>3, <2>6, <3>1
  <2> QED
    BY <2>5, <2>6
<1>10. CASE Retry(i)
  <2>1. /\ x.state = "up_for_retry" /\ y.state = "ready"
        /\ y.dag = x.dag /\ y.task = x.task /\ y.try = x.try + 1
    BY <1>1, <1>10 DEF Retry, Ready
  <2>2. Retries - y.try = k - 1
    BY <1>1, <1>5, <2>1
  <2>3. StepsOfTask(x) = 3 * k + 1 /\ StepsOfTask(y) = 3 * (k - 1) + 3
    BY <1>5, <2>1, <2>2 DEF StepsOfTask
  <2>4. /\ LeftToDo(x) = later + StepsOfTask(x)
        /\ LeftToDo(y) = later + StepsOfTask(y)
    BY <2>1 DEF LeftToDo, Over
  <2> HIDE DEF later
  <2>5. later + StepsOfTask(y) < later + StepsOfTask(x)
    BY <1>6, <1>7, <2>3
  <2> QED
    BY <2>4, <2>5
<1>11. CASE Succeed(i) /\ x.task < Len(Tasks[x.dag])
  <2>1. /\ x.state = "posted" /\ y.state = "ready"
        /\ y.dag = x.dag /\ y.task = x.task + 1 /\ y.try = 0
    BY <1>1, <1>11 DEF Succeed, Ready
  <2>2. StepsOfTask(x) >= 2 /\ StepsOfTask(y) = each
    <3>1. /\ StepsOfTask(x) = 3 * (Retries - x.try) + 2
          /\ StepsOfTask(y) = 3 * (Retries - 0) + 3
      BY <2>1 DEF StepsOfTask
    <3> QED
      BY <1>1, <3>1
  <2>3. /\ LeftToDo(x) = later + StepsOfTask(x)
        /\ LeftToDo(y) = each * (Len(Tasks[x.dag]) - (x.task + 1)) + StepsOfTask(y)
    BY <2>1 DEF LeftToDo, Over
  <2> DEFINE rest == Len(Tasks[x.dag]) - (x.task + 1)
             fewer == each * rest
  <2>4. rest \in Nat /\ after = rest + 1
    BY <1>1, <1>11
  <2>5. LeftToDo(y) = fewer + StepsOfTask(y)
    BY <2>3
  <2>6. fewer \in Nat /\ later = fewer + each
    <3> HIDE DEF rest, after, each
    <3> QED
      BY <1>1, <2>4, Distributes
  <2>7. LeftToDo(y) = fewer + each
    BY <2>2, <2>5
  <2> DEFINE here == StepsOfTask(x)
  <2>8. LeftToDo(x) = fewer + each + here
    BY <2>3, <2>6
  <2>9. here \in 1 .. each /\ each \in Nat
    BY <1>1, <1>2
  <2> HIDE DEF each, after, later, rest, fewer, here
  <2>10. fewer + each < fewer + each + here
    BY <2>6, <2>9
  <2> QED
    BY <2>7, <2>8, <2>10
<1>12. CASE Succeed(i) /\ ~(x.task < Len(Tasks[x.dag]))
  <2>1. x.state = "posted" /\ y.state = "success"
    BY <1>1, <1>12 DEF Succeed, RunState
  <2>2. LeftToDo(y) = 0 /\ LeftToDo(x) = later + StepsOfTask(x)
    BY <2>1 DEF LeftToDo, Over
  <2> HIDE DEF each, later
  <2> QED
    BY <1>2, <2>2
<1> QED
  BY <1>8, <1>9, <1>10, <1>11, <1>12 DEF Handle

\* No dead executor, full pool or lost answer keeps a DAG run going beyond
\* three steps for each try of each of its tasks; the first half of DagRunsEnd.
THEOREM DagRunsAreShort ==
    Spec =>
        /\ [](\A i \in DOMAIN dagRuns :
                 /\ LeftToDo(dagRuns[i]) \in 0 .. AllToDo(dagRuns[i].dag)
                 /\ LeftToDo(dagRuns[i]) = 0 <=> Over(dagRuns[i]))
        /\ [][\A i \in DOMAIN dagRuns :
                 /\ i \in DOMAIN dagRuns'
                 /\ \/ dagRuns'[i] = dagRuns[i]
                    \/ LeftToDo(dagRuns'[i]) < LeftToDo(dagRuns[i])]_vars
<1>1. Shape => \A i \in DOMAIN dagRuns :
                 /\ LeftToDo(dagRuns[i]) \in 0 .. AllToDo(dagRuns[i].dag)
                 /\ LeftToDo(dagRuns[i]) = 0 <=> Over(dagRuns[i])
  BY RunFields, LeftToDoCount DEF Shape
<1>2. Shape /\ Next =>
        \A i \in DOMAIN dagRuns :
           /\ i \in DOMAIN dagRuns'
           /\ \/ dagRuns'[i] = dagRuns[i]
              \/ LeftToDo(dagRuns'[i]) < LeftToDo(dagRuns[i])
  <2> SUFFICES ASSUME Shape, Next, NEW i \in DOMAIN dagRuns
               PROVE  /\ i \in DOMAIN dagRuns'
                      /\ \/ dagRuns'[i] = dagRuns[i]
                         \/ LeftToDo(dagRuns'[i]) < LeftToDo(dagRuns[i])
    OBVIOUS
  <2>1. CASE \E d \in Dags : Schedule(d)
    BY <2>1 DEF Schedule, Shape
  <2>2. ASSUME NEW j \in DOMAIN dagRuns, Handle(j), j # i
        PROVE  i \in DOMAIN dagRuns' /\ dagRuns'[i] = dagRuns[i]
    BY <2>2 DEF Handle, Post, Succeed, Fail, Retry
  <2>3. CASE Handle(i)
    <3>1. DOMAIN dagRuns' = DOMAIN dagRuns
      BY <2>3 DEF Handle, Post, Succeed, Fail, Retry
    <3> QED
      BY <2>3, <3>1, HandleComesNearer
  <2>4. CASE UNCHANGED dagRuns
    BY <2>4
  <2> QED
    BY <2>1, <2>2, <2>3, <2>4
       DEF Next, Serve, Accept, Refuse, StartJob, EndJob, Crash, Restart
<1> QED
  BY <1>1, <1>2, InitInv, NextInv, PTL DEF Spec

\* Only a background task that finds a thread free is started: the tasks that
\* run share the pool.
Pool ==
    /\ \A a \in DOMAIN posts : posts[a] \in {"sent", "queued", "not_found", "closed"}
    /\ \A a \in DOMAIN jobs : jobs[a] \in {"waiting", "running", "ended", "lost"}
    /\ IsFiniteSet(DOMAIN jobs) /\ Cardinality(Running) <= Threads
    /\ executorUp \in BOOLEAN /\ crashes \in Nat

\* No step but StartJob adds to the tasks that run.
LEMMA PoolShrinks ==
    ASSUME Pool, Running' \subseteq Running, IsFiniteSet(DOMAIN jobs')
    PROVE  Cardinality(Running') <= Threads
<1>1. IsFiniteSet(Running)
  BY FS_Subset DEF Pool, Running
<1>2. Cardinality(Running') <= Cardinality(Running) /\ IsFiniteSet(Running')
  BY <1>1, FS_Subset
<1>3. Cardinality(Running') \in Nat /\ Cardinality(Running) \in Nat
  BY <1>1, <1>2, FS_CardinalityType
<1> QED
  BY <1>2, <1>3, PipelineAssumption DEF Pool

LEMMA InitPool == Init => Pool
<1> SUFFICES ASSUME Init PROVE Pool
  OBVIOUS
<1>1. DOMAIN jobs = {} /\ DOMAIN posts = {} /\ Running = {}
  BY DEF Init, Running
<1> QED
  BY <1>1, FS_EmptySet, PipelineAssumption DEF Init, Pool

LEMMA ServePool ==
    ASSUME Pool, Shape, NEW a \in DOMAIN posts, Serve(a)
    PROVE  Pool'
<1>1. executorUp' = executorUp /\ crashes' = crashes
  BY DEF Serve, Accept, Refuse
<1>2. \A b \in DOMAIN posts' : posts'[b] \in {"sent", "queued", "not_found", "closed"}
  BY DEF Pool, Serve, Accept, Refuse
<1>3. jobs' = jobs \/ jobs' = Set(jobs, a, "waiting")
  BY DEF Serve, Accept, Refuse
<1>4. CASE jobs' = jobs
  <2>1. Running' = Running
    BY <1>4 DEF Running
  <2> QED
    BY <1>1, <1>2, <1>4, <2>1 DEF Pool
<1>5. CASE jobs' = Set(jobs, a, "waiting")
  <2>1. /\ DOMAIN jobs' = DOMAIN jobs \cup {a} /\ jobs'[a] = "waiting"
        /\ \A b \in DOMAIN jobs : b # a => jobs'[b] = jobs[b]
    BY <1>5 DEF Set
  <2>2. IsFiniteSet(DOMAIN jobs')
    BY <2>1, FS_AddElement DEF Pool
  <2>3. Running' \subseteq Running
    BY <2>1 DEF Running
  <2>4. Cardinality(Running') <= Threads
    BY <2>2, <2>3, PoolShrinks
  <2> QED
    BY <1>1, <1>2, <2>1, <2>2, <2>4 DEF Pool
<1> QED
  BY <1>3, <1>4, <1>5

LEMMA JobPool ==
    ASSUME Pool, NEW a \in DOMAIN jobs, StartJob(a) \/ EndJob(a)
    PROVE  Pool'
<1>1. posts' = posts /\ executorUp' = executorUp /\ crashes' = crashes
  BY DEF StartJob, EndJob
<1>2. DOMAIN jobs' = DOMAIN jobs
  BY DEF StartJob, EndJob
<1>3. \A b \in DOMAIN jobs' : jobs'[b] \in {"waiting", "running", "ended", "lost"}
  BY DEF Pool, StartJob, EndJob
<1>4. Cardinality(Running') <= Threads
  <2>1. CASE StartJob(a)
    <3>1. IsFiniteSet(Running)
      BY FS_Subset DEF Pool, Running
    <3>2. Running' = Running \cup {a} /\ a \notin Running
      BY <2>1 DEF Running, StartJob
    <3>3. Cardinality(Running') = Cardinality(Running) + 1 /\ Cardinality(Running) \in Nat
      BY <3>1, <3>2, FS_AddElement, FS_CardinalityType
    <3>4. Cardinality(Running) < Threads
      BY <2>1 DEF StartJob, ThreadFree
    <3> QED
      BY <3>3, <3>4, PipelineAssumption
  <2>2. CASE EndJob(a)
    <3>1. Running' \subseteq Running
      BY <2>2 DEF Running, EndJob
    <3>2. IsFiniteSet(DOMAIN jobs')
      BY <1>2 DEF Pool
    <3> QED
      BY <3>1, <3>2, PoolShrinks
  <2> QED
    BY <2>1, <2>2
<1> QED
  BY <1>1, <1>2, <1>3, <1>4 DEF Pool

LEMMA CrashPool ==
    ASSUME Pool, Crash
    PROVE  Pool'
<1>1. DOMAIN jobs' = DOMAIN jobs /\ DOMAIN posts' = DOMAIN posts
  BY DEF Crash
<1>2. /\ \A b \in DOMAIN posts' : posts'[b] \in {"sent", "queued", "not_found", "closed"}
      /\ \A b \in DOMAIN jobs' : jobs'[b] \in {"ended", "lost"}
  BY DEF Pool, Crash
<1>3. executorUp' \in BOOLEAN /\ crashes' \in Nat
  <2>1. executorUp' \in BOOLEAN
    BY Zenon DEF Crash
  <2>2. crashes' = crashes + 1 /\ crashes \in Nat
    BY DEF Pool, Crash
  <2> QED
    BY <2>1, <2>2
<1>4. Running' \subseteq Running
  BY <1>2 DEF Running
<1>5. Cardinality(Running') <= Threads
  BY <1>1, <1>4, PoolShrinks DEF Pool
<1> QED
  BY <1>1, <1>2, <1>3, <1>5 DEF Pool

\* Airflow's steps touch the executor's threads in no way.
LEMMA OutsidePool ==
    ASSUME Pool, jobs' = jobs, crashes' = crashes, executorUp' \in BOOLEAN,
           \A b \in DOMAIN posts' : posts'[b] \in {"sent", "queued", "not_found", "closed"}
    PROVE  Pool'
<1>1. Running' = Running
  BY DEF Running
<1> QED
  BY <1>1 DEF Pool

LEMMA NextPool == Pool /\ Shape /\ [Next]_vars => Pool'
<1> SUFFICES ASSUME Pool, Shape, [Next]_vars PROVE Pool'
  OBVIOUS
<1>1. ASSUME NEW d \in Dags, Schedule(d) PROVE Pool'
  BY <1>1, OutsidePool DEF Schedule, Pool
<1>2. ASSUME NEW i \in DOMAIN dagRuns, Handle(i) PROVE Pool'
  <2>1. jobs' = jobs /\ crashes' = crashes /\ executorUp' = executorUp
    BY <1>2 DEF Handle, Post, Succeed, Fail, Retry
  <2>2. posts' = posts \/ posts' = Set(posts, Current(i), "sent")
    BY <1>2 DEF Handle, Post, Succeed, Fail, Retry
  <2>3. \A b \in DOMAIN posts' : posts'[b] \in {"sent", "queued", "not_found", "closed"}
    BY <2>2 DEF Set, Pool
  <2> QED
    BY <2>1, <2>3, OutsidePool DEF Pool
<1>3. ASSUME NEW a \in DOMAIN posts, Serve(a) PROVE Pool'
  BY <1>3, ServePool
<1>4. ASSUME NEW a \in DOMAIN jobs, StartJob(a) \/ EndJob(a) PROVE Pool'
  BY <1>4, JobPool
<1>5. CASE Restart
  BY <1>5, OutsidePool DEF Restart, Pool
<1>6. CASE UNCHANGED vars
  BY <1>6, OutsidePool DEF vars, Pool
<1> QED
  BY <1>1, <1>2, <1>3, <1>4, <1>5, <1>6, CrashPool DEF Next

\* Runs, requests and background tasks keep their types, and no more notebooks
\* run at a time than the executor has threads.
THEOREM PipelineTypeCorrect == Spec => []PipelineTypeOK
<1>1. Shape /\ Pool => PipelineTypeOK
  BY DEF Shape, Pool, PipelineTypeOK
<1> QED
  BY <1>1, InitInv, NextInv, InitPool, NextPool, PTL DEF Spec
-----------------------------------------------------------------------------
(* The AI report                                                           *)

\* The overrides of some of the devices.
Registers == UNION {[some -> Overrides] : some \in SUBSET Devices}

\* While a report is made, the history has every type that is, or was when
\* the devices were read, not wholly OFF.
Informed ==
    /\ ReportTypeOK /\ AllOffIsSilent
    /\ devices \in Registers
    /\ reporter \in [pc : {"idle", "loaded", "read"}, model : Limits \cup {NoModel},
                     devices : Registers]
    /\ reporter.pc # "idle" => Awake(devices) \subseteq awake
    /\ reporter.pc = "read" => Awake(reporter.devices) \subseteq awake

LEMMA NothingRegistered == NoRow \in Registers
<1>1. NoRow \in [{} -> Overrides]
  BY DEF NoRow
<1> QED
  BY <1>1 DEF Registers

LEMMA ReportInitInv == ReportInit => Informed
<1> SUFFICES ASSUME ReportInit PROVE Informed
  OBVIOUS
<1>1. DOMAIN NoRow = {}
  BY DEF NoRow
<1>2. ReportTypeOK
  BY <1>1 DEF ReportInit, ReportTypeOK, NoFile, NoRun, NoModel, NoReport
<1>3. AllOffIsSilent
  BY <1>1 DEF ReportInit, AllOffIsSilent, NoReport
<1> QED
  BY <1>2, <1>3, NothingRegistered DEF ReportInit, Informed, NoRun, NoModel

\* The dashboard's steps.
LEMMA SetDeviceInformed ==
    ASSUME Informed, NEW d \in Devices, NEW o \in Overrides, SetDevice(d, o) PROVE Informed'
<1>1. PICK some \in SUBSET Devices : devices \in [some -> Overrides]
  BY DEF Informed, Registers
<1>2. devices' \in [some \cup {d} -> Overrides]
  BY <1>1 DEF SetDevice
<1>3. devices' \in Registers
  BY <1>2 DEF Registers
<1>4. awake \subseteq awake' /\ Awake(devices') \subseteq awake' /\ awake' \subseteq Types
  BY DEF SetDevice, Informed, ReportTypeOK, Awake
<1>5. UNCHANGED <<rows, enough, file, trainer, reporter, report, reportFailures>>
  BY DEF SetDevice
<1>6. ReportTypeOK'
  BY <1>2, <1>4, <1>5 DEF Informed, ReportTypeOK
<1> QED
  BY <1>3, <1>4, <1>5, <1>6 DEF Informed, AllOffIsSilent

\* The stream's and the trainings' steps leave the report alone.
LEMMA OthersInformed ==
    ASSUME Informed, ReportTypeOK', UNCHANGED <<devices, reporter, report, awake>>
    PROVE  Informed'
BY DEF Informed, AllOffIsSilent

LEMMA StreamRowInformed ==
    ASSUME Informed, NEW g \in DeviceGroups, NEW avg \in Averages, StreamRow(g, avg)
    PROVE  Informed'
<1>1. ReportTypeOK'
  BY DEF StreamRow, Informed, ReportTypeOK
<1> QED
  BY <1>1, OthersInformed DEF StreamRow

LEMMA TrainingInformed ==
    ASSUME Informed, NEW t \in Trainers, Fit(t) \/ Dump(t) PROVE Informed'
<1>1. CASE Fit(t)
  BY <1>1, OthersInformed DEF Fit, Informed, ReportTypeOK
<1>2. CASE Dump(t)
  BY <1>2, OthersInformed DEF Dump, Informed, ReportTypeOK, NoFile
<1> QED
  BY <1>1, <1>2

\* The device a group is judged by is, for a type wholly OFF, OFF too.
LEMMA MatchIsAwake ==
    ASSUME Informed, NEW t \in Types, NEW match \in Matches(t), match.override # "OFF"
    PROVE  t \in Awake(reporter.devices)
<1>1. CASE OfType(reporter.devices, t) = {}
  BY <1>1 DEF Awake
<1>2. CASE OfType(reporter.devices, t) # {}
  <2>1. PICK d \in OfType(reporter.devices, t) : match.override = reporter.devices[d]
    BY <1>2 DEF Matches
  <2> QED
    BY <2>1 DEF Awake
<1> QED
  BY <1>1, <1>2

LEMMA InsertReportInformed == ASSUME Informed, InsertReport PROVE Informed'
<1>1. PICK match \in [{g.type : g \in DOMAIN rows} -> UNION {Matches(t) : t \in Types} \cup {NoMatch}] :
          LET alerted == {g \in DOMAIN rows : Deviates(rows[g], match[g.type])}
          IN  /\ \A t \in DOMAIN match : match[t] \in Matches(t)
              /\ report' =
                    [rows   |-> rows,
                     alerts |-> [g \in alerted |->
                                    IF match[g.type].critical THEN "CRITICAL" ELSE "WARNING"],
                     awake  |-> awake]
  BY DEF InsertReport
<1> DEFINE alerted == {g \in DOMAIN rows : Deviates(rows[g], match[g.type])}
<1>2. /\ DOMAIN report'.alerts = alerted /\ report'.awake = awake
      /\ \A g \in alerted : report'.alerts[g] \in {"CRITICAL", "WARNING"}
  BY <1>1
<1>3. ASSUME NEW g \in alerted PROVE g.type \in awake
  <2>1. g \in DOMAIN rows /\ match[g.type].override # "OFF"
    BY DEF Deviates
  <2>2. g.type \in Types
    BY <2>1 DEF Informed, ReportTypeOK, DeviceGroups, Group, Types
  <2>3. match[g.type] \in Matches(g.type)
    BY <1>1, <2>1
  <2>4. g.type \in Awake(reporter.devices)
    BY <2>1, <2>2, <2>3, MatchIsAwake
  <2> QED
    BY <2>4 DEF Informed, InsertReport
<1>4. /\ UNCHANGED <<devices, rows, enough, file, trainer, awake, reportFailures>>
      /\ reporter' = NoRun
  BY DEF InsertReport
<1>5. AllOffIsSilent'
  BY <1>2, <1>3 DEF AllOffIsSilent
<1>6. ReportTypeOK'
  BY <1>2, <1>4 DEF Informed, ReportTypeOK, NoRun
<1> QED
  BY <1>4, <1>5, <1>6, NothingRegistered DEF Informed, NoRun

\* What a file gives is a limit, or no model.
LEMMA LoadsType == ASSUME Informed PROVE Loads(file) \subseteq Limits \cup {NoModel}
BY DEF Informed, ReportTypeOK, Loads, Whole, NoModel

LEMMA LoadModelInformed == ASSUME Informed, LoadModel PROVE Informed'
<1>1. PICK m \in Loads(file) : reporter' = [reporter EXCEPT !.pc = "loaded", !.model = m]
  BY DEF LoadModel
<1>2. m \in Limits \cup {NoModel}
  BY LoadsType
<1>3. /\ report' = NoReport /\ awake' = Awake(devices)
      /\ UNCHANGED <<devices, rows, enough, file, trainer, reportFailures>>
  BY DEF LoadModel
<1>4. DOMAIN report'.alerts = {}
  BY <1>3 DEF NoReport, NoRow
<1>5. reporter' \in [pc : {"idle", "loaded", "read"}, model : Limits \cup {NoModel},
                     devices : Registers] /\ reporter'.pc = "loaded"
  BY <1>1, <1>2 DEF Informed
<1>6. awake' \subseteq Types
  BY <1>3 DEF Awake
<1>7. ReportTypeOK'
  BY <1>3, <1>4, <1>5, <1>6 DEF Informed, ReportTypeOK
<1> QED
  BY <1>3, <1>4, <1>5, <1>7 DEF Informed, AllOffIsSilent

LEMMA ReadDevicesInformed == ASSUME Informed, ReadDevices PROVE Informed'
<1>1. reporter' \in [pc : {"idle", "loaded", "read"}, model : Limits \cup {NoModel},
                     devices : Registers] /\ reporter'.devices = devices
  BY DEF Informed, ReadDevices
<1>2. /\ reporter.pc = "loaded"
      /\ UNCHANGED <<devices, rows, enough, file, trainer, report, awake, reportFailures>>
  BY DEF ReadDevices
<1>3. ReportTypeOK'
  BY <1>1, <1>2 DEF Informed, ReportTypeOK
<1> QED
  BY <1>1, <1>2, <1>3 DEF Informed, AllOffIsSilent

\* A run that ends without a report leaves what there was.
LEMMA RunOverInformed ==
    ASSUME Informed, reporter' = NoRun,
           trainer' = [t \in Trainers |-> [pc |-> "idle", limit |-> 0]] \/ UNCHANGED trainer,
           reportFailures' \in Nat,
           UNCHANGED <<devices, rows, enough, file, report, awake>>
    PROVE  Informed'
<1>1. ReportTypeOK'
  BY DEF Informed, ReportTypeOK, NoRun
<1> QED
  BY <1>1, NothingRegistered DEF Informed, AllOffIsSilent, NoRun

LEMMA ReportNextInv == Informed /\ [ReportNext]_reportVars => Informed'
<1> SUFFICES ASSUME Informed, [ReportNext]_reportVars PROVE Informed'
  OBVIOUS
<1>1. CASE \E d \in Devices, o \in Overrides : SetDevice(d, o)
  BY <1>1, SetDeviceInformed
<1>2. CASE \E g \in DeviceGroups, avg \in Averages : StreamRow(g, avg)
  BY <1>2, StreamRowInformed
<1>3. CASE \E t \in Trainers : Fit(t) \/ Dump(t)
  BY <1>3, TrainingInformed
<1>4. CASE ReadNothing
  BY <1>4, RunOverInformed DEF ReadNothing, Informed, ReportTypeOK
<1>5. CASE FailReport \/ GoDown
  BY <1>5, RunOverInformed DEF FailReport, GoDown, Informed, ReportTypeOK
<1>6. CASE UNCHANGED reportVars
  BY <1>6, OthersInformed DEF reportVars, Informed, ReportTypeOK
<1> QED
  BY <1>1, <1>2, <1>3, <1>4, <1>5, <1>6, LoadModelInformed, ReadDevicesInformed,
     InsertReportInformed DEF ReportNext, Report

\* The device read, the model and the report keep their types, whatever state
\* the trainings leave the file in.
THEOREM ReportTypeCorrect == ReportSpec => []ReportTypeOK
<1>1. Informed => ReportTypeOK
  BY DEF Informed
<1> QED
  BY <1>1, ReportInitInv, ReportNextInv, PTL DEF ReportSpec

\* However the overrides change while a report is made, it has no alert for a
\* type all of whose devices were forced OFF throughout.
THEOREM ReportSilentOnOff == ReportSpec => []AllOffIsSilent
<1>1. Informed => AllOffIsSilent
  BY DEF Informed
<1> QED
  BY <1>1, ReportInitInv, ReportNextInv, PTL DEF ReportSpec

\* Whatever state the model file is in, a run ends in a report unless there is
\* no row, or the database or the container fails.
THEOREM ReportIsMade == ReportSpec => RunEndsInReport
<1> DEFINE Made == reporter.pc # "idle" /\ reporter'.pc = "idle" =>
                       report'.rows # NoRow \/ rows = NoRow \/ reportFailures' # reportFailures
<1>1. Informed /\ [ReportNext]_reportVars => [Made]_reportVars
  <2> SUFFICES ASSUME Informed, ReportNext, reporter.pc # "idle", reporter'.pc = "idle"
               PROVE  report'.rows # NoRow \/ rows = NoRow \/ reportFailures' # reportFailures
    OBVIOUS
  <2>1. reportFailures \in Nat
    BY DEF Informed, ReportTypeOK
  <2>2. CASE InsertReport
    BY <2>2 DEF InsertReport
  <2>3. CASE ReadNothing
    BY <2>3 DEF ReadNothing
  <2>4. CASE FailReport \/ GoDown
    BY <2>1, <2>4 DEF FailReport, GoDown
  <2>5. CASE LoadModel \/ ReadDevices
    BY <2>5 DEF LoadModel, ReadDevices, Informed
  <2>6. UNCHANGED reporter => FALSE
    OBVIOUS
  <2> QED
    BY <2>2, <2>3, <2>4, <2>5, <2>6
       DEF ReportNext, Report, SetDevice, StreamRow, Fit, Dump
<1> QED
  BY <1>1, ReportInitInv, ReportNextInv, PTL DEF ReportSpec, RunEndsInReport
-----------------------------------------------------------------------------
(* The historical summary                                                  *)

\* Every row, whatever runs overlapped and broke off, is made of the readings
\* of its group up to somewhere.
RowsOfReadings ==
    \A g \in DOMAIN summary : \E n \in 0 .. Len(silver) :
        g \in GroupsPresent(n) /\ summary[g] = Aggregate(ReadUpTo(n), g)

\* A run has read no further than the archive goes.
Archived ==
    /\ silver \in Seq(Reading)
    /\ run \in [Runners -> [pc : {"idle", "read", "insert"}, upto : Nat, left : SUBSET Groups]]
    /\ \A r \in Runners : /\ run[r].upto \in 0 .. Len(silver)
                          /\ run[r].left \subseteq GroupsPresent(run[r].upto)
                          /\ run[r].pc = "read" => run[r].left = GroupsPresent(run[r].upto)
    /\ ended \in {Broken} \cup 0 .. Len(silver)
    /\ RowsOfReadings

\* What a run has inserted.
Half(x) == [g \in GroupsPresent(x.upto) \ x.left |-> Aggregate(ReadUpTo(x.upto), g)]

\* Until two runs overlap the table has what the one in progress has inserted,
\* or what the last one left.
Undisturbed ==
    ~overlapped =>
        /\ \A r, q \in Runners : run[r].pc # "idle" /\ run[q].pc # "idle" => r = q
        /\ \A r \in Runners : run[r].pc = "insert" => summary = Half(run[r])
        /\ SummaryIsOneReading

SummaryInv == Archived /\ Undisturbed

\* The archive only grows: what was read of it can be read again.
LEMMA PrefixKept ==
    ASSUME silver \in Seq(Reading), NEW x \in Reading, silver' = Append(silver, x),
           NEW n \in 0 .. Len(silver)
    PROVE  /\ SubSeq(silver', 1, n) = SubSeq(silver, 1, n)
           /\ \A i \in 1 .. n : silver'[i] = silver[i]
<1>1. /\ Len(silver) \in Nat /\ Len(silver') = Len(silver) + 1
      /\ \A i \in 1 .. Len(silver) : silver'[i] = silver[i]
  OBVIOUS
<1>2. \A i \in 1 .. n : silver'[i] = silver[i]
  BY <1>1
<1>3. SubSeq(silver', 1, n) = SubSeq(silver, 1, n)
  BY <1>1, <1>2
<1> QED
  BY <1>2, <1>3

LEMMA RowsKept ==
    ASSUME silver \in Seq(Reading), NEW x \in Reading, silver' = Append(silver, x),
           NEW n \in 0 .. Len(silver)
    PROVE  /\ ReadUpTo(n)' = ReadUpTo(n)
           /\ GroupsPresent(n)' = GroupsPresent(n)
           /\ RowsOf(n)' = RowsOf(n)
<1>1. ReadUpTo(n)' = ReadUpTo(n)
  BY PrefixKept DEF ReadUpTo
<1>2. GroupsPresent(n)' = GroupsPresent(n)
  BY PrefixKept DEF GroupsPresent
<1>3. RowsOf(n)' = RowsOf(n)
  BY <1>1, <1>2, Zenon DEF RowsOf
<1> QED
  BY <1>1, <1>2, <1>3

LEMMA NothingRead == RowsOf(0) = Empty
<1>1. GroupsPresent(0) = {}
  BY DEF GroupsPresent
<1> QED
  BY <1>1 DEF RowsOf, Empty

\* An empty table is part of every reading.
LEMMA EmptyIsReading ==
    ASSUME Archived PROVE \E n \in 0 .. Len(silver) : PartOf(Empty, RowsOf(n))
<1>1. 0 \in 0 .. Len(silver)
  BY DEF Archived
<1>2. PartOf(Empty, RowsOf(0))
  BY DEF PartOf, Empty
<1> QED
  BY <1>1, <1>2

LEMMA SummaryInitInv == SummaryInit => SummaryInv
<1> SUFFICES ASSUME SummaryInit PROVE SummaryInv
  OBVIOUS
<1>1. Len(silver) = 0 /\ DOMAIN Empty = {}
  BY DEF SummaryInit, Empty
<1>2. Archived
  BY <1>1 DEF SummaryInit, Archived, RowsOfReadings, Idle
<1>3. SummaryIsOneReading
  BY <1>1, <1>2, EmptyIsReading, NothingRead DEF SummaryInit, SummaryIsOneReading
<1> QED
  BY <1>2, <1>3 DEF SummaryInit, SummaryInv, Undisturbed, Idle

\* The archive gets a reading.
LEMMA ArchiveStep ==
    ASSUME SummaryInv, NEW x \in Reading, Archive(x) PROVE SummaryInv'
<1>1. /\ silver \in Seq(Reading) /\ silver' = Append(silver, x)
      /\ UNCHANGED <<summary, run, ended, overlapped>>
  BY DEF Archive, SummaryInv, Archived, history
<1>2. /\ silver' \in Seq(Reading) /\ Len(silver) \in Nat /\ Len(silver') = Len(silver) + 1
  BY <1>1
<1>3. ASSUME NEW n \in 0 .. Len(silver)
      PROVE  /\ n \in 0 .. Len(silver') /\ ReadUpTo(n)' = ReadUpTo(n)
             /\ GroupsPresent(n)' = GroupsPresent(n) /\ RowsOf(n)' = RowsOf(n)
  BY <1>1, <1>2, RowsKept
<1>4. RowsOfReadings'
  <2> SUFFICES ASSUME NEW g \in DOMAIN summary
               PROVE  \E n \in 0 .. Len(silver') :
                         (g \in GroupsPresent(n))' /\ summary[g] = Aggregate(ReadUpTo(n)', g)
    BY <1>1 DEF RowsOfReadings
  <2>1. PICK n \in 0 .. Len(silver) :
           g \in GroupsPresent(n) /\ summary[g] = Aggregate(ReadUpTo(n), g)
    BY DEF SummaryInv, Archived, RowsOfReadings
  <2> QED
    BY <1>3, <2>1
<1>5. ASSUME NEW r \in Runners
      PROVE  /\ run[r].upto \in 0 .. Len(silver')
             /\ GroupsPresent(run[r].upto)' = GroupsPresent(run[r].upto)
             /\ ReadUpTo(run[r].upto)' = ReadUpTo(run[r].upto)
  <2>1. PICK n \in 0 .. Len(silver) : n = run[r].upto
    BY DEF SummaryInv, Archived
  <2>2. run'[r].upto = n
    BY <1>1, <2>1
  <2>3. /\ GroupsPresent(run[r].upto)' = GroupsPresent(n)'
        /\ ReadUpTo(run[r].upto)' = ReadUpTo(n)'
    BY <2>2 DEF GroupsPresent, ReadUpTo
  <2> QED
    BY <1>3, <2>1, <2>3
<1>6. Archived'
  <2>1. \A r \in Runners :
           /\ run[r].left \subseteq GroupsPresent(run[r].upto)
           /\ run[r].pc = "read" => run[r].left = GroupsPresent(run[r].upto)
    BY DEF SummaryInv, Archived
  <2>2. ended \in {Broken} \cup 0 .. Len(silver')
    BY <1>2 DEF SummaryInv, Archived
  <2> QED
    BY <1>1, <1>2, <1>4, <1>5, <2>1, <2>2 DEF SummaryInv, Archived
<1>7. ASSUME NEW r \in Runners PROVE Half(run[r])' = Half(run[r])
  BY <1>1, <1>5, Zenon DEF Half
<1>8. ended # Broken => RowsOf(ended)' = RowsOf(ended)
  <2> SUFFICES ASSUME ended # Broken PROVE RowsOf(ended)' = RowsOf(ended)
    OBVIOUS
  <2>1. PICK n \in 0 .. Len(silver) : n = ended
    BY DEF SummaryInv, Archived
  <2>2. RowsOf(ended)' = RowsOf(n)'
    BY <1>1, <2>1
  <2> QED
    BY <1>3, <2>1, <2>2
<1>9. ASSUME ~overlapped
      PROVE  \E n \in 0 .. Len(silver') : PartOf(summary', RowsOf(n)')
  <2>1. PICK n \in 0 .. Len(silver) : PartOf(summary, RowsOf(n))
    BY <1>9 DEF SummaryInv, Undisturbed, SummaryIsOneReading
  <2> QED
    BY <1>1, <1>3, <2>1
<1>10. SummaryIsOneReading'
  BY <1>1, <1>8, <1>9 DEF SummaryIsOneReading, SummaryInv, Undisturbed
<1> QED
  BY <1>1, <1>6, <1>7, <1>10 DEF SummaryInv, Undisturbed

\* A run that begins alone leaves the table alone.
LEMMA ReadStep == ASSUME SummaryInv, NEW r \in Runners, Read(r) PROVE SummaryInv'
<1>1. /\ run[r].pc = "idle" /\ UNCHANGED <<silver, summary, ended>>
      /\ run' = [run EXCEPT ![r] =
                    [pc |-> "read", upto |-> Len(silver), left |-> GroupsPresent(Len(silver))]]
      /\ overlapped' = (overlapped \/ \E q \in Runners \ {r} : run[q].pc # "idle")
  BY DEF Read, Beside
<1>2. Len(silver) \in Nat /\ GroupsPresent(Len(silver)) \subseteq Groups
  <2>1. Len(silver) \in Nat /\ \A i \in 1 .. Len(silver) : silver[i] \in Reading
    BY DEF SummaryInv, Archived
  <2> QED
    BY <2>1 DEF GroupsPresent, Reading
<1>3. Archived'
  BY <1>1, <1>2 DEF SummaryInv, Archived, RowsOfReadings, GroupsPresent, ReadUpTo
<1>4. ASSUME NEW q \in Runners
      PROVE  /\ q # r => run'[q] = run[q]
             /\ run'[r].pc = "read"
  BY <1>1 DEF SummaryInv, Archived
<1>5. ASSUME ~overlapped'
      PROVE  /\ ~overlapped /\ \A q \in Runners \ {r} : run[q].pc = "idle"
             /\ \A q \in Runners : run'[q].pc # "insert" /\ run[q].pc # "insert"
             /\ \A p, q \in Runners : run'[p].pc # "idle" /\ run'[q].pc # "idle" => p = q
  <2>1. ~overlapped /\ \A q \in Runners \ {r} : run[q].pc = "idle"
    BY <1>1, <1>5, Zenon
  <2>2. \A q \in Runners : run'[q].pc # "idle" => q = r
    BY <1>4, <2>1
  <2>3. \A q \in Runners : run'[q].pc # "insert" /\ run[q].pc # "insert"
    BY <1>1, <1>4, <2>1
  <2> QED
    BY <2>1, <2>2, <2>3
<1>6. \A n : RowsOf(n)' = RowsOf(n)
  BY <1>1 DEF RowsOf, GroupsPresent, ReadUpTo
<1>7. RowsOf(ended)' = RowsOf(ended)
  BY <1>1 DEF RowsOf, GroupsPresent, ReadUpTo
<1>8. SummaryIsOneReading'
  BY <1>1, <1>5, <1>6, <1>7 DEF SummaryIsOneReading, SummaryInv, Undisturbed
<1> QED
  BY <1>3, <1>5, <1>8 DEF SummaryInv, Undisturbed

\* A step of a run that leaves the archive alone.
LEMMA OneSummaryStep ==
    ASSUME SummaryInv, NEW r \in Runners, UNCHANGED <<silver, overlapped>>, run[r].pc # "idle",
           NEW x \in [pc : {"idle", "read", "insert"}, upto : Nat, left : SUBSET Groups],
           run' = [run EXCEPT ![r] = x],
           x.pc # "read", x.upto \in 0 .. Len(silver), x.left \subseteq GroupsPresent(x.upto),
           ended' \in {Broken} \cup 0 .. Len(silver),
           RowsOfReadings',
           ~overlapped =>
              /\ \E n \in 0 .. Len(silver) : PartOf(summary', RowsOf(n))
              /\ x.pc = "insert" => summary' = Half(x)
              /\ x.pc # "insert" /\ ended' # Broken => summary' = RowsOf(ended')
    PROVE  SummaryInv'
<1>1. run'[r] = x /\ \A q \in Runners : q # r => run'[q] = run[q]
  BY DEF SummaryInv, Archived
<1>2. \A n : RowsOf(n)' = RowsOf(n) /\ GroupsPresent(n)' = GroupsPresent(n)
  BY DEF RowsOf, GroupsPresent, ReadUpTo
<1>3. Archived'
  <2>1. \A q \in Runners :
           /\ run'[q].left \subseteq GroupsPresent(run'[q].upto)
           /\ run'[q].pc = "read" => run'[q].left = GroupsPresent(run'[q].upto)
    BY <1>1 DEF SummaryInv, Archived
  <2>2. \A q \in Runners :
           /\ (run[q].left \subseteq GroupsPresent(run[q].upto))'
           /\ (run[q].pc = "read" => run[q].left = GroupsPresent(run[q].upto))'
    BY <2>1 DEF GroupsPresent
  <2>3. \A q \in Runners : run'[q].upto \in 0 .. Len(silver)
    BY <1>1 DEF SummaryInv, Archived
  <2>4. run' \in [Runners -> [pc : {"idle", "read", "insert"}, upto : Nat, left : SUBSET Groups]]
    BY DEF SummaryInv, Archived
  <2> QED
    BY <2>2, <2>3, <2>4 DEF SummaryInv, Archived
<1>4. ASSUME ~overlapped'
      PROVE  /\ ~overlapped
             /\ \A q \in Runners : run'[q].pc = "insert" => q = r /\ x.pc = "insert"
             /\ \A p, q \in Runners : run'[p].pc # "idle" /\ run'[q].pc # "idle" => p = q
  BY <1>1, <1>4 DEF SummaryInv, Undisturbed
<1>5. RowsOf(ended)' = RowsOf(ended') /\ Half(run[r])' = Half(x)
  BY <1>1 DEF RowsOf, Half, GroupsPresent, ReadUpTo
<1>6. SummaryIsOneReading'
  BY <1>1, <1>2, <1>4, <1>5 DEF SummaryIsOneReading
<1> QED
  BY <1>1, <1>3, <1>4, <1>5, <1>6 DEF SummaryInv, Undisturbed

LEMMA TruncateStep == ASSUME SummaryInv, NEW r \in Runners, Truncate(r) PROVE SummaryInv'
<1> DEFINE x == [run[r] EXCEPT !.pc = "insert"]
<1>1. /\ x \in [pc : {"idle", "read", "insert"}, upto : Nat, left : SUBSET Groups]
      /\ x.pc = "insert" /\ x.upto = run[r].upto /\ x.left = run[r].left
  BY DEF SummaryInv, Archived
<1>2. /\ run[r].pc = "read" /\ run' = [run EXCEPT ![r] = x] /\ summary' = Empty
      /\ UNCHANGED <<silver, ended, overlapped>>
  BY DEF Truncate, SummaryInv, Archived, history
<1>3. x.left = GroupsPresent(x.upto) /\ x.upto \in 0 .. Len(silver)
  BY <1>1, <1>2 DEF SummaryInv, Archived
<1>4. Half(x) = Empty
  BY <1>3 DEF Half, Empty
<1>5. RowsOfReadings'
  BY <1>2 DEF RowsOfReadings, Empty
<1>6. \E n \in 0 .. Len(silver) : PartOf(summary', RowsOf(n))
  BY <1>2, EmptyIsReading DEF SummaryInv
<1>7. ended' \in {Broken} \cup 0 .. Len(silver)
  BY <1>2 DEF SummaryInv, Archived
<1> HIDE DEF x
<1> QED
  BY <1>1, <1>2, <1>3, <1>4, <1>5, <1>6, <1>7, OneSummaryStep

\* A partition goes in: more of the same reading, or all of it.
LEMMA InsertStep == ASSUME SummaryInv, NEW r \in Runners, Insert(r) PROVE SummaryInv'
<1>1. PICK part \in (SUBSET run[r].left) \ {{}} :
          /\ summary' = Inserted(r, part)
          /\ run' = [run EXCEPT ![r] = IF part = @.left THEN Idle
                                       ELSE [pc |-> "insert", upto |-> @.upto, left |-> @.left \ part]]
          /\ ended' = IF part = run[r].left THEN run[r].upto ELSE ended
  BY DEF Insert
<1>2. run[r].pc = "insert" /\ UNCHANGED <<silver, overlapped>>
  BY DEF Insert
<1>3. /\ run[r].upto \in 0 .. Len(silver) /\ run[r].left \subseteq GroupsPresent(run[r].upto)
      /\ run[r] \in [pc : {"idle", "read", "insert"}, upto : Nat, left : SUBSET Groups]
      /\ Len(silver) \in Nat
  BY DEF SummaryInv, Archived
<1>4. PICK x : x = IF part = run[r].left THEN Idle
                      ELSE [pc |-> "insert", upto |-> run[r].upto, left |-> run[r].left \ part]
  OBVIOUS
<1>5. PICK n \in 0 .. Len(silver) : n = run[r].upto
  BY <1>3
<1>6. PICK rest : rest = run[r].left \ part
  OBVIOUS
<1>7. /\ part = run[r].left => x.pc = "idle" /\ x.upto = 0 /\ x.left = {}
      /\ part # run[r].left => x.pc = "insert" /\ x.upto = n /\ x.left = rest
      /\ x \in [pc : {"idle", "read", "insert"}, upto : Nat, left : SUBSET Groups]
  BY <1>2, <1>3, <1>4, <1>5, <1>6 DEF Idle
<1>8. run' = [run EXCEPT ![r] = x]
  BY <1>1, <1>4
<1>9. x.upto \in 0 .. Len(silver) /\ x.left \subseteq GroupsPresent(x.upto)
  BY <1>3, <1>5, <1>6, <1>7
<1>10. summary' = [g \in DOMAIN summary \cup part |->
                     IF g \in part THEN Aggregate(ReadUpTo(n), g) ELSE summary[g]]
  BY <1>1, <1>5 DEF Inserted
<1>11. RowsOfReadings'
  <2> SUFFICES ASSUME NEW g \in DOMAIN summary'
               PROVE  \E m \in 0 .. Len(silver) :
                         g \in GroupsPresent(m) /\ summary'[g] = Aggregate(ReadUpTo(m), g)
    BY <1>2 DEF RowsOfReadings, GroupsPresent, ReadUpTo
  <2>1. CASE g \in part
    BY <1>3, <1>5, <1>10, <2>1
  <2>2. CASE g \notin part
    BY <1>10, <2>2 DEF SummaryInv, Archived, RowsOfReadings
  <2> QED
    BY <2>1, <2>2
<1>12. ended' \in {Broken} \cup 0 .. Len(silver)
  BY <1>1, <1>3 DEF SummaryInv, Archived
<1>13. ASSUME ~overlapped
       PROVE  summary' = [g \in GroupsPresent(n) \ rest |-> Aggregate(ReadUpTo(n), g)]
  <2>1. summary = [g \in GroupsPresent(n) \ run[r].left |-> Aggregate(ReadUpTo(n), g)]
    BY <1>2, <1>5, <1>13 DEF SummaryInv, Undisturbed, Half
  <2>2. (GroupsPresent(n) \ run[r].left) \cup part = GroupsPresent(n) \ rest
    BY <1>3, <1>5, <1>6
  <2> QED
    BY <1>10, <2>1, <2>2
<1>14. part = run[r].left => rest = {}
  BY <1>6
<1>15. ASSUME ~overlapped
       PROVE  /\ \E m \in 0 .. Len(silver) : PartOf(summary', RowsOf(m))
              /\ x.pc = "insert" => summary' = Half(x)
              /\ x.pc # "insert" /\ ended' # Broken => summary' = RowsOf(ended')
  <2>1. PartOf(summary', RowsOf(n))
    BY <1>13, <1>15 DEF PartOf, RowsOf
  <2>2. x.pc = "insert" => summary' = Half(x)
    BY <1>7, <1>13, <1>15 DEF Half
  <2>3. x.pc # "insert" => ended' = n /\ rest = {}
    BY <1>1, <1>5, <1>7, <1>14
  <2>4. rest = {} => summary' = RowsOf(n)
    BY <1>13, <1>15 DEF RowsOf
  <2> QED
    BY <2>1, <2>2, <2>3, <2>4
<1>16. x.pc # "read" /\ run[r].pc # "idle"
  BY <1>2, <1>7
<1> QED
  BY <1>2, <1>7, <1>8, <1>9, <1>11, <1>12, <1>15, <1>16, OneSummaryStep

\* A run that breaks off leaves the rows there are.
LEMMA BreakStep ==
    ASSUME SummaryInv, NEW r \in Runners, run[r].pc # "idle",
           run' = [run EXCEPT ![r] = Idle],
           ended' = IF run[r].pc = "insert" THEN Broken ELSE ended,
           UNCHANGED <<silver, summary, overlapped>>
    PROVE  SummaryInv'
<1>1. /\ Idle \in [pc : {"idle", "read", "insert"}, upto : Nat, left : SUBSET Groups]
      /\ Idle.pc = "idle" /\ Idle.upto = 0 /\ Idle.left = {}
  BY DEF Idle
<1>2. Idle.upto \in 0 .. Len(silver) /\ Idle.left \subseteq GroupsPresent(Idle.upto)
  BY <1>1 DEF SummaryInv, Archived
<1>3. ended' \in {Broken} \cup 0 .. Len(silver)
  BY DEF SummaryInv, Archived
<1>4. RowsOfReadings'
  BY DEF SummaryInv, Archived, RowsOfReadings, GroupsPresent, ReadUpTo
<1>5. ASSUME ~overlapped
      PROVE  /\ \E n \in 0 .. Len(silver) : PartOf(summary', RowsOf(n))
             /\ ended' # Broken => summary' = RowsOf(ended')
  <2>1. ended' # Broken => run[r].pc # "insert" /\ ended' = ended
    OBVIOUS
  <2>2. \A q \in Runners : run[q].pc = "insert" => q = r
    BY <1>5 DEF SummaryInv, Undisturbed
  <2> QED
    BY <1>5, <2>1, <2>2 DEF SummaryInv, Undisturbed, SummaryIsOneReading
<1> HIDE DEF Idle
<1> QED
  BY <1>1, <1>2, <1>3, <1>4, <1>5, OneSummaryStep

\* All runs break off at once.
LEMMA LoseStep == ASSUME SummaryInv, LoseExecutor PROVE SummaryInv'
<1>1. /\ run' = [r \in Runners |-> Idle] /\ UNCHANGED <<silver, summary, overlapped>>
      /\ ended' = IF \E r \in Runners : run[r].pc = "insert" THEN Broken ELSE ended
  BY DEF LoseExecutor
<1>2. /\ Idle \in [pc : {"idle", "read", "insert"}, upto : Nat, left : SUBSET Groups]
      /\ Idle.pc = "idle" /\ Idle.upto = 0 /\ Idle.left = {}
  BY DEF Idle
<1> HIDE DEF Idle
<1>3. Archived'
  BY <1>1, <1>2 DEF SummaryInv, Archived, RowsOfReadings, GroupsPresent, ReadUpTo
<1>4. /\ \A n : RowsOf(n)' = RowsOf(n)
      /\ RowsOf(ended)' = RowsOf(ended')
  BY <1>1 DEF RowsOf, GroupsPresent, ReadUpTo
<1>5. SummaryIsOneReading'
  BY <1>1, <1>4 DEF SummaryIsOneReading, SummaryInv, Undisturbed
<1> QED
  BY <1>1, <1>2, <1>3, <1>5 DEF SummaryInv, Undisturbed

LEMMA SummaryNextInv == SummaryInv /\ [SummaryNext]_summaryVars => SummaryInv'
<1> SUFFICES ASSUME SummaryInv, [SummaryNext]_summaryVars PROVE SummaryInv'
  OBVIOUS
<1>1. CASE \E x \in Reading : Archive(x)
  BY <1>1, ArchiveStep
<1>2. ASSUME NEW r \in Runners, Step(r) PROVE SummaryInv'
  <2>1. CASE RefusePartition(r)
    BY <2>1, BreakStep DEF RefusePartition
  <2> QED
    BY <1>2, <2>1, ReadStep, TruncateStep, InsertStep DEF Step
<1>3. ASSUME NEW r \in Runners, Die(r) PROVE SummaryInv'
  BY <1>3, BreakStep DEF Die
<1>4. CASE StartExecutor \/ UNCHANGED summaryVars
  <2>1. UNCHANGED <<silver, summary, run, ended, overlapped>>
    BY <1>4 DEF StartExecutor, summaryVars, history
  <2>2. Archived'
    BY <2>1 DEF SummaryInv, Archived, RowsOfReadings, GroupsPresent, ReadUpTo
  <2>3. /\ \A n : RowsOf(n)' = RowsOf(n)
        /\ RowsOf(ended)' = RowsOf(ended)
        /\ \A r \in Runners : Half(run[r])' = Half(run[r])
    BY <2>1 DEF RowsOf, Half, GroupsPresent, ReadUpTo
  <2>4. SummaryIsOneReading' = SummaryIsOneReading
    BY <2>1, <2>3 DEF SummaryIsOneReading
  <2>5. Undisturbed'
    BY <2>1, <2>3, <2>4 DEF SummaryInv, Undisturbed
  <2> QED
    BY <2>2, <2>5 DEF SummaryInv
<1> QED
  BY <1>1, <1>2, <1>3, <1>4, LoseStep DEF SummaryNext

\* Until two runs overlap the table shows one reading of the archive, the whole
\* of it when the run that wrote last has ended well.
THEOREM SummaryShowsOneReading == SummarySpec => []SummaryIsOneReading
<1>1. SummaryInv => SummaryIsOneReading
  BY DEF SummaryInv, Undisturbed, SummaryIsOneReading
<1> QED
  BY <1>1, SummaryInitInv, SummaryNextInv, PTL DEF SummarySpec

\* However runs overlap, refuse each other and die, every row is that of its
\* group in the readings up to somewhere.
THEOREM SummaryRowsMadeOnce == SummarySpec => []RowsOfReadings
<1>1. SummaryInv => RowsOfReadings
  BY DEF SummaryInv, Archived
<1> QED
  BY <1>1, SummaryInitInv, SummaryNextInv, PTL DEF SummarySpec
-----------------------------------------------------------------------------
(* What the folds of an aggregation compute.  FoldFunction is defined by a *)
(* recursive function on the sets of places, that is, as any function that *)
(* solves an equation.  A solution is exhibited (what the fold should come *)
(* to), and all solutions agree, by induction on finite sets.              *)

\* A unit for every watt: the sum is the number of them.
Units(powers, some) == {u \in some \X Nat : u[2] \in 1 .. powers[u[1]]}

\* Another place adds its watts.
LEMMA UnitsAdd ==
    ASSUME NEW S, NEW powers \in [S -> Nat],
           NEW s \in SUBSET S, NEW x \in s, IsFiniteSet(Units(powers, s \ {x}))
    PROVE  /\ IsFiniteSet(Units(powers, s))
           /\ Cardinality(Units(powers, s)) =
                powers[x] + Cardinality(Units(powers, s \ {x}))
<1> DEFINE more == {x} \X (1 .. powers[x])
           rest == Units(powers, s \ {x})
<1>1. powers[x] \in Nat
  OBVIOUS
<1>2. IsFiniteSet(1 .. powers[x]) /\ Cardinality(1 .. powers[x]) = powers[x]
  BY <1>1, FS_Interval
<1>3. IsFiniteSet({x}) /\ Cardinality({x}) = 1
  BY FS_Singleton
<1>4. IsFiniteSet(more) /\ Cardinality(more) = powers[x]
  BY <1>1, <1>2, <1>3, FS_Product
<1>5. Units(powers, s) = more \cup rest
  BY DEF Units
<1>6. more \cap rest = {}
  BY DEF Units
<1>7. Cardinality(rest) \in Nat
  BY FS_CardinalityType
<1> HIDE DEF more, rest
<1>8. /\ IsFiniteSet(more \cup rest)
      /\ Cardinality(more \cup rest) = Cardinality(more) + Cardinality(rest) - Cardinality(more \cap rest)
  BY <1>4, FS_Union DEF rest
<1>9. Cardinality(more \cap rest) = 0
  BY <1>6, FS_EmptySet
<1> QED
  BY <1>1, <1>4, <1>5, <1>7, <1>8, <1>9 DEF rest

\* The units of finitely many places can be counted.
LEMMA UnitsFinite ==
    ASSUME NEW S, IsFiniteSet(S), NEW powers \in [S -> Nat]
    PROVE  \A s \in SUBSET S : IsFiniteSet(Units(powers, s))
<1> DEFINE good == {s \in SUBSET S : IsFiniteSet(Units(powers, s))}
<1>1. {} \in good
  <2>1. Units(powers, {}) = {}
    BY DEF Units
  <2> QED
    BY <2>1, FS_EmptySet
<1>2. \A s \in SUBSET S : s # {} => \E x \in s : s \ {x} \in good => s \in good
  BY UnitsAdd
<1> HIDE DEF good
<1>3. \A s \in SUBSET S : s \in good
  BY <1>1, <1>2, SubsetInduction
<1> QED
  BY <1>3 DEF good

\* The equation of the fold by addition: some place, then the others.
AnyOf(s) == CHOOSE x \in s : TRUE
SumStep(f, powers) ==
    [s \in SUBSET DOMAIN powers |->
        IF s = {} THEN 0 ELSE powers[AnyOf(s)] + f[s \ {AnyOf(s)}]]

\* The sum is defined by a solution of the equation.
LEMMA SumIsFixpoint ==
    ASSUME NEW powers PROVE SumOf(powers) = (CHOOSE f : f = SumStep(f, powers))[DOMAIN powers]
BY DEF SumOf, FoldFunction, FoldFunctionOnSet, MapThenFoldSet, SumStep, AnyOf

\* The sum of finitely many powers is the number of their units.
LEMMA SumCounts ==
    ASSUME NEW S, IsFiniteSet(S), NEW powers \in [S -> Nat]
    PROVE  SumOf(powers) = Cardinality(Units(powers, S)) /\ SumOf(powers) \in Nat
<1> DEFINE g == [s \in SUBSET S |-> Cardinality(Units(powers, s))]
           f == CHOOSE h : h = SumStep(h, powers)
<1>0. \A s \in SUBSET S : IsFiniteSet(Units(powers, s)) /\ Cardinality(Units(powers, s)) \in Nat
  BY UnitsFinite, FS_CardinalityType
<1>1. ASSUME NEW s \in SUBSET S, s # {} PROVE AnyOf(s) \in s
  BY <1>1 DEF AnyOf
<1>2. ASSUME NEW s \in SUBSET S
      PROVE  g[s] = IF s = {} THEN 0 ELSE powers[AnyOf(s)] + g[s \ {AnyOf(s)}]
  <2>1. CASE s = {}
    <3>1. Units(powers, s) = {}
      BY <2>1 DEF Units
    <3> QED
      BY <2>1, <3>1, FS_EmptySet
  <2>2. CASE s # {}
    <3>1. AnyOf(s) \in s
      BY <1>1, <2>2
    <3>2. PICK x \in s : x = AnyOf(s)
      BY <3>1
    <3>3. s \ {x} \in SUBSET S
      OBVIOUS
    <3>4. Cardinality(Units(powers, s)) = powers[x] + Cardinality(Units(powers, s \ {x}))
      BY <1>0, <3>3, UnitsAdd
    <3> QED
      BY <2>2, <3>2, <3>3, <3>4
  <2> QED
    BY <2>1, <2>2
<1>3. g = SumStep(g, powers)
  BY <1>2 DEF SumStep
<1> HIDE DEF g
<1>4. f = SumStep(f, powers)
  BY <1>3
<1>5. \A s \in SUBSET S :
          f[s] = IF s = {} THEN 0 ELSE powers[AnyOf(s)] + f[s \ {AnyOf(s)}]
  <2> HIDE DEF f
  <2> QED
    BY <1>4 DEF SumStep
<1> HIDE DEF f
<1>6. \A s \in SUBSET S : f[s] = g[s]
  <2> DEFINE good == {s \in SUBSET S : f[s] = g[s]}
  <2>1. {} \in good
    BY <1>2, <1>5
  <2>2. \A s \in SUBSET S : s # {} => \E x \in s : s \ {x} \in good => s \in good
    <3> SUFFICES ASSUME NEW s \in SUBSET S, s # {}, s \ {AnyOf(s)} \in good PROVE s \in good
      BY <1>1
    <3> QED
      BY <1>2, <1>5
  <2> HIDE DEF good
  <2>3. \A s \in SUBSET S : s \in good
    BY <2>1, <2>2, SubsetInduction
  <2> QED
    BY <2>3 DEF good
<1>7. SumOf(powers) = f[S]
  BY SumIsFixpoint DEF f
<1> QED
  BY <1>0, <1>6, <1>7 DEF g

\* The equation of the fold by the greater of two.
Greater(x, y) == IF x >= y THEN x ELSE y
PeakStep(f, powers) ==
    [s \in SUBSET DOMAIN powers |->
        IF s = {} THEN 0 ELSE Greater(powers[AnyOf(s)], f[s \ {AnyOf(s)}])]

\* The peak is defined by a solution of the equation.
LEMMA PeakIsFixpoint ==
    ASSUME NEW powers PROVE PeakOf(powers) = (CHOOSE f : f = PeakStep(f, powers))[DOMAIN powers]
BY DEF PeakOf, FoldFunction, FoldFunctionOnSet, MapThenFoldSet, PeakStep, AnyOf, Greater

\* m is what the powers of some places come to: the greatest of them and 0.
Peaks(m, powers, some) ==
    /\ m \in Nat /\ \A i \in some : powers[i] <= m
    /\ m = 0 \/ \E i \in some : m = powers[i]

\* The peak of finitely many powers bounds them, and is one of them or 0.
LEMMA PeakIsReached ==
    ASSUME NEW S, IsFiniteSet(S), NEW powers \in [S -> Nat]
    PROVE  Peaks(PeakOf(powers), powers, S)
<1> DEFINE F == CHOOSE h : h = PeakStep(h, powers)
           top(s) == CHOOSE m \in Nat : Peaks(m, powers, s)
           g == [s \in SUBSET S |-> top(s)]
<1>1. ASSUME NEW s \in SUBSET S, s # {} PROVE AnyOf(s) \in s
  BY <1>1 DEF AnyOf
<1>2. \A s \in SUBSET S : Peaks(top(s), powers, s)
  <2> DEFINE good == {s \in SUBSET S : \E m \in Nat : Peaks(m, powers, s)}
  <2>1. {} \in good
    BY DEF Peaks
  <2>2. \A s \in SUBSET S : s # {} => \E x \in s : s \ {x} \in good => s \in good
    <3> SUFFICES ASSUME NEW s \in SUBSET S, NEW x \in s, s \ {x} \in good PROVE s \in good
      OBVIOUS
    <3>1. PICK m \in Nat : Peaks(m, powers, s \ {x})
      OBVIOUS
    <3>2. powers[x] \in Nat
      OBVIOUS
    <3>3. Peaks(Greater(powers[x], m), powers, s)
      BY <3>1, <3>2 DEF Peaks, Greater
    <3> QED
      BY <3>3 DEF Peaks
  <2> HIDE DEF good
  <2>3. \A s \in SUBSET S : s \in good
    BY <2>1, <2>2, SubsetInduction
  <2>4. \A s \in SUBSET S : \E m \in Nat : Peaks(m, powers, s)
    BY <2>3 DEF good
  <2> QED
    BY <2>4
<1>3. ASSUME NEW s \in SUBSET S, NEW m, NEW n, Peaks(m, powers, s), Peaks(n, powers, s)
      PROVE  m = n
  <2>1. \A i \in s : powers[i] \in Nat
    OBVIOUS
  <2> QED
    BY <1>3, <2>1 DEF Peaks
<1> HIDE DEF top
<1>4. ASSUME NEW s \in SUBSET S
      PROVE  g[s] = IF s = {} THEN 0 ELSE Greater(powers[AnyOf(s)], g[s \ {AnyOf(s)}])
  <2>1. CASE s = {}
    <3>1. Peaks(0, powers, s)
      BY <2>1 DEF Peaks
    <3> QED
      BY <1>2, <1>3, <2>1, <3>1
  <2>2. CASE s # {}
    <3>1. PICK x \in s : x = AnyOf(s)
      BY <1>1, <2>2
    <3>2. s \ {x} \in SUBSET S /\ powers[x] \in Nat
      OBVIOUS
    <3>3. Peaks(top(s \ {x}), powers, s \ {x})
      BY <1>2, <3>2
    <3>4. Peaks(Greater(powers[x], top(s \ {x})), powers, s)
      BY <3>2, <3>3 DEF Peaks, Greater
    <3>5. top(s) = Greater(powers[x], top(s \ {x}))
      BY <1>2, <1>3, <3>4
    <3> QED
      BY <2>2, <3>1, <3>2, <3>5
  <2> QED
    BY <2>1, <2>2
<1>5. g = PeakStep(g, powers)
  BY <1>4 DEF PeakStep
<1> HIDE DEF g
<1>6. F = PeakStep(F, powers)
  BY <1>5
<1>7. \A s \in SUBSET S :
          F[s] = IF s = {} THEN 0 ELSE Greater(powers[AnyOf(s)], F[s \ {AnyOf(s)}])
  <2> HIDE DEF F
  <2> QED
    BY <1>6 DEF PeakStep
<1> HIDE DEF F
<1>8. \A s \in SUBSET S : F[s] = g[s]
  <2> DEFINE good == {s \in SUBSET S : F[s] = g[s]}
  <2>1. {} \in good
    BY <1>4, <1>7
  <2>2. \A s \in SUBSET S : s # {} => \E x \in s : s \ {x} \in good => s \in good
    <3> SUFFICES ASSUME NEW s \in SUBSET S, s # {}, s \ {AnyOf(s)} \in good PROVE s \in good
      BY <1>1
    <3> QED
      BY <1>4, <1>7
  <2> HIDE DEF good
  <2>3. \A s \in SUBSET S : s \in good
    BY <2>1, <2>2, SubsetInduction
  <2> QED
    BY <2>3 DEF good
<1>9. PeakOf(powers) = F[S]
  BY PeakIsFixpoint DEF F
<1>10. g[S] = top(S)
  BY DEF g
<1> QED
  BY <1>2, <1>8, <1>9, <1>10

\* What an aggregated row says of its group.
LEMMA AggregateIsTrue ==
    ASSUME NEW s \in Seq(Reading), NEW n \in 1 .. Len(s), NEW g \in {s[i].group : i \in 1 .. n}
    PROVE  LET row == Aggregate(SubSeq(s, 1, n), g)
               mine == {i \in 1 .. n : s[i].group = g}
           IN  /\ row \in Row
               /\ row.total_records_analyzed = Cardinality(mine)
               /\ row.peak_power_watts \in {s[i].watts : i \in mine}
               /\ \A i \in mine : s[i].watts <= row.peak_power_watts
<1> DEFINE mine == {i \in 1 .. n : s[i].group = g}
           powers == [i \in mine |-> s[i].watts]
<1>1. n \in Nat /\ n <= Len(s) /\ 1 .. n \subseteq 1 .. Len(s)
  OBVIOUS
<1>2. /\ DOMAIN SubSeq(s, 1, n) = 1 .. n
      /\ \A i \in 1 .. n : SubSeq(s, 1, n)[i] = s[i]
  <2>1. Len(SubSeq(s, 1, n)) = n /\ \A i \in 1 .. n : SubSeq(s, 1, n)[i] = s[i]
    BY <1>1
  <2> QED
    BY <1>1, <2>1
<1>3. Powers(SubSeq(s, 1, n), g) = powers
  BY <1>2 DEF Powers
<1>4. IsFiniteSet(mine)
  <2>1. IsFiniteSet(1 .. n)
    BY <1>1, FS_Interval
  <2> QED
    BY <2>1, FS_Subset
<1>5. powers \in [mine -> Nat] /\ DOMAIN powers = mine
  <2>1. ASSUME NEW i \in mine PROVE s[i].watts \in Nat
    <3>1. s[i] \in Reading
      BY <1>1
    <3> QED
      BY <3>1, SummaryAssumption DEF Reading
  <2> QED
    BY <2>1
<1>6. mine # {}
  OBVIOUS
<1> HIDE DEF mine
<1>7. SumOf(powers) \in Nat
  BY <1>4, <1>5, SumCounts
<1>8. Peaks(PeakOf(powers), powers, mine)
  BY <1>4, <1>5, PeakIsReached
<1> HIDE DEF powers
<1>9. \E i \in mine : PeakOf(powers) = powers[i]
  <2>1. PICK i \in mine : TRUE
    BY <1>6
  <2>2. powers[i] \in Nat /\ powers[i] <= PeakOf(powers)
    BY <1>5, <1>8 DEF Peaks
  <2> QED
    BY <1>8, <2>2 DEF Peaks
<1>10. /\ PeakOf(powers) \in Nat /\ \A i \in mine : s[i].watts <= PeakOf(powers)
       /\ PeakOf(powers) \in {s[i].watts : i \in mine}
  BY <1>8, <1>9 DEF Peaks, powers
<1>11. Cardinality(mine) \in Nat
  BY <1>4, FS_CardinalityType
<1>12. (SumOf(powers) + 5) \div 10 \in Nat
  BY <1>7
<1>13. Aggregate(SubSeq(s, 1, n), g) =
         [overall_avg_watts |-> (SumOf(powers) + 5) \div 10,
          peak_power_watts |-> PeakOf(powers),
          total_records_analyzed |-> Cardinality(mine)]
  BY <1>3, <1>5 DEF Aggregate
<1> DEFINE row == Aggregate(SubSeq(s, 1, n), g)
<1>14. /\ row.total_records_analyzed = Cardinality(mine)
       /\ row.peak_power_watts = PeakOf(powers)
       /\ row \in Row
  BY <1>10, <1>11, <1>12, <1>13 DEF Row
<1> HIDE DEF row
<1> QED
  BY <1>10, <1>14 DEF mine, row

\* However runs overlap, refuse each other and die, the peak and the count of
\* a row are those of its group in one reading of the archive.
THEOREM SummaryRowsTrue == SummarySpec => []RowsAreTrue
<1>1. SummaryInv => RowsAreTrue
  <2> SUFFICES ASSUME SummaryInv, NEW g \in DOMAIN summary
               PROVE  \E n \in 1 .. Len(silver) :
                        LET mine == {i \in 1 .. n : silver[i].group = g}
                        IN  /\ summary[g].total_records_analyzed = Cardinality(mine)
                            /\ summary[g].peak_power_watts \in {silver[i].watts : i \in mine}
                            /\ \A i \in mine : silver[i].watts <= summary[g].peak_power_watts
    BY DEF RowsAreTrue
  <2>1. PICK n \in 0 .. Len(silver) :
              g \in GroupsPresent(n) /\ summary[g] = Aggregate(ReadUpTo(n), g)
    BY DEF SummaryInv, Archived, RowsOfReadings
  <2>2. silver \in Seq(Reading)
    BY DEF SummaryInv, Archived
  <2>3. n \in 1 .. Len(silver) /\ g \in {silver[i].group : i \in 1 .. n}
    BY <2>1, <2>2 DEF GroupsPresent
  <2> QED
    BY <2>1, <2>2, <2>3, AggregateIsTrue DEF ReadUpTo
<1> QED
  BY <1>1, SummaryInitInv, SummaryNextInv, PTL DEF SummarySpec

\* What the type invariant says beyond the readings the rows are made of.
SummaryBounds ==
    /\ Len(silver) <= MaxSilver /\ overlapped \in BOOLEAN /\ failures \in 0 .. MaxFailures
    /\ containerUp \in BOOLEAN /\ (~containerUp => \A r \in Runners : run[r] = Idle)

LEMMA SummaryBoundsKept ==
    SummaryInv /\ SummaryBounds /\ [SummaryNext]_summaryVars => SummaryBounds'
<1> SUFFICES ASSUME SummaryInv, SummaryBounds, [SummaryNext]_summaryVars PROVE SummaryBounds'
  OBVIOUS
<1>1. silver \in Seq(Reading) /\ MaxSilver \in Nat
  BY SummaryAssumption DEF SummaryInv, Archived
<1>2. CASE \E x \in Reading : Archive(x)
  <2>1. PICK x \in Reading : Archive(x)
    BY <1>2
  <2>2. Len(silver') = Len(silver) + 1 /\ Len(silver) \in Nat
    BY <1>1, <2>1 DEF Archive
  <2> QED
    BY <1>1, <2>1, <2>2 DEF Archive, SummaryBounds, history, outages
<1>3. ASSUME NEW r \in Runners, Step(r) PROVE SummaryBounds'
  <2>1. CASE Read(r)
    BY <2>1 DEF Read, Beside, SummaryBounds, outages
  <2>2. CASE Truncate(r) \/ Insert(r) \/ RefusePartition(r)
    <3>1. run[r] # Idle /\ UNCHANGED <<silver, overlapped, failures, containerUp>>
      BY <2>2 DEF Truncate, Insert, RefusePartition, history, outages, Idle
    <3> QED
      BY <3>1 DEF SummaryBounds
  <2> QED
    BY <1>3, <2>1, <2>2 DEF Step
<1>4. ASSUME NEW r \in Runners, Die(r) PROVE SummaryBounds'
  <2>1. /\ run[r] # Idle /\ UNCHANGED <<silver, overlapped, containerUp>>
        /\ failures < MaxFailures /\ failures' = failures + 1
    BY <1>4 DEF Die, Failure, Idle
  <2> QED
    BY <2>1, SummaryAssumption DEF SummaryBounds
<1>5. CASE LoseExecutor
  <2>1. /\ run' = [r \in Runners |-> Idle] /\ UNCHANGED <<silver, overlapped>>
        /\ failures < MaxFailures /\ failures' = failures + 1
    BY <1>5 DEF LoseExecutor, Failure
  <2>2. failures' \in 0 .. MaxFailures /\ Len(silver') <= MaxSilver /\ overlapped' \in BOOLEAN
    BY <2>1, SummaryAssumption DEF SummaryBounds
  <2>3. containerUp' \in BOOLEAN
    BY <1>5, Zenon DEF LoseExecutor
  <2>4. \A r \in Runners : run'[r] = Idle
    BY <2>1
  <2> QED
    BY <2>2, <2>3, <2>4, Zenon DEF SummaryBounds
<1>6. CASE StartExecutor \/ UNCHANGED summaryVars
  BY <1>6 DEF StartExecutor, summaryVars, history, outages, SummaryBounds
<1> QED
  BY <1>2, <1>3, <1>4, <1>5, <1>6 DEF SummaryNext

\* Rows are of groups that exist, and hold whole numbers.
THEOREM SummaryTypeCorrect == SummarySpec => []SummaryTypeOK
<1>1. SummaryInit => SummaryBounds
  <2> SUFFICES ASSUME SummaryInit PROVE SummaryBounds
    OBVIOUS
  <2>1. silver = <<>> /\ failures = 0 /\ overlapped = FALSE /\ containerUp = TRUE
    BY DEF SummaryInit
  <2>2. Len(silver) = 0
    BY <2>1
  <2>3. Len(silver) <= MaxSilver /\ failures \in 0 .. MaxFailures
    BY <2>1, <2>2, SummaryAssumption
  <2>4. overlapped \in BOOLEAN /\ containerUp \in BOOLEAN /\ containerUp
    BY <2>1
  <2> QED
    BY <2>3, <2>4 DEF SummaryBounds
<1>2. SummaryInv /\ SummaryBounds => SummaryTypeOK
  <2> SUFFICES ASSUME SummaryInv, SummaryBounds PROVE SummaryTypeOK
    OBVIOUS
  <2>1. silver \in Seq(Reading)
    BY DEF SummaryInv, Archived
  <2>2. ASSUME NEW g \in DOMAIN summary PROVE g \in Groups /\ summary[g] \in Row
    <3>1. PICK n \in 0 .. Len(silver) :
                g \in GroupsPresent(n) /\ summary[g] = Aggregate(ReadUpTo(n), g)
      BY DEF SummaryInv, Archived, RowsOfReadings
    <3>2. n \in 1 .. Len(silver) /\ g \in {silver[i].group : i \in 1 .. n}
      BY <2>1, <3>1 DEF GroupsPresent
    <3>3. summary[g] \in Row
      BY <2>1, <3>1, <3>2, AggregateIsTrue DEF ReadUpTo
    <3>4. PICK i \in 1 .. Len(silver) : g = silver[i].group
      BY <2>1, <3>2
    <3>5. silver[i] \in Reading
      BY <2>1
    <3>6. g \in Groups
      BY <3>4, <3>5 DEF Reading
    <3> QED
      BY <3>3, <3>6
  <2> QED
    BY <2>1, <2>2 DEF SummaryTypeOK, SummaryBounds, SummaryInv, Archived
<1> QED
  BY <1>1, <1>2, SummaryInitInv, SummaryNextInv, SummaryBoundsKept, PTL DEF SummarySpec

\* The primary key, which the overwrite runs against, costs only the runs that
\* had company: until two runs overlap, none finds a group inserted before it.
THEOREM RefusalNeedsOverlap ==
    SummarySpec => [][(\E r \in Runners : RefusePartition(r)) => overlapped]_summaryVars
<1>1. ASSUME SummaryInv, NEW r \in Runners, RefusePartition(r), ~overlapped PROVE FALSE
  <2>1. run[r].pc = "insert" /\ run[r].left \cap DOMAIN summary # {}
    BY <1>1 DEF RefusePartition
  <2>2. DOMAIN summary = GroupsPresent(run[r].upto) \ run[r].left
    BY <1>1, <2>1 DEF SummaryInv, Undisturbed, Half
  <2> QED
    BY <2>1, <2>2
<1>2. SummaryInv => ((\E r \in Runners : RefusePartition(r)) => overlapped)
  BY <1>1
<1> QED
  BY <1>2, SummaryInitInv, SummaryNextInv, PTL DEF SummarySpec

\* The steps a run has left at most: to truncate and to insert each group.
LeftInRun(x) ==
    IF x.pc = "idle" THEN 0 ELSE (IF x.pc = "read" THEN 2 ELSE 1) + Cardinality(x.left)

\* A run in progress has groups left to insert.
Unfinished == \A r \in Runners : run[r].pc # "idle" => run[r].left # {}

LEMMA LeftFinite ==
    ASSUME SummaryInv, NEW r \in Runners PROVE IsFiniteSet(run[r].left)
<1> DEFINE n == run[r].upto
           f == [i \in 1 .. n |-> silver[i].group]
<1>1. n \in Nat /\ run[r].left \subseteq GroupsPresent(n)
  BY DEF SummaryInv, Archived
<1>2. IsFiniteSet(1 .. n)
  BY <1>1, FS_Interval
<1>3. f \in Surjection(1 .. n, GroupsPresent(n))
  BY DEF GroupsPresent, Surjection
<1> HIDE DEF n
<1>4. IsFiniteSet(GroupsPresent(n))
  BY <1>2, <1>3, FS_Surjection
<1> QED
  BY <1>1, <1>4, FS_Subset

\* A run that is in progress and takes a step keeps something to insert, or
\* ends, and has less left to do.
LEMMA RunComesNearer ==
    ASSUME SummaryInv, Unfinished, NEW r \in Runners, run[r].pc # "idle",
           Truncate(r) \/ Insert(r) \/ RefusePartition(r) \/ Die(r)
    PROVE  /\ \A q \in Runners \ {r} : run'[q] = run[q]
           /\ run'[r].pc # "idle" => run'[r].left # {}
           /\ LeftInRun(run'[r]) < LeftInRun(run[r])
<1> DEFINE x == run[r]
           y == run'[r]
<1>1. /\ IsFiniteSet(x.left) /\ Cardinality(x.left) \in Nat
      /\ run \in [Runners -> [pc : {"idle", "read", "insert"}, upto : Nat, left : SUBSET Groups]]
  BY LeftFinite, FS_CardinalityType DEF SummaryInv, Archived
<1>2. LeftInRun(x) = (IF x.pc = "read" THEN 2 ELSE 1) + Cardinality(x.left)
  BY DEF LeftInRun
<1>3. CASE run' = [run EXCEPT ![r] = Idle]
  <2>1. y.pc = "idle"
    BY <1>1, <1>3 DEF Idle
  <2>2. LeftInRun(y) = 0
    BY <2>1 DEF LeftInRun
  <2> QED
    BY <1>1, <1>2, <1>3, <2>1, <2>2
<1>4. CASE Truncate(r)
  <2>1. x.pc = "read" /\ y.pc = "insert" /\ y.left = x.left
        /\ \A q \in Runners \ {r} : run'[q] = run[q]
    BY <1>1, <1>4 DEF Truncate
  <2>2. LeftInRun(x) = 2 + Cardinality(x.left) /\ LeftInRun(y) = 1 + Cardinality(x.left)
    BY <1>2, <2>1 DEF LeftInRun
  <2>3. LeftInRun(y) < LeftInRun(x)
    BY <1>1, <2>2
  <2> QED
    BY <2>1, <2>3 DEF Unfinished
<1>5. CASE Insert(r)
  <2>1. PICK part \in (SUBSET x.left) \ {{}} :
            run' = [run EXCEPT ![r] = IF part = @.left THEN Idle
                                      ELSE [pc |-> "insert", upto |-> @.upto, left |-> @.left \ part]]
    BY <1>5 DEF Insert
  <2>2. CASE part = x.left
    <3>1. run' = [run EXCEPT ![r] = Idle]
      BY <2>1, <2>2
    <3> QED
      BY <1>3, <3>1
  <2>3. CASE part # x.left
    <3> DEFINE new == [pc |-> "insert", upto |-> x.upto, left |-> x.left \ part]
    <3>1. run' = [run EXCEPT ![r] = new]
      BY <2>1, <2>3
    <3>2. y.pc = "insert" /\ y.left = x.left \ part /\ \A q \in Runners \ {r} : run'[q] = run[q]
      BY <1>1, <3>1
    <3>3. y.left # {} /\ y.left \subseteq x.left /\ y.left # x.left
      BY <2>1, <2>3, <3>2
    <3>4. Cardinality(y.left) < Cardinality(x.left) /\ Cardinality(y.left) \in Nat
      <4> DEFINE D == x.left
                 E == y.left
      <4> HIDE DEF D, E
      <4>1. IsFiniteSet(D) /\ E \subseteq D /\ E # D
        BY <1>1, <3>3 DEF D, E
      <4>2. IsFiniteSet(E) /\ Cardinality(E) <= Cardinality(D)
            /\ (Cardinality(E) = Cardinality(D) => E = D)
        BY <4>1, FS_Subset
      <4>3. Cardinality(E) \in Nat /\ Cardinality(D) \in Nat
        BY <4>1, <4>2, FS_CardinalityType
      <4>4. Cardinality(E) < Cardinality(D)
        BY <4>1, <4>2, <4>3
      <4> QED
        BY <4>3, <4>4 DEF D, E
    <3>5. LeftInRun(x) = 1 + Cardinality(x.left) /\ LeftInRun(y) = 1 + Cardinality(y.left)
      BY <1>2, <1>5, <3>2 DEF LeftInRun, Insert
    <3>6. LeftInRun(y) < LeftInRun(x)
      BY <1>1, <3>4, <3>5
    <3> QED
      BY <3>2, <3>3, <3>6
  <2> QED
    BY <2>2, <2>3
<1> QED
  BY <1>3, <1>4, <1>5 DEF RefusePartition, Die

LEMMA RunnersComeNearer ==
    ASSUME SummaryInv, Unfinished, SummaryNext
    PROVE  /\ Unfinished'
           /\ \A r \in Runners : run[r].pc # "idle" =>
                 run'[r] = run[r] \/ LeftInRun(run'[r]) < LeftInRun(run[r])
<1>1. CASE \E x \in Reading : Archive(x)
  BY <1>1 DEF Archive, Unfinished
<1>2. ASSUME NEW q \in Runners, Truncate(q) \/ Insert(q) \/ RefusePartition(q) \/ Die(q)
      PROVE  /\ Unfinished'
             /\ \A r \in Runners : run[r].pc # "idle" =>
                   run'[r] = run[r] \/ LeftInRun(run'[r]) < LeftInRun(run[r])
  <2>1. run[q].pc # "idle"
    BY <1>2 DEF Truncate, Insert, RefusePartition, Die
  <2> QED
    BY <1>2, <2>1, RunComesNearer DEF Unfinished
<1>3. ASSUME NEW q \in Runners, Read(q)
      PROVE  /\ Unfinished'
             /\ \A r \in Runners : run[r].pc # "idle" =>
                   run'[r] = run[r] \/ LeftInRun(run'[r]) < LeftInRun(run[r])
  <2> DEFINE x == [pc |-> "read", upto |-> Len(silver), left |-> GroupsPresent(Len(silver))]
  <2>1. run[q].pc = "idle" /\ silver # <<>> /\ run' = [run EXCEPT ![q] = x]
    BY <1>3 DEF Read
  <2>2. /\ silver \in Seq(Reading)
        /\ run \in [Runners -> [pc : {"idle", "read", "insert"}, upto : Nat, left : SUBSET Groups]]
    BY DEF SummaryInv, Archived
  <2>3. Len(silver) \in Nat /\ 1 \in 1 .. Len(silver)
    BY <2>1, <2>2
  <2>4. x.left # {}
    BY <2>3 DEF GroupsPresent
  <2>5. run'[q] = x /\ \A r \in Runners \ {q} : run'[r] = run[r]
    BY <2>1, <2>2
  <2> HIDE DEF x
  <2> QED
    BY <2>1, <2>4, <2>5 DEF Unfinished
<1>4. CASE LoseExecutor
  <2>1. \A r \in Runners : run'[r].pc = "idle" /\ LeftInRun(run'[r]) = 0
    BY <1>4 DEF LoseExecutor, Idle, LeftInRun
  <2>2. \A r \in Runners : run[r].pc # "idle" => LeftInRun(run[r]) > 0
    <3> SUFFICES ASSUME NEW r \in Runners, run[r].pc # "idle" PROVE LeftInRun(run[r]) > 0
      OBVIOUS
    <3>1. Cardinality(run[r].left) \in Nat
      BY LeftFinite, FS_CardinalityType
    <3> QED
      BY <3>1 DEF LeftInRun
  <2> QED
    BY <2>1, <2>2 DEF Unfinished
<1>5. CASE StartExecutor
  BY <1>5 DEF StartExecutor, Unfinished
<1> QED
  BY <1>1, <1>2, <1>3, <1>4, <1>5 DEF SummaryNext, Step

\* A run comes to its end in at most two steps and one for each group, however
\* others get in its way, and until then has a group to insert, or to be
\* refused for; the first half of EventuallyCurrent.
THEOREM SummaryRunsAreShort ==
    SummarySpec =>
        /\ [](\A r \in Runners :
                 /\ LeftInRun(run[r]) \in Nat
                 /\ run[r].pc # "idle" => run[r].left # {})
        /\ [][\A r \in Runners : run[r].pc # "idle" =>
                 run'[r] = run[r] \/ LeftInRun(run'[r]) < LeftInRun(run[r])]_summaryVars
<1>1. SummaryInit => Unfinished
  BY DEF SummaryInit, Unfinished, Idle
<1>2. SummaryInv /\ Unfinished /\ [SummaryNext]_summaryVars => Unfinished'
  BY RunnersComeNearer DEF summaryVars, Unfinished
<1>3. SummaryInv /\ Unfinished =>
        \A r \in Runners : /\ LeftInRun(run[r]) \in Nat
                           /\ run[r].pc # "idle" => run[r].left # {}
  <2> SUFFICES ASSUME SummaryInv, Unfinished, NEW r \in Runners
               PROVE  LeftInRun(run[r]) \in Nat
    BY DEF Unfinished
  <2>1. Cardinality(run[r].left) \in Nat
    BY LeftFinite, FS_CardinalityType
  <2> QED
    BY <2>1 DEF LeftInRun
<1>4. SummaryInv /\ Unfinished /\ SummaryNext =>
        \A r \in Runners : run[r].pc # "idle" =>
           run'[r] = run[r] \/ LeftInRun(run'[r]) < LeftInRun(run[r])
  BY RunnersComeNearer
<1> QED
  BY <1>1, <1>2, <1>3, <1>4, SummaryInitInv, SummaryNextInv, PTL DEF SummarySpec
=============================================================================
