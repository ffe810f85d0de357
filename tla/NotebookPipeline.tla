-------------------------- MODULE NotebookPipeline --------------------------
(***************************************************************************)
(* Who runs the notebooks: airflow/dags/smarthome_pipeline.py and the      *)
(* executor it calls, processing/app.py.  A task of a DAG posts the name   *)
(* of a notebook and is done as soon as the executor has answered          *)
(* "queued"; the notebook runs afterwards in a thread of the executor.     *)
(* A post that fails or is not answered within 15 seconds is retried once. *)
(*                                                                         *)
(* Starlette gives endpoints and background tasks threads of one pool, and *)
(* starts a background task after the response has left.                   *)
(***************************************************************************)
EXTENDS Integers, FiniteSets, Sequences

CONSTANTS
    Dags,           \* the DAGs of the file
    Tasks,          \* the notebooks of each DAG, in the order of >>
    MaxActiveRuns,  \* max_active_runs of each DAG
    Present,        \* the notebooks that exist in the executor's directory
    Retries,        \* 'retries': 1
    Threads,        \* size of the executor's thread pool
    MaxDagRuns,     \* bound: runs scheduled
    MaxCrashes      \* bound: times the executor dies

ASSUME PipelineAssumption ==
    /\ \A d \in Dags : Len(Tasks[d]) \in Nat \ {0} /\ MaxActiveRuns[d] \in Nat
    /\ Retries \in Nat /\ Threads \in Nat /\ MaxDagRuns \in Nat /\ MaxCrashes \in Nat

VARIABLES
    dagRuns,    \* the DAG runs, in the order scheduled
    posts,      \* what became of each request, by attempt
    jobs,       \* what became of each background task, by attempt
    executorUp, \* whether processing/app.py is running
    crashes     \* times it died

vars == <<dagRuns, posts, jobs, executorUp, crashes>>

-----------------------------------------------------------------------------

RunState == [dag : Dags, task : Nat, try : Nat,
             state : {"ready", "posted", "up_for_retry", "success", "failed"}]
Ready(d, t, k) == [dag |-> d, task |-> t, try |-> k, state |-> "ready"]

\* A task of a DAG run posts at most once per try.
Attempt == [run : Nat, task : Nat, try : Nat]
Current(i) == [run |-> i, task |-> dagRuns[i].task, try |-> dagRuns[i].try]

Notebook(a) == Tasks[dagRuns[a.run].dag][a.task]
Active(d) == {i \in DOMAIN dagRuns :
                 dagRuns[i].dag = d /\ dagRuns[i].state \notin {"success", "failed"}}

Running == {a \in DOMAIN jobs : jobs[a] = "running"}
Set(f, x, y) == [z \in DOMAIN f \cup {x} |-> IF z = x THEN y ELSE f[z]]

PipelineTypeOK ==
    /\ dagRuns \in Seq(RunState)
    /\ DOMAIN posts \subseteq Attempt /\ DOMAIN jobs \subseteq DOMAIN posts
    /\ \A a \in DOMAIN posts :
          posts[a] \in {"sent", "queued", "not_found", "closed"}
    /\ \A a \in DOMAIN jobs :
          jobs[a] \in {"waiting", "running", "ended", "lost"}
    /\ \A i \in DOMAIN dagRuns :
          dagRuns[i].task \in 1 .. Len(Tasks[dagRuns[i].dag]) /\ dagRuns[i].try <= Retries
    /\ Cardinality(Running) <= Threads
    /\ executorUp \in BOOLEAN /\ crashes \in Nat

Init ==
    /\ dagRuns = <<>> /\ posts = [a \in {} |-> ""] /\ jobs = [a \in {} |-> ""]
    /\ executorUp = TRUE /\ crashes = 0

-----------------------------------------------------------------------------
(* Airflow                                                                 *)

\* The schedule comes round.  Without catchup a missed interval is not made
\* up for, so a run may start at any time.
Schedule(d) ==
    /\ Cardinality(Active(d)) < MaxActiveRuns[d]
    /\ Len(dagRuns) < MaxDagRuns
    /\ dagRuns' = Append(dagRuns, Ready(d, 1, 0))
    /\ UNCHANGED <<posts, jobs, executorUp, crashes>>

\* trigger_notebook_via_api posts.
Post(i) ==
    /\ dagRuns[i].state = "ready"
    /\ posts' = Set(posts, Current(i), "sent")
    /\ dagRuns' = [dagRuns EXCEPT ![i].state = "posted"]
    /\ UNCHANGED <<jobs, executorUp, crashes>>

\* Mutant of Succeed: any answer will do (no raise_for_status).
SucceedOnAnyAnswer(i) ==
    /\ dagRuns[i].state = "posted" /\ posts[Current(i)] \in {"queued", "not_found"}
    /\ dagRuns' = [dagRuns EXCEPT ![i] =
                     IF @.task < Len(Tasks[@.dag])
                     THEN Ready(@.dag, @.task + 1, 0)
                     ELSE [@ EXCEPT !.state = "success"]]
    /\ UNCHANGED <<posts, jobs, executorUp, crashes>>

\* The answer "queued" arrives: the task has succeeded and its successor is
\* next.
Succeed(i) ==
    /\ dagRuns[i].state = "posted" /\ posts[Current(i)] = "queued"
    /\ dagRuns' = [dagRuns EXCEPT ![i] =
                     IF @.task < Len(Tasks[@.dag])
                     THEN Ready(@.dag, @.task + 1, 0)
                     ELSE [@ EXCEPT !.state = "success"]]
    /\ UNCHANGED <<posts, jobs, executorUp, crashes>>

\* Mutant of Fail: one retry too many.
FailLate(i) ==
    /\ dagRuns[i].state = "posted"
    /\ dagRuns' = [dagRuns EXCEPT ![i].state =
                     IF dagRuns[i].try <= Retries THEN "up_for_retry" ELSE "failed"]
    /\ UNCHANGED <<posts, jobs, executorUp, crashes>>

\* Mutant of Fail: the post has no timeout.
FailWhenTold(i) ==
    /\ dagRuns[i].state = "posted" /\ posts[Current(i)] \in {"not_found", "closed"}
    /\ dagRuns' = [dagRuns EXCEPT ![i].state =
                     IF dagRuns[i].try < Retries THEN "up_for_retry" ELSE "failed"]
    /\ UNCHANGED <<posts, jobs, executorUp, crashes>>

\* The post raises: a 404, no connection, or no answer in time although one
\* may be on its way and the request may still be served.
Fail(i) ==
    /\ dagRuns[i].state = "posted"
    /\ dagRuns' = [dagRuns EXCEPT ![i].state =
                     IF dagRuns[i].try < Retries THEN "up_for_retry" ELSE "failed"]
    /\ UNCHANGED <<posts, jobs, executorUp, crashes>>

\* retry_delay has passed.
Retry(i) ==
    /\ dagRuns[i].state = "up_for_retry"
    /\ dagRuns' = [dagRuns EXCEPT ![i] = Ready(@.dag, @.task, @.try + 1)]
    /\ UNCHANGED <<posts, jobs, executorUp, crashes>>

-----------------------------------------------------------------------------
(* The executor                                                            *)

ThreadFree == executorUp /\ Cardinality(Running) < Threads

\* trigger_notebook: a thread checks that the notebook exists and answers;
\* with the answer gone, the background task waits for a thread.
Accept(a) ==
    /\ ThreadFree /\ posts[a] = "sent"
    /\ IF Notebook(a) \in Present
       THEN posts' = [posts EXCEPT ![a] = "queued"] /\ jobs' = Set(jobs, a, "waiting")
       ELSE posts' = [posts EXCEPT ![a] = "not_found"] /\ UNCHANGED jobs
    /\ UNCHANGED <<dagRuns, executorUp, crashes>>

\* Mutant of StartJob: the notebook is started outside of the pool.
StartDetached(a) ==
    /\ executorUp /\ jobs[a] = "waiting"
    /\ jobs' = [jobs EXCEPT ![a] = "running"]
    /\ UNCHANGED <<dagRuns, posts, executorUp, crashes>>

\* run_notebook_task starts papermill in a subprocess.
StartJob(a) ==
    /\ ThreadFree /\ jobs[a] = "waiting"
    /\ jobs' = [jobs EXCEPT ![a] = "running"]
    /\ UNCHANGED <<dagRuns, posts, executorUp, crashes>>

\* papermill ends, well or not; either is only printed.
EndJob(a) ==
    /\ executorUp /\ jobs[a] = "running"
    /\ jobs' = [jobs EXCEPT ![a] = "ended"]
    /\ UNCHANGED <<dagRuns, posts, executorUp, crashes>>

\* The container goes down: requests being served and background tasks are
\* gone, answers already sent are not.
Crash ==
    /\ executorUp /\ crashes < MaxCrashes
    /\ executorUp' = FALSE /\ crashes' = crashes + 1
    /\ posts' = [a \in DOMAIN posts |-> IF posts[a] = "sent" THEN "closed" ELSE posts[a]]
    /\ jobs' = [a \in DOMAIN jobs |->
                   IF jobs[a] \in {"waiting", "running"} THEN "lost" ELSE jobs[a]]
    /\ UNCHANGED dagRuns

\* No restart policy: someone brings it up again, or nobody does.
Restart ==
    /\ ~executorUp /\ executorUp' = TRUE
    /\ UNCHANGED <<dagRuns, posts, jobs, crashes>>

\* A post to an executor that is down is refused.
Refuse(a) ==
    /\ ~executorUp /\ posts[a] = "sent"
    /\ posts' = [posts EXCEPT ![a] = "closed"]
    /\ UNCHANGED <<dagRuns, jobs, executorUp, crashes>>

-----------------------------------------------------------------------------

Handle(i) == Post(i) \/ Succeed(i) \/ Fail(i) \/ Retry(i)

Serve(a) == Accept(a) \/ Refuse(a)

Next ==
    \/ \E d \in Dags : Schedule(d)
    \/ \E i \in DOMAIN dagRuns : Handle(i)
    \/ \E a \in DOMAIN posts : Serve(a)
    \/ \E a \in DOMAIN jobs : StartJob(a) \/ EndJob(a)
    \/ Crash \/ Restart

Spec == Init /\ [][Next]_vars

\* The scheduler handles every active run: a post is answered or times out.
\* Nothing is asked of the executor.
FairSpec ==
    Spec /\ \A i \in 1 .. MaxDagRuns : WF_vars(i \in DOMAIN dagRuns /\ Handle(i))

-----------------------------------------------------------------------------
(* Properties                                                              *)

\* A task that counts as done had its notebook accepted: although requests
\* are answered late, repeated and lost in crashes, a run never moves past
\* a notebook the executor did not take on in that very run.
NoTaskWithoutJob ==
    \A i \in DOMAIN dagRuns : \A t \in 1 .. dagRuns[i].task :
        (t < dagRuns[i].task \/ dagRuns[i].state = "success")
            => \E a \in DOMAIN jobs : a.run = i /\ a.task = t

\* What is done about a request that timed out although it was served: the
\* notebook runs again.  It is bounded: with late and lost answers, a task
\* of a run still costs no more than 1 + Retries runs of its notebook.
BoundedRepetition ==
    \A i \in DOMAIN dagRuns : \A t \in 1 .. Len(Tasks[dagRuns[i].dag]) :
        Cardinality({a \in DOMAIN jobs : a.run = i /\ a.task = t}) <= 1 + Retries

\* Every run comes to an end, so the next one can be scheduled: no dead
\* executor, full thread pool or lost answer holds a DAG for ever.
DagRunsEnd ==
    \A i \in 1 .. MaxDagRuns :
        i \in DOMAIN dagRuns ~>
            i \in DOMAIN dagRuns /\ dagRuns[i].state \in {"success", "failed"}
=============================================================================
