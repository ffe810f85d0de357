------------------------- MODULE MCNotebookPipeline -------------------------
(***************************************************************************)
(* Small instances: the DAG of bronze and silver, one run at a time, and   *)
(* one of the DAGs with a single notebook, whose runs Airflow may overlap. *)
(***************************************************************************)
EXTENDS NotebookPipeline

MCTasks == [d \in Dags |->
               IF d = "ingest" THEN <<"raw_bronze", "clean_silver">> ELSE <<"ai_report">>]
MCMaxActiveRuns == [d \in Dags |-> IF d = "ingest" THEN 1 ELSE 2]
=============================================================================
