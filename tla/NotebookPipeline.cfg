SPECIFICATION FairSpec
CONSTANTS
    Dags = {"ingest", "ai"}
    Tasks <- MCTasks
    MaxActiveRuns <- MCMaxActiveRuns
    Present = {"raw_bronze", "clean_silver"}
    Retries = 1
    Threads = 1
    MaxDagRuns = 2
    MaxCrashes = 1
INVARIANTS PipelineTypeOK NoTaskWithoutJob BoundedRepetition
PROPERTY DagRunsEnd
CHECK_DEADLOCK FALSE
