CONSTANTS
    Tools = {"query_recent_metrics", "search_logs", "get_deploy_history", "fetch_runbook"}
    ModelTools = {"search_logs", "restart_host"}
    MaxCalls = 2
    ModelTurns = {0, 1, 2}
    MockTurns = {0, 1, 2, 3, 4, 5, 6}
SPECIFICATION FairSpec
INVARIANTS
    TypeOK
    TranscriptIsAnswered
    ResultIsLastSubmission
    AskedWithinCap
    MockDiagnoses
PROPERTIES
    Terminates
CHECK_DEADLOCK FALSE
