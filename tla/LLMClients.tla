----------------------------- MODULE LLMClients -----------------------------
(***************************************************************************)
(* services/agent/app/llm_client.py: what the tool loop may get from the   *)
(* client that build_llm_client has chosen.  The model behind OpenAIClient *)
(* (openai or openrouter) is external: text or any short sequence of tool  *)
(* calls.  MockLLMClient walks a fixed script.                             *)
(***************************************************************************)
EXTENDS Integers, Sequences, SequencesExt

CONSTANTS
    Tools,       \* the keys of TOOL_FUNCTIONS
    ModelTools,  \* bound: names a real model calls, some of them made up
    MaxCalls     \* bound: tool calls in one completion

TERMINAL_TOOL_NAME == "submit_diagnosis"

Script == <<"query_recent_metrics", "search_logs", "get_deploy_history", "fetch_runbook">>

ASSUME ToolsAssumption ==
    /\ Range(Script) \subseteq Tools
    /\ TERMINAL_TOOL_NAME \notin Tools \cup ModelTools
    /\ MaxCalls \in Nat \ {0}

Clients == {"OpenAIClient", "MockLLMClient"}

(* What json.loads may make of a submission's arguments: null; a falsy     *)
(* value such as {}; an object whose confidence float() accepts; an object *)
(* whose confidence it does not; anything else, which has no .get.         *)
Submissions == {"null", "falsy", "usable", "bad_confidence", "not_an_object"}

Call(name, arguments) == [name |-> name, arguments |-> arguments]

ModelCalls ==
    {Call(TERMINAL_TOOL_NAME, arguments) : arguments \in Submissions}
        \cup {Call(name, "falsy") : name \in ModelTools}

(* OpenAIClient: completion.tool_calls, empty for a plain text answer.     *)
ModelCompletions == UNION {[1..n -> ModelCalls] : n \in 0..MaxCalls}

(* Faulty: the script goes on whatever tool is forced.                     *)
MockCompletionUnforced(step, force_tool) ==
    IF step >= Len(Script)
    THEN <<Call(TERMINAL_TOOL_NAME, "usable")>>
    ELSE <<Call(Script[step + 1], "falsy")>>

(* MockLLMClient after `step' tool calls: _derive_diagnosis always has a   *)
(* numeric confidence.                                                     *)
MockCompletion(step, force_tool) ==
    IF force_tool \/ step >= Len(Script)
    THEN <<Call(TERMINAL_TOOL_NAME, "usable")>>
    ELSE <<Call(Script[step + 1], "falsy")>>

(* The answers create_completion may return.                               *)
Completions(llm_client, step, force_tool) ==
    IF llm_client = "MockLLMClient" THEN {MockCompletion(step, force_tool)}
    ELSE ModelCompletions
=============================================================================
