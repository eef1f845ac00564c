------------------------------ MODULE ToolLoop ------------------------------
(***************************************************************************)
(* services/agent/app/tool_loop.py: the multi-turn tool-calling loop of one*)
(* investigation, over either client of LLMClients.  The contents of       *)
(* messages and results are left out; of a diagnosis only what the loop and*)
(* the final conversions can tell apart is kept.                           *)
(***************************************************************************)
EXTENDS LLMClients, FiniteSets

CONSTANTS
    ModelTurns,  \* the settings of agent_max_tool_turns considered with
    MockTurns    \* OpenAIClient and with MockLLMClient

ASSUME TurnsAssumption == ModelTurns \subseteq Nat /\ MockTurns \subseteq Nat

NoDiagnosis == "null"

VARIABLES
    llm_client,
    max_turns,          \* agent_max_tool_turns
    pc,                 \* the while condition, the for loop, the end
    forced,             \* the final, forced turn is being made
    turn,
    diagnosis,
    batch,              \* the calls of the current completion still to do
    messages,           \* role, ids of the calls made or answered
    tool_calls_so_far,
    result              \* which diagnosis the InvestigationResult carries

settings == <<llm_client, max_turns>>

vars == <<settings, pc, forced, turn, diagnosis, batch, messages,
          tool_calls_so_far, result>>

CallNames == Tools \cup ModelTools \cup {TERMINAL_TOOL_NAME}

ToolCall == [name : CallNames, arguments : Submissions]

Message(role, ids) == [role |-> role, ids |-> ids]

ToolResults == {"output", "error", "diagnosis received", "not executed"}

TypeOK ==
    /\ llm_client \in Clients
    /\ max_turns \in ModelTurns \cup MockTurns
    /\ pc \in {"loop", "execute", "conclude", "returned", "raised"}
    /\ forced \in BOOLEAN
    /\ turn \in 0..(max_turns + 1)
    /\ diagnosis \in Submissions
    /\ batch \in Seq([id : Nat, call : ToolCall])
    /\ messages \in Seq([role : {"system", "user", "assistant", "tool"}, ids : Seq(Nat)])
    /\ tool_calls_so_far \in Seq([id : Nat, call : ToolCall, result : ToolResults])
    /\ result \in {"none", "submitted", "default"}

Init ==
    /\ llm_client \in Clients
    /\ max_turns \in IF llm_client = "MockLLMClient" THEN MockTurns ELSE ModelTurns
    /\ pc = "loop"
    /\ forced = FALSE
    /\ turn = 0
    /\ diagnosis = NoDiagnosis
    /\ batch = <<>>
    /\ messages = <<Message("system", <<>>), Message("user", <<>>)>>
    /\ tool_calls_so_far = <<>>
    /\ result = "none"
-----------------------------------------------------------------------------
(* Faulty: one turn more than the setting says.                            *)
CapReachedLate == turn > max_turns

CapReached == turn >= max_turns

(* Faulty: a completion without calls does not count as a turn.            *)
TurnsAfterCalls(completion) == IF completion = <<>> THEN turn ELSE turn + 1

(* A turn is counted before its completion is looked at.                   *)
TurnsAfter(completion) == turn + 1

(* create_completion returns; the assistant message of the completion is   *)
(* stored, and its calls get fresh ids.                                    *)
TakeCompletion(completion) ==
    LET first == Len(tool_calls_so_far)
        ids   == [i \in DOMAIN completion |-> first + i]
    IN  /\ turn' = TurnsAfter(completion)
        /\ batch' = [i \in DOMAIN completion |-> [id |-> first + i, call |-> completion[i]]]
        /\ messages' = Append(messages, Message("assistant", ids))
        /\ UNCHANGED <<settings, diagnosis, tool_calls_so_far, result>>

(* An ordinary turn: text alone costs the turn and changes nothing else.   *)
Turn ==
    /\ pc = "loop"
    /\ diagnosis = NoDiagnosis
    /\ ~CapReached
    /\ \E completion \in Completions(llm_client, Len(tool_calls_so_far), FALSE) :
         /\ TakeCompletion(completion)
         /\ pc' = IF completion = <<>> THEN "loop" ELSE "execute"
    /\ UNCHANGED forced

(* The cap is reached without a diagnosis: tool_choice names the terminal  *)
(* tool, which the model may still not call.                               *)
ForcedTurn ==
    /\ pc = "loop"
    /\ diagnosis = NoDiagnosis
    /\ CapReached
    /\ forced' = TRUE
    /\ \E completion \in Completions(llm_client, Len(tool_calls_so_far), TRUE) :
         /\ TakeCompletion(completion)
         /\ pc' = IF completion = <<>> THEN "conclude" ELSE "execute"

(* A real model's create_completion raises: a time-out, a refusal, no      *)
(* choices; or its arguments hold a number that orjson cannot write.       *)
ModelFails ==
    /\ llm_client = "OpenAIClient"
    /\ pc = "loop"
    /\ diagnosis = NoDiagnosis
    /\ turn' = turn + 1
    /\ forced' = CapReached
    /\ pc' = "raised"
    /\ UNCHANGED <<settings, diagnosis, batch, messages, tool_calls_so_far, result>>

(* What a call is answered with: _execute_tool turns an unknown name and   *)
(* any exception of the tool into an error; the forced turn runs no tool.  *)
ResultsOf(name) ==
    CASE name = TERMINAL_TOOL_NAME -> {"diagnosis received"}
      [] name # TERMINAL_TOOL_NAME /\ forced -> {"not executed"}
      [] name \notin Tools \cup {TERMINAL_TOOL_NAME} /\ ~forced -> {"error"}
      [] name \in Tools /\ ~forced -> {"output", "error"}

(* Faulty: a tool that fails is not answered in the transcript.            *)
AnswerUnlessError(tc, tool_result) ==
    IF tool_result = "error" THEN messages ELSE Append(messages, Message("tool", <<tc.id>>))

Answer(tc, tool_result) == Append(messages, Message("tool", <<tc.id>>))

(* Faulty: the first submission of a completion wins.                      *)
DiagnosisAfterFirst(call) ==
    IF call.name = TERMINAL_TOOL_NAME /\ diagnosis = NoDiagnosis
    THEN call.arguments ELSE diagnosis

DiagnosisAfter(call) ==
    IF call.name = TERMINAL_TOOL_NAME THEN call.arguments ELSE diagnosis

(* One round of `for tc in completion.tool_calls'.                         *)
ExecuteCall ==
    /\ pc = "execute"
    /\ LET tc == Head(batch)
       IN  /\ diagnosis' = DiagnosisAfter(tc.call)
           /\ \E tool_result \in ResultsOf(tc.call.name) :
                /\ messages' = Answer(tc, tool_result)
                /\ tool_calls_so_far' = Append(tool_calls_so_far,
                      [id |-> tc.id, call |-> tc.call, result |-> tool_result])
    /\ batch' = Tail(batch)
    /\ pc' = IF Len(batch) > 1 THEN "execute" ELSE IF forced THEN "conclude" ELSE "loop"
    /\ UNCHANGED <<settings, forced, turn, result>>

(* `diagnosis or _DEFAULT_DIAGNOSIS'.                                      *)
Defaulted == diagnosis \in {"null", "falsy"}

(* The end of the loop, and the conversions of the diagnosis' fields.      *)
Conclude ==
    /\ pc = "conclude" \/ (pc = "loop" /\ diagnosis # NoDiagnosis)
    /\ \/ Defaulted /\ pc' = "returned" /\ result' = "default"
       \/ diagnosis = "usable" /\ pc' = "returned" /\ result' = "submitted"
       \/ diagnosis \in {"bad_confidence", "not_an_object"} /\ pc' = "raised" /\ UNCHANGED result
    /\ UNCHANGED <<settings, forced, turn, diagnosis, batch, messages, tool_calls_so_far>>

Next == Turn \/ ForcedTurn \/ ModelFails \/ ExecuteCall \/ Conclude

Spec == Init /\ [][Next]_vars

(* Requests to the model end, at the latest by the client's time-out, and  *)
(* the loop is straight-line code between them.                            *)
FairSpec == Spec /\ WF_vars(Next)
-----------------------------------------------------------------------------
Done == pc \in {"returned", "raised"}

(* The ids called by message i are answered by the tool messages directly  *)
(* after it, in order, and every tool message answers one of them.         *)
AnswersFollow(i) ==
    LET ids == messages[i].ids
    IN  /\ i + Len(ids) <= Len(messages)
        /\ \A k \in DOMAIN ids : messages[i + k] = Message("tool", <<ids[k]>>)

(* Message j holds the call that tool message i answers.                   *)
CalledBy(i, j) ==
    /\ messages[j].role = "assistant"
    /\ messages[i].ids[1] \in Range(messages[j].ids)

(* Message i answers the k-th tool call of the record.                     *)
Answers(i, k) == messages[i] = Message("tool", <<tool_calls_so_far[k].id>>)

(* The transcript is what the chat-completions API accepts whenever it is  *)
(* sent or stored: each call answered once, in order, before the next      *)
(* assistant message, and no answer without a call; the answers are those  *)
(* of tool_calls_so_far, in its order (tool_loop.py:88-108).               *)
TranscriptIsAnswered ==
    pc \in {"loop", "conclude", "returned"} =>
        /\ \A i \in DOMAIN messages :
              messages[i].role = "assistant" => AnswersFollow(i)
        /\ \A i \in DOMAIN messages : messages[i].role = "tool" =>
              /\ \E j \in DOMAIN messages :
                    CalledBy(i, j) /\ \A l \in DOMAIN messages : CalledBy(i, l) => l = j
              /\ \E k \in DOMAIN tool_calls_so_far : Answers(i, k)
        /\ \A k \in DOMAIN tool_calls_so_far : \E i \in DOMAIN messages : Answers(i, k)
        /\ \A i, j \in DOMAIN messages, k, l \in DOMAIN tool_calls_so_far :
              Answers(i, k) /\ Answers(j, l) => (i < j <=> k < l)

IsSubmission(k) == tool_calls_so_far[k].call.name = TERMINAL_TOOL_NAME

(* The diagnosis submitted last, or null if none was.                      *)
LastSubmissionIs(submitted) ==
    \/ /\ submitted = NoDiagnosis
       /\ \A k \in DOMAIN tool_calls_so_far : ~IsSubmission(k)
    \/ \E k \in DOMAIN tool_calls_so_far :
          /\ IsSubmission(k)
          /\ tool_calls_so_far[k].call.arguments = submitted
          /\ \A l \in DOMAIN tool_calls_so_far : l > k => ~IsSubmission(l)

(* A result carries the last diagnosis submitted, and the default only if  *)
(* that was none or empty; a usable one is never lost to an exception      *)
(* (tool_loop.py:97-99, 124-125, 134-144).                                 *)
ResultIsLastSubmission ==
    /\ pc = "returned" => ((result = "submitted") = LastSubmissionIs("usable"))
    /\ pc = "raised" => ~LastSubmissionIs("usable") /\ ~LastSubmissionIs("falsy")

Asked == {i \in DOMAIN messages : messages[i].role = "assistant"}

MadeBy(k, i) == tool_calls_so_far[k].id \in Range(messages[i].ids)

(* Of the calls that message i made, the k-th of the record is the last    *)
(* that submits a diagnosis.                                               *)
LastSubmissionOf(k, i) ==
    /\ IsSubmission(k) /\ MadeBy(k, i)
    /\ \A l \in DOMAIN tool_calls_so_far : l > k /\ IsSubmission(l) => ~MadeBy(l, i)

(* The model is asked at most max_turns + 1 times, the last time with the  *)
(* terminal tool forced, and never again after a completion whose last     *)
(* submission was anything but null (tool_loop.py:77, 110-115).            *)
AskedWithinCap ==
    /\ Cardinality(Asked) <= max_turns + 1
    /\ Cardinality(Asked) = max_turns + 1 => forced
    /\ \A i, j \in Asked, k \in DOMAIN tool_calls_so_far :
          i < j /\ LastSubmissionOf(k, i) => tool_calls_so_far[k].call.arguments = "null"

(* What the loop can still do: turns it has not taken, each with as many   *)
(* calls as a completion holds, calls it has not answered, and the end.    *)
Remaining ==
    IF Done THEN 0
    ELSE 1 + Len(batch) + (MaxCalls + 1) * (max_turns + 1 - turn)

(* Every step uses up some of it: text without calls, bad calls and the    *)
(* forced turn too (tool_loop.py:77-90, 110-122).  A loop that did not     *)
(* count one of them would go on with an ever longer transcript.           *)
StepsRunOut == [][Remaining' < Remaining]_vars

(* Every investigation ends: it does not go on for ever, and it does not   *)
(* stop where no result and no exception is left to come.                  *)
Terminates == StepsRunOut /\ <>Done

(* The free demo takes the loop of the real model to a submitted diagnosis,*)
(* whatever the tools answer and however small the cap: the script as far  *)
(* as the cap allows, then the diagnosis (llm_client.py:86-91).            *)
MockDiagnoses ==
    llm_client = "MockLLMClient" =>
        /\ pc # "raised"
        /\ pc = "returned" =>
             LET steps == IF max_turns < Len(Script) THEN max_turns ELSE Len(Script)
             IN  /\ result = "submitted"
                 /\ turn = steps + 1
                 /\ forced = (max_turns <= Len(Script))
                 /\ [i \in DOMAIN tool_calls_so_far |-> tool_calls_so_far[i].call.name]
                      = Append(SubSeq(Script, 1, steps), TERMINAL_TOOL_NAME)

(* `so a structured result is always produced' (tool_loop.py:4-6): only a  *)
(* request to the model that fails ends the loop in an exception, never    *)
(* what the model has submitted.                                           *)
StructuredResultAlways == pc = "raised" => diagnosis = NoDiagnosis
=============================================================================
