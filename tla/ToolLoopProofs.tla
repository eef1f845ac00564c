--------------------------- MODULE ToolLoopProofs ---------------------------
(***************************************************************************)
(* Theorems of the tool loop, for every set of tools, every length of      *)
(* completions and every cap on the turns.                                 *)
(***************************************************************************)
EXTENDS ToolLoop, SequenceTheorems, FiniteSetTheorems, TLAPS

(* A completion is a sequence of calls.                                    *)
LEMMA CompletionType ==
    ASSUME NEW client, NEW step \in Nat, NEW force \in BOOLEAN,
           NEW completion \in Completions(client, step, force)
    PROVE  completion \in Seq(ToolCall)
<1>1. CASE client = "MockLLMClient"
  <2>1. completion = MockCompletion(step, force)
    BY <1>1 DEF Completions
  <2>2. Call(TERMINAL_TOOL_NAME, "usable") \in ToolCall
    BY DEF Call, ToolCall, CallNames, Submissions
  <2>3. CASE force \/ step >= Len(Script)
    BY <2>1, <2>2, <2>3 DEF MockCompletion
  <2>4. CASE ~(force \/ step >= Len(Script))
    <3>1. step + 1 \in 1..4
      BY <2>4 DEF Script
    <3>2. Script[step + 1] \in Range(Script)
      BY <3>1 DEF Script, Range
    <3>3. Script[step + 1] \in CallNames
      BY <3>2, ToolsAssumption DEF CallNames
    <3>4. Call(Script[step + 1], "falsy") \in ToolCall
      BY <3>3 DEF Call, ToolCall, Submissions
    <3> QED  BY <2>1, <2>4, <3>4 DEF MockCompletion
  <2> QED  BY <2>3, <2>4
<1>2. CASE client # "MockLLMClient"
  <2>1. ModelCalls \subseteq ToolCall
    BY DEF ModelCalls, ToolCall, CallNames, Call, Submissions
  <2>2. PICK n \in 0..MaxCalls : completion \in [1..n -> ModelCalls]
    BY <1>2 DEF Completions, ModelCompletions
  <2>3. n \in Nat
    BY <2>2, ToolsAssumption
  <2> QED  BY <2>1, <2>2, <2>3
<1> QED  BY <1>1, <1>2

(* The model is asked: what Turn and ForcedTurn have in common.            *)
Ask ==
    /\ pc = "loop"
    /\ diagnosis = NoDiagnosis
    /\ \E force \in BOOLEAN :
       \E completion \in Completions(llm_client, Len(tool_calls_so_far), force) :
          /\ TakeCompletion(completion)
          /\ (pc' = "execute") <=> (completion # <<>>)

LEMMA AskIs == Turn \/ ForcedTurn => Ask
<1>1. ASSUME Turn PROVE Ask
  BY <1>1, Zenon DEF Turn, Ask
<1>2. ASSUME ForcedTurn PROVE Ask
  BY <1>2, Zenon DEF ForcedTurn, Ask
<1> QED  BY <1>1, <1>2

(* The answer of the model, entry by entry, after n messages and first     *)
(* records: one more message, whose calls are numbered on from those       *)
(* already recorded.                                                       *)
AnsweredWith(n, first, size) ==
    /\ n = Len(messages) /\ first = Len(tool_calls_so_far)
    /\ turn' = turn + 1
    /\ messages' \in Seq([role : {"system", "user", "assistant", "tool"}, ids : Seq(Nat)])
    /\ Len(messages') = n + 1
    /\ \A i \in 1..n : messages'[i] = messages[i]
    /\ messages'[n + 1].role = "assistant"
    /\ messages'[n + 1].ids \in Seq(Nat)
    /\ Len(messages'[n + 1].ids) = size
    /\ \A x \in 1..size : messages'[n + 1].ids[x] = first + x
    /\ batch' \in Seq([id : Nat, call : ToolCall])
    /\ Len(batch') = size
    /\ \A x \in 1..size : batch'[x].id = first + x
    /\ UNCHANGED <<settings, diagnosis, tool_calls_so_far, result>>
    /\ (pc' = "execute") <=> (size # 0)

LEMMA AskEffect ==
    ASSUME TypeOK, Ask
    PROVE  \E n \in Nat, first \in Nat, size \in Nat : AnsweredWith(n, first, size)
<1>1. PICK first \in Nat : first = Len(tool_calls_so_far)
  BY DEF TypeOK
<1>2. PICK n \in Nat : n = Len(messages)
  BY DEF TypeOK
<1>3. PICK force \in BOOLEAN :
         \E completion \in Completions(llm_client, first, force) :
            TakeCompletion(completion) /\ ((pc' = "execute") <=> (completion # <<>>))
  BY <1>1, Zenon DEF Ask
<1>31. PICK completion \in Completions(llm_client, first, force) :
         TakeCompletion(completion) /\ ((pc' = "execute") <=> (completion # <<>>))
  BY <1>3
<1>4. completion \in Seq(ToolCall)
  BY <1>1, <1>31, CompletionType
<1>5. PICK size \in Nat : size = Len(completion)
  BY <1>4
<1> DEFINE ids  == [i \in DOMAIN completion |-> first + i]
           next == [i \in DOMAIN completion |-> [id |-> first + i, call |-> completion[i]]]
           asked == Message("assistant", ids)
<1>6. /\ ids \in Seq(Nat) /\ Len(ids) = size
      /\ \A x \in 1..size : ids[x] = first + x
  BY <1>4, <1>5
<1>7. /\ next \in Seq([id : Nat, call : ToolCall]) /\ Len(next) = size
      /\ \A x \in 1..size : next[x].id = first + x
  <2>1. DOMAIN completion = 1..size /\ \A x \in 1..size : completion[x] \in ToolCall
    BY <1>4, <1>5
  <2> QED  BY <2>1
<1>8. /\ turn' = turn + 1
      /\ batch' = next
      /\ messages' = Append(messages, asked)
      /\ UNCHANGED <<settings, diagnosis, tool_calls_so_far, result>>
  BY <1>1, <1>31 DEF TakeCompletion, TurnsAfter
<1> HIDE DEF ids, next
<1>9. /\ asked \in [role : {"system", "user", "assistant", "tool"}, ids : Seq(Nat)]
      /\ asked.role = "assistant" /\ asked.ids = ids
  BY <1>6 DEF Message
<1> HIDE DEF asked
<1>10. /\ messages' \in Seq([role : {"system", "user", "assistant", "tool"}, ids : Seq(Nat)])
       /\ Len(messages') = n + 1
       /\ \A i \in 1..n : messages'[i] = messages[i]
       /\ messages'[n + 1] = asked
  BY <1>2, <1>8, <1>9 DEF TypeOK
<1>11. (pc' = "execute") <=> (size # 0)
  BY <1>31, <1>4, <1>5
<1>12. /\ messages'[n + 1].role = "assistant" /\ messages'[n + 1].ids = ids
  BY <1>9, <1>10
<1>13. /\ messages'[n + 1].ids \in Seq(Nat)
       /\ Len(messages'[n + 1].ids) = size
       /\ \A x \in 1..size : messages'[n + 1].ids[x] = first + x
  BY <1>6, <1>12
<1>14. /\ batch' \in Seq([id : Nat, call : ToolCall])
       /\ Len(batch') = size
       /\ \A x \in 1..size : batch'[x].id = first + x
  BY <1>7, <1>8
<1>15. AnsweredWith(n, first, size)
  BY <1>1, <1>2, <1>8, <1>10, <1>11, <1>12, <1>13, <1>14, Zenon DEF AnsweredWith
<1> QED  BY <1>15

(* One call is answered, entry by entry.                                   *)
LEMMA ExecuteEffect ==
    ASSUME TypeOK, ExecuteCall, batch # <<>>
    PROVE  /\ messages' \in Seq([role : {"system", "user", "assistant", "tool"},
                                 ids : Seq(Nat)])
           /\ Len(messages') = Len(messages) + 1
           /\ \A i \in 1..Len(messages) : messages'[i] = messages[i]
           /\ messages'[Len(messages) + 1] = Message("tool", <<batch[1].id>>)
           /\ tool_calls_so_far' \in Seq([id : Nat, call : ToolCall, result : ToolResults])
           /\ Len(tool_calls_so_far') = Len(tool_calls_so_far) + 1
           /\ \A k \in 1..Len(tool_calls_so_far) :
                 tool_calls_so_far'[k] = tool_calls_so_far[k]
           /\ tool_calls_so_far'[Len(tool_calls_so_far) + 1].id = batch[1].id
           /\ tool_calls_so_far'[Len(tool_calls_so_far) + 1].call = batch[1].call
           /\ batch[1] \in [id : Nat, call : ToolCall]
           /\ batch' \in Seq([id : Nat, call : ToolCall])
           /\ Len(batch) = Len(batch') + 1
           /\ \A x \in 1..Len(batch') : batch'[x] = batch[x + 1]
           /\ diagnosis' = DiagnosisAfter(batch[1].call)
           /\ (pc' = "execute") <=> (batch' # <<>>)
           /\ pc' = "execute" \/ pc' = "conclude" \/ pc' = "loop"
           /\ pc' = "loop" => forced = FALSE
<1>1. PICK n \in Nat : n = Len(messages)
  BY DEF TypeOK
<1>2. PICK first \in Nat : first = Len(tool_calls_so_far)
  BY DEF TypeOK
<1>3. PICK left \in Nat : Len(batch) = left + 1
  <2>1. Len(batch) \in Nat /\ Len(batch) # 0
    BY DEF TypeOK
  <2>2. PICK m \in Nat : Len(batch) = m
    BY <2>1
  <2>3. m - 1 \in Nat /\ m = (m - 1) + 1
    BY <2>1, <2>2
  <2> QED  BY <2>2, <2>3
<1>4. batch[1] \in [id : Nat, call : ToolCall] /\ Head(batch) = batch[1]
  <2>1. batch \in Seq([id : Nat, call : ToolCall])
    BY DEF TypeOK
  <2>2. 1 \in 1..Len(batch)
    BY <1>3
  <2>3. batch[1] \in [id : Nat, call : ToolCall]
    BY <2>1, <2>2, ElementOfSeq
  <2>4. Head(batch) = batch[1]
    BY <2>1, <2>2
  <2> QED  BY <2>3, <2>4
<1>5. PICK id \in Nat, call \in ToolCall : id = batch[1].id /\ call = batch[1].call
  BY <1>4
<1>6. PICK tool_result \in ResultsOf(call.name) :
         /\ diagnosis' = DiagnosisAfter(call)
         /\ messages' = Append(messages, Message("tool", <<id>>))
         /\ tool_calls_so_far' = Append(tool_calls_so_far,
               [id |-> id, call |-> call, result |-> tool_result])
         /\ batch' = Tail(batch)
         /\ pc' = IF Len(batch) > 1 THEN "execute" ELSE IF forced THEN "conclude" ELSE "loop"
  BY <1>4, <1>5 DEF ExecuteCall, Answer
<1>7. tool_result \in ToolResults
  <2>1. call.name \in CallNames
    BY DEF ToolCall
  <2>2. TERMINAL_TOOL_NAME \notin Tools
    BY ToolsAssumption
  <2>3. forced \in BOOLEAN
    BY DEF TypeOK
  <2> QED  BY <1>6, <2>1, <2>2, <2>3 DEF ResultsOf, ToolResults
<1> DEFINE answer == Message("tool", <<id>>)
           record == [id |-> id, call |-> call, result |-> tool_result]
<1>8. /\ answer \in [role : {"system", "user", "assistant", "tool"}, ids : Seq(Nat)]
      /\ record \in [id : Nat, call : ToolCall, result : ToolResults]
      /\ record.id = id /\ record.call = call
  BY <1>7 DEF Message
<1>9. /\ messages' = Append(messages, answer)
      /\ tool_calls_so_far' = Append(tool_calls_so_far, record)
  BY <1>6
<1> HIDE DEF answer, record
<1>10. /\ messages' \in Seq([role : {"system", "user", "assistant", "tool"}, ids : Seq(Nat)])
       /\ Len(messages') = n + 1
       /\ \A i \in 1..n : messages'[i] = messages[i]
       /\ messages'[n + 1] = answer
  BY <1>1, <1>8, <1>9 DEF TypeOK
<1>11. /\ tool_calls_so_far' \in Seq([id : Nat, call : ToolCall, result : ToolResults])
       /\ Len(tool_calls_so_far') = first + 1
       /\ \A k \in 1..first : tool_calls_so_far'[k] = tool_calls_so_far[k]
       /\ tool_calls_so_far'[first + 1] = record
  BY <1>2, <1>8, <1>9 DEF TypeOK
<1>12. /\ batch' \in Seq([id : Nat, call : ToolCall])
       /\ Len(batch') = left
       /\ \A x \in 1..left : batch'[x] = batch[x + 1]
  BY <1>3, <1>6, HeadTailProperties DEF TypeOK
<1>13. /\ (pc' = "execute") <=> (left # 0)
       /\ pc' = "execute" \/ pc' = "conclude" \/ pc' = "loop"
       /\ pc' = "loop" => forced = FALSE
  BY <1>3, <1>6 DEF TypeOK
<1>14. (left # 0) <=> (batch' # <<>>)
  BY <1>12
<1>15. answer = Message("tool", <<id>>) /\ record.id = id /\ record.call = call
  BY DEF answer, record
<1>16. /\ messages' \in Seq([role : {"system", "user", "assistant", "tool"}, ids : Seq(Nat)])
       /\ Len(messages') = Len(messages) + 1
       /\ \A i \in 1..Len(messages) : messages'[i] = messages[i]
       /\ messages'[Len(messages) + 1] = Message("tool", <<batch[1].id>>)
  BY <1>1, <1>5, <1>10, <1>15
<1>17. /\ tool_calls_so_far' \in Seq([id : Nat, call : ToolCall, result : ToolResults])
       /\ Len(tool_calls_so_far') = Len(tool_calls_so_far) + 1
       /\ \A k \in 1..Len(tool_calls_so_far) : tool_calls_so_far'[k] = tool_calls_so_far[k]
       /\ tool_calls_so_far'[Len(tool_calls_so_far) + 1].id = batch[1].id
       /\ tool_calls_so_far'[Len(tool_calls_so_far) + 1].call = batch[1].call
  BY <1>2, <1>5, <1>11, <1>15
<1>18. /\ batch' \in Seq([id : Nat, call : ToolCall])
       /\ Len(batch) = Len(batch') + 1
       /\ \A x \in 1..Len(batch') : batch'[x] = batch[x + 1]
  BY <1>3, <1>12
<1>19. diagnosis' = DiagnosisAfter(batch[1].call)
  BY <1>5, <1>6
<1> QED  BY <1>4, <1>13, <1>14, <1>16, <1>17, <1>18, <1>19, Zenon
-----------------------------------------------------------------------------
(* The number of turns against the cap: the forced turn is the one after   *)
(* the cap, and the only one.                                              *)
TurnsInv ==
    /\ pc = "loop" => forced = FALSE
    /\ forced = FALSE => turn <= max_turns
    /\ forced = TRUE => turn = max_turns + 1

(* The calls of a completion are worked on while there are some.           *)
BatchInv == (pc = "execute") <=> (batch # <<>>)

LEMMA TypeInit == Init => TypeOK /\ TurnsInv /\ BatchInv
<1> SUFFICES ASSUME Init PROVE TypeOK /\ TurnsInv /\ BatchInv
  OBVIOUS
<1>1. max_turns \in ModelTurns \cup MockTurns /\ max_turns \in Nat
  BY TurnsAssumption DEF Init
<1>2. turn \in 0..(max_turns + 1) /\ turn <= max_turns
  BY <1>1 DEF Init
<1>3. messages \in Seq([role : {"system", "user", "assistant", "tool"}, ids : Seq(Nat)])
  BY DEF Init, Message
<1>4. diagnosis \in Submissions
  BY DEF Init, NoDiagnosis, Submissions
<1>5. /\ batch \in Seq([id : Nat, call : ToolCall])
      /\ tool_calls_so_far \in Seq([id : Nat, call : ToolCall, result : ToolResults])
  BY DEF Init
<1>6. TypeOK
  BY <1>1, <1>2, <1>3, <1>4, <1>5 DEF Init, TypeOK
<1> QED  BY <1>2, <1>6 DEF Init, TurnsInv, BatchInv

LEMMA TypeStep ==
    ASSUME TypeOK, TurnsInv, BatchInv, [Next]_vars
    PROVE  TypeOK' /\ TurnsInv' /\ BatchInv'
<1>1. PICK cap \in Nat, now \in Nat : cap = max_turns /\ now = turn
  BY TurnsAssumption DEF TypeOK
<1>2. CASE Turn \/ ForcedTurn
  <2>1. PICK size \in Nat :
           /\ turn' = turn + 1
           /\ messages' \in Seq([role : {"system", "user", "assistant", "tool"},
                                 ids : Seq(Nat)])
           /\ batch' \in Seq([id : Nat, call : ToolCall])
           /\ Len(batch') = size
           /\ UNCHANGED <<settings, diagnosis, tool_calls_so_far, result>>
           /\ (pc' = "execute") <=> (size # 0)
    <3>1. Ask
      BY <1>2, AskIs
    <3>2. PICK n \in Nat, first \in Nat, size \in Nat : AnsweredWith(n, first, size)
      BY <3>1, AskEffect
    <3> QED  BY <3>2, Zenon DEF AnsweredWith
  <2>2. pc = "loop" /\ forced = FALSE /\ now <= cap
    BY <1>1, <1>2 DEF Turn, ForcedTurn, TurnsInv
  <2>3. /\ turn' = now + 1 /\ max_turns' = cap
        /\ max_turns' = max_turns /\ llm_client' = llm_client
    BY <1>1, <2>1 DEF settings
  <2>4. /\ pc' \in {"loop", "execute", "conclude"}
        /\ \/ now < cap /\ forced' = FALSE
           \/ now = cap /\ forced' = TRUE /\ pc' # "loop"
    <3>1. CASE Turn
      <4>1. now < cap
        BY <1>1, <3>1 DEF Turn, CapReached
      <4>2. forced' = FALSE /\ pc' \in {"loop", "execute"}
        BY <2>2, <3>1 DEF Turn
      <4> QED  BY <4>1, <4>2
    <3>2. CASE ForcedTurn
      <4>1. now >= cap
        BY <1>1, <3>2 DEF ForcedTurn, CapReached
      <4>2. forced' = TRUE /\ pc' \in {"conclude", "execute"}
        BY <3>2 DEF ForcedTurn
      <4> QED  BY <2>2, <4>1, <4>2
    <3> QED  BY <1>2, <3>1, <3>2
  <2>5. (pc' = "execute") <=> (batch' # <<>>)
    BY <2>1
  <2>6. turn' \in 0..(max_turns' + 1)
    BY <2>2, <2>3
  <2>7. TurnsInv'
    BY <2>2, <2>3, <2>4 DEF TurnsInv
  <2>8. TypeOK'
    BY <2>1, <2>3, <2>4, <2>6 DEF TypeOK, settings
  <2> QED  BY <2>5, <2>7, <2>8 DEF BatchInv
<1>3. CASE ModelFails
  <2>1. /\ pc = "loop" /\ forced = FALSE /\ now <= cap
        /\ turn' = now + 1
        /\ pc' = "raised"
        /\ UNCHANGED <<settings, diagnosis, batch, messages, tool_calls_so_far, result>>
    BY <1>1, <1>3 DEF ModelFails, TurnsInv
  <2>2. /\ now < cap => forced' = FALSE
        /\ now = cap => forced' = TRUE
    <3>1. CapReached <=> (now >= cap)
      BY <1>1 DEF CapReached
    <3>2. (now < cap => ~CapReached) /\ (now = cap => CapReached)
      BY <3>1
    <3>3. CapReached \in BOOLEAN
      BY <1>1 DEF CapReached
    <3>4. forced' = CapReached
      BY <1>3 DEF ModelFails
    <3> HIDE DEF CapReached
    <3>5. (CapReached => CapReached = TRUE) /\ (~CapReached => CapReached = FALSE)
      BY <3>3
    <3> QED  BY <3>2, <3>4, <3>5
  <2>3. max_turns' = cap
    BY <1>1, <2>1 DEF settings
  <2>4. turn' \in 0..(max_turns' + 1) /\ forced' \in BOOLEAN
    <3>1. now < cap \/ now = cap
      BY <2>1
    <3>2. forced' = FALSE \/ forced' = TRUE
      BY <2>2, <3>1
    <3>3. turn' \in 0..(max_turns' + 1)
      BY <2>1, <2>3
    <3> QED  BY <3>2, <3>3
  <2>5. TurnsInv'
    BY <2>1, <2>2, <2>3 DEF TurnsInv
  <2>6. TypeOK'
    BY <2>1, <2>4 DEF TypeOK, settings
  <2> QED  BY <2>1, <2>5, <2>6 DEF BatchInv
<1>4. CASE ExecuteCall
  <2>1. batch # <<>>
    BY <1>4 DEF ExecuteCall, BatchInv
  <2>2. /\ messages' \in Seq([role : {"system", "user", "assistant", "tool"},
                              ids : Seq(Nat)])
        /\ tool_calls_so_far' \in Seq([id : Nat, call : ToolCall, result : ToolResults])
        /\ batch[1] \in [id : Nat, call : ToolCall]
        /\ batch' \in Seq([id : Nat, call : ToolCall])
        /\ diagnosis' = DiagnosisAfter(batch[1].call)
        /\ (pc' = "execute") <=> (batch' # <<>>)
        /\ pc' = "execute" \/ pc' = "conclude" \/ pc' = "loop"
        /\ pc' = "loop" => forced = FALSE
    BY <1>4, <2>1, ExecuteEffect, Zenon
  <2>3. UNCHANGED <<settings, forced, turn, result>>
    BY <1>4 DEF ExecuteCall
  <2>4. diagnosis' \in Submissions
    <3>1. batch[1].call.arguments \in Submissions
      BY <2>2 DEF ToolCall
    <3> QED  BY <2>2, <3>1 DEF DiagnosisAfter, TypeOK
  <2>5. TypeOK'
    BY <2>2, <2>3, <2>4 DEF TypeOK, settings
  <2>6. TurnsInv'
    BY <2>2, <2>3 DEF TurnsInv, settings
  <2> QED  BY <2>2, <2>5, <2>6 DEF BatchInv
<1>5. CASE Conclude
  <2>1. /\ pc # "execute" /\ pc' \in {"returned", "raised"}
        /\ result' \in {"none", "submitted", "default"}
        /\ UNCHANGED <<settings, forced, turn, diagnosis, batch, messages, tool_calls_so_far>>
    BY <1>5 DEF Conclude, TypeOK
  <2> QED  BY <2>1 DEF TypeOK, TurnsInv, BatchInv, settings
<1>6. CASE UNCHANGED vars
  BY <1>6 DEF vars, settings, TypeOK, TurnsInv, BatchInv
<1> QED  BY <1>2, <1>3, <1>4, <1>5, <1>6 DEF Next

(* The variables keep their types: in particular the turns never exceed the*)
(* cap by more than the forced one, and every answer is one of four.       *)
THEOREM TypeCorrect == Spec => []TypeOK
BY TypeInit, TypeStep, PTL DEF Spec

LEMMA TurnsCorrect == Spec => [](TurnsInv /\ BatchInv)
BY TypeInit, TypeStep, PTL DEF Spec
-----------------------------------------------------------------------------
(* The last submission of a sequence of tool calls.                        *)
Records == Seq([id : Nat, call : ToolCall, result : ToolResults])

Submits(s, k) == s[k].call.name = TERMINAL_TOOL_NAME

LastOf(s, submitted) ==
    \/ submitted = NoDiagnosis /\ \A k \in DOMAIN s : ~Submits(s, k)
    \/ \E k \in DOMAIN s :
          /\ Submits(s, k)
          /\ s[k].call.arguments = submitted
          /\ \A l \in DOMAIN s : l > k => ~Submits(s, l)

LEMMA LastOfIsUnique ==
    ASSUME NEW s \in Records, NEW c, NEW d, LastOf(s, c), LastOf(s, d)
    PROVE  c = d
<1>1. PICK n \in Nat : n = Len(s) /\ DOMAIN s = 1..n
  BY DEF Records
<1>2. CASE \A k \in DOMAIN s : ~Submits(s, k)
  BY <1>2 DEF LastOf
<1>3. CASE \E k \in DOMAIN s : Submits(s, k)
  <2>1. PICK k \in 1..n : /\ Submits(s, k) /\ s[k].call.arguments = c
                          /\ \A l \in 1..n : l > k => ~Submits(s, l)
    BY <1>1, <1>3 DEF LastOf
  <2>2. PICK l \in 1..n : /\ Submits(s, l) /\ s[l].call.arguments = d
                          /\ \A m \in 1..n : m > l => ~Submits(s, m)
    BY <1>1, <1>3 DEF LastOf
  <2>3. k = l
    BY <2>1, <2>2
  <2> QED  BY <2>1, <2>2, <2>3
<1> QED  BY <1>2, <1>3

(* One more call changes it only if it submits a diagnosis.                *)
LEMMA LastOfGrows ==
    ASSUME NEW s \in Records, NEW t \in Records, NEW n \in Nat,
           Len(s) = n, Len(t) = n + 1, \A k \in 1..n : t[k] = s[k],
           NEW d, LastOf(s, d)
    PROVE  LastOf(t, IF Submits(t, n + 1) THEN t[n + 1].call.arguments ELSE d)
<1>1. DOMAIN s = 1..n /\ DOMAIN t = 1..(n + 1)
  BY DEF Records
<1>2. \A k \in 1..n : Submits(t, k) <=> Submits(s, k)
  BY DEF Submits
<1>3. CASE Submits(t, n + 1)
  <2>1. n + 1 \in DOMAIN t /\ \A l \in DOMAIN t : ~(l > n + 1)
    BY <1>1
  <2> QED  BY <1>3, <2>1 DEF LastOf
<1>4. CASE ~Submits(t, n + 1)
  <2>1. \A k \in DOMAIN t : k \in 1..n \/ k = n + 1
    BY <1>1
  <2>2. CASE d = NoDiagnosis /\ \A k \in DOMAIN s : ~Submits(s, k)
    <3>1. \A k \in DOMAIN t : ~Submits(t, k)
      BY <1>1, <1>2, <1>4, <2>1, <2>2
    <3> QED  BY <1>4, <2>2, <3>1 DEF LastOf
  <2>3. CASE ~(d = NoDiagnosis /\ \A k \in DOMAIN s : ~Submits(s, k))
    <3>1. PICK k \in 1..n : /\ Submits(s, k) /\ s[k].call.arguments = d
                            /\ \A l \in 1..n : l > k => ~Submits(s, l)
      BY <1>1, <2>3 DEF LastOf
    <3>2. k \in DOMAIN t /\ Submits(t, k) /\ t[k].call.arguments = d
      BY <1>1, <1>2, <3>1
    <3>3. \A l \in DOMAIN t : l > k => ~Submits(t, l)
      BY <1>2, <1>4, <2>1, <3>1
    <3> QED  BY <1>4, <3>2, <3>3 DEF LastOf
  <2> QED  BY <2>2, <2>3
<1> QED  BY <1>3, <1>4

LEMMA LastSubmissionIsLastOf ==
    \A d : LastSubmissionIs(d) <=> LastOf(tool_calls_so_far, d)
BY DEF LastSubmissionIs, LastOf, IsSubmission, Submits

(* The variable `diagnosis' holds the last submission at every point of the*)
(* loop, and the ways out of it tell the kinds of diagnosis apart.         *)
DiagnosisInv ==
    /\ LastOf(tool_calls_so_far, diagnosis)
    /\ pc = "returned" => ((result = "submitted") <=> (diagnosis = "usable"))
    /\ pc = "raised" => diagnosis # "usable" /\ diagnosis # "falsy"

LEMMA DiagnosisInit == Init => DiagnosisInv
BY DEF Init, DiagnosisInv, LastOf

LEMMA DiagnosisStep ==
    ASSUME TypeOK, BatchInv, TypeOK', DiagnosisInv, [Next]_vars
    PROVE  DiagnosisInv'
<1>1. CASE Turn \/ ForcedTurn \/ ModelFails
  <2>1. /\ UNCHANGED <<diagnosis, tool_calls_so_far, result>>
        /\ pc' # "returned"
        /\ pc' = "raised" => diagnosis = NoDiagnosis
    BY <1>1 DEF Turn, ForcedTurn, ModelFails, TakeCompletion
  <2> QED  BY <2>1 DEF DiagnosisInv, NoDiagnosis
<1>2. CASE ExecuteCall
  <2>1. batch # <<>>
    BY <1>2 DEF ExecuteCall, BatchInv
  <2>2. PICK n \in Nat : n = Len(tool_calls_so_far)
    BY DEF TypeOK
  <2>3. /\ tool_calls_so_far' \in Records
        /\ Len(tool_calls_so_far') = n + 1
        /\ \A k \in 1..n : tool_calls_so_far'[k] = tool_calls_so_far[k]
        /\ tool_calls_so_far'[n + 1].call = batch[1].call
        /\ diagnosis' = DiagnosisAfter(batch[1].call)
        /\ pc' = "execute" \/ pc' = "conclude" \/ pc' = "loop"
    BY <1>2, <2>1, <2>2, ExecuteEffect DEF Records
  <2>4. PICK s \in Records, t \in Records : s = tool_calls_so_far /\ t = tool_calls_so_far'
    BY <2>3 DEF TypeOK, Records
  <2>5. LastOf(t, IF Submits(t, n + 1) THEN t[n + 1].call.arguments ELSE diagnosis)
    BY <2>2, <2>3, <2>4, LastOfGrows DEF DiagnosisInv
  <2>6. diagnosis' = IF Submits(t, n + 1) THEN t[n + 1].call.arguments ELSE diagnosis
    BY <2>3, <2>4 DEF DiagnosisAfter, Submits
  <2>7. LastOf(tool_calls_so_far', diagnosis')
    BY <2>4, <2>5, <2>6
  <2> QED  BY <2>3, <2>7 DEF DiagnosisInv
<1>3. CASE Conclude
  <2>1. /\ UNCHANGED <<diagnosis, tool_calls_so_far>>
        /\ pc' = "returned" => ((result' = "submitted") <=> (diagnosis = "usable"))
        /\ pc' = "raised" => diagnosis # "usable" /\ diagnosis # "falsy"
    BY <1>3 DEF Conclude, Defaulted
  <2> QED  BY <2>1 DEF DiagnosisInv
<1>4. CASE UNCHANGED vars
  BY <1>4 DEF vars, DiagnosisInv
<1> QED  BY <1>1, <1>2, <1>3, <1>4 DEF Next

LEMMA DiagnosisCorrect == Spec => [](TypeOK /\ TurnsInv /\ BatchInv /\ DiagnosisInv)
<1>1. TypeOK /\ TurnsInv /\ BatchInv /\ DiagnosisInv /\ [Next]_vars
        => (TypeOK /\ TurnsInv /\ BatchInv /\ DiagnosisInv)'
  BY TypeStep, DiagnosisStep
<1> QED  BY <1>1, TypeInit, DiagnosisInit, PTL DEF Spec

(* An investigation that returns carries the diagnosis submitted last, and *)
(* one that raises had neither a usable nor an empty one, whatever the     *)
(* model calls in whatever order (tool_loop.py:97-99, 124-144).            *)
THEOREM ResultIsLast == Spec => []ResultIsLastSubmission
<1>1. TypeOK /\ DiagnosisInv => ResultIsLastSubmission
  <2> SUFFICES ASSUME TypeOK, DiagnosisInv PROVE ResultIsLastSubmission
    OBVIOUS
  <2>1. tool_calls_so_far \in Records
    BY DEF TypeOK, Records
  <2>2. \A d : LastOf(tool_calls_so_far, d) <=> d = diagnosis
    BY <2>1, LastOfIsUnique DEF DiagnosisInv
  <2>3. \A d : LastSubmissionIs(d) <=> d = diagnosis
    BY <2>2, LastSubmissionIsLastOf
  <2>4. LastSubmissionIs("usable") <=> diagnosis = "usable"
    BY <2>3
  <2>5. LastSubmissionIs("falsy") <=> diagnosis = "falsy"
    BY <2>3
  <2>6. LastSubmissionIs("usable") \in BOOLEAN
    BY DEF LastSubmissionIs
  <2>7. pc = "returned" => ((result = "submitted") = LastSubmissionIs("usable"))
    BY <2>4, <2>6 DEF DiagnosisInv
  <2>8. pc = "raised" => ~LastSubmissionIs("usable") /\ ~LastSubmissionIs("falsy")
    BY <2>4, <2>5 DEF DiagnosisInv
  <2> QED  BY <2>7, <2>8 DEF ResultIsLastSubmission
<1> QED  BY <1>1, DiagnosisCorrect, PTL
-----------------------------------------------------------------------------
(* The transcript, as a sequence m of messages of which `first' calls have *)
(* been answered and `left' calls are waiting.                             *)
Messages == Seq([role : {"system", "user", "assistant", "tool"}, ids : Seq(Nat)])

(* The x-th call of message i has this id; message i answers this id.      *)
Calls(m, i, x, id) ==
    /\ i \in DOMAIN m /\ m[i].role = "assistant"
    /\ x \in DOMAIN m[i].ids /\ m[i].ids[x] = id

Tells(m, i, id) == i \in DOMAIN m /\ m[i] = Message("tool", <<id>>)

(* The calls are numbered as they were made, across all messages.          *)
InCallOrder(m, first, left) ==
    /\ \A i, x, id \in Nat : Calls(m, i, x, id) => id \in 1..(first + left)
    /\ \A id \in 1..(first + left) : \E i, x \in Nat : Calls(m, i, x, id)
    /\ \A i, x, y, a, b \in Nat : Calls(m, i, x, a) /\ Calls(m, i, y, b) => b + x = a + y
    /\ \A i, j, x, y, a, b \in Nat :
          i < j /\ Calls(m, i, x, a) /\ Calls(m, j, y, b) => a < b

(* The answer to the x-th call of message i is message i + x, or will be.  *)
InPlace(m, first) ==
    \A i, x, id \in Nat : Calls(m, i, x, id) =>
        /\ id <= first => Tells(m, i + x, id)
        /\ id > first => i + x = Len(m) + (id - first)

(* Each message of a tool answers one of the calls made, in their order.   *)
InTurn(m, first) ==
    /\ \A i \in DOMAIN m : m[i].role = "tool" => \E id \in 1..first : Tells(m, i, id)
    /\ \A i, j, a, b \in Nat : i < j /\ Tells(m, i, a) /\ Tells(m, j, b) => a < b

Layout(m, first, left) ==
    InCallOrder(m, first, left) /\ InPlace(m, first) /\ InTurn(m, first)

(* One message of the model's more, with the next `size' calls.            *)
Asks(m, t, n, first, size) ==
    /\ Len(m) = n /\ Len(t) = n + 1
    /\ \A i \in 1..n : t[i] = m[i]
    /\ t[n + 1].role = "assistant" /\ t[n + 1].ids \in Seq(Nat)
    /\ Len(t[n + 1].ids) = size
    /\ \A x \in 1..size : t[n + 1].ids[x] = first + x

LEMMA AskCalls ==
    ASSUME NEW m \in Messages, NEW t \in Messages, NEW n \in Nat, NEW first \in Nat,
           NEW size \in Nat,
           Asks(m, t, n, first, size)
    PROVE  /\ \A i, x, id \in Nat :
                 Calls(t, i, x, id) <=> \/ Calls(m, i, x, id)
                                        \/ i = n + 1 /\ x \in 1..size /\ id = first + x
           /\ \A i, x, id \in Nat : Calls(m, i, x, id) => i <= n
           /\ \A i, id \in Nat : Tells(t, i, id) <=> Tells(m, i, id)
<1>1. /\ DOMAIN m = 1..n /\ DOMAIN t = 1..(n + 1) /\ DOMAIN t[n + 1].ids = 1..size
      /\ \A i \in 1..n : t[i] = m[i]
      /\ t[n + 1].role = "assistant"
      /\ \A x \in 1..size : t[n + 1].ids[x] = first + x
  BY DEF Messages, Asks
<1>2. ASSUME NEW i \in Nat, NEW x \in Nat, NEW id \in Nat
      PROVE  /\ Calls(t, i, x, id) <=> \/ Calls(m, i, x, id)
                                       \/ i = n + 1 /\ x \in 1..size /\ id = first + x
             /\ Calls(m, i, x, id) => i <= n
  <2>1. CASE i \in 1..n
    <3>1. i \in DOMAIN m /\ i \in DOMAIN t /\ t[i] = m[i] /\ i # n + 1 /\ i <= n
      BY <1>1, <2>1
    <3> QED  BY <3>1 DEF Calls
  <2>2. CASE i = n + 1
    <3>1. i \notin DOMAIN m /\ i \in DOMAIN t
      BY <1>1, <2>2
    <3>2. Calls(t, i, x, id) <=> x \in 1..size /\ id = first + x
      BY <1>1, <2>2, <3>1 DEF Calls
    <3> QED  BY <2>2, <3>1, <3>2 DEF Calls
  <2>3. CASE i \notin 1..n /\ i # n + 1
    <3>1. i \notin DOMAIN m /\ i \notin DOMAIN t
      BY <1>1, <2>3
    <3> QED  BY <2>3, <3>1 DEF Calls
  <2> QED  BY <2>1, <2>2, <2>3
<1>3. ASSUME NEW i \in Nat, NEW id \in Nat
      PROVE  Tells(t, i, id) <=> Tells(m, i, id)
  <2>1. CASE i \in 1..n
    <3>1. i \in DOMAIN m /\ i \in DOMAIN t /\ t[i] = m[i]
      BY <1>1, <2>1
    <3> QED  BY <3>1 DEF Tells
  <2>2. CASE i = n + 1
    <3>1. i \notin DOMAIN m /\ t[i].role # "tool"
      BY <1>1, <2>2
    <3> QED  BY <3>1 DEF Tells, Message
  <2>3. CASE i \notin 1..n /\ i # n + 1
    <3>1. i \notin DOMAIN m /\ i \notin DOMAIN t
      BY <1>1, <2>3
    <3> QED  BY <3>1 DEF Tells
  <2> QED  BY <2>1, <2>2, <2>3
<1> QED  BY <1>2, <1>3

(* One answer more, to the next call in line.                              *)
LEMMA AnswerTells ==
    ASSUME NEW m \in Messages, NEW t \in Messages, NEW n \in Nat, NEW next \in Nat,
           Len(m) = n, Len(t) = n + 1, \A i \in 1..n : t[i] = m[i],
           t[n + 1] = Message("tool", <<next>>)
    PROVE  /\ \A i, x, id \in Nat : Calls(t, i, x, id) <=> Calls(m, i, x, id)
           /\ \A i, id \in Nat :
                 Tells(t, i, id) <=> Tells(m, i, id) \/ (i = n + 1 /\ id = next)
           /\ \A i, id \in Nat : Tells(m, i, id) => i <= n
<1>1. DOMAIN m = 1..n /\ DOMAIN t = 1..(n + 1)
  BY DEF Messages
<1>2. ASSUME NEW i \in Nat, NEW x \in Nat, NEW id \in Nat
      PROVE  Calls(t, i, x, id) <=> Calls(m, i, x, id)
  <2>1. CASE i \in 1..n
    <3>1. i \in DOMAIN m /\ i \in DOMAIN t /\ t[i] = m[i]
      BY <1>1, <2>1
    <3> QED  BY <3>1 DEF Calls
  <2>2. CASE i = n + 1
    <3>1. i \notin DOMAIN m /\ t[i].role # "assistant"
      BY <1>1, <2>2 DEF Message
    <3> QED  BY <3>1 DEF Calls
  <2>3. CASE i \notin 1..n /\ i # n + 1
    <3>1. i \notin DOMAIN m /\ i \notin DOMAIN t
      BY <1>1, <2>3
    <3> QED  BY <3>1 DEF Calls
  <2> QED  BY <2>1, <2>2, <2>3
<1>3. ASSUME NEW i \in Nat, NEW id \in Nat
      PROVE  /\ Tells(t, i, id) <=> Tells(m, i, id) \/ (i = n + 1 /\ id = next)
             /\ Tells(m, i, id) => i <= n
  <2>1. CASE i \in 1..n
    <3>1. i \in DOMAIN m /\ i \in DOMAIN t /\ t[i] = m[i] /\ i # n + 1 /\ i <= n
      BY <1>1, <2>1
    <3> QED  BY <3>1 DEF Tells
  <2>2. CASE i = n + 1
    <3>1. i \notin DOMAIN m /\ i \in DOMAIN t
      BY <1>1, <2>2
    <3>2. Message("tool", <<next>>) = Message("tool", <<id>>) <=> id = next
      BY DEF Message
    <3> QED  BY <2>2, <3>1, <3>2 DEF Tells
  <2>3. CASE i \notin 1..n /\ i # n + 1
    <3>1. i \notin DOMAIN m /\ i \notin DOMAIN t
      BY <1>1, <2>3
    <3> QED  BY <2>3, <3>1 DEF Tells
  <2> QED  BY <2>1, <2>2, <2>3
<1> QED  BY <1>2, <1>3
LEMMA LayoutAsk ==
    ASSUME NEW m \in Messages, NEW t \in Messages, NEW n \in Nat, NEW first \in Nat,
           NEW size \in Nat,
           Asks(m, t, n, first, size),
           Layout(m, first, 0)
    PROVE  Layout(t, first, size)
<1>1. /\ \A i, x, id \in Nat :
            Calls(t, i, x, id) <=> \/ Calls(m, i, x, id)
                                   \/ i = n + 1 /\ x \in 1..size /\ id = first + x
      /\ \A i, x, id \in Nat : Calls(m, i, x, id) => i <= n
      /\ \A i, id \in Nat : Tells(t, i, id) <=> Tells(m, i, id)
  BY AskCalls
<1>11. /\ DOMAIN m = 1..n /\ DOMAIN t = 1..(n + 1) /\ Len(t) = n + 1
       /\ \A i \in 1..n : t[i] = m[i]
       /\ t[n + 1].role = "assistant"
  BY DEF Messages, Asks
<1>2. \A i, x, id \in Nat : Calls(m, i, x, id) => id \in 1..first
  BY DEF Layout, InCallOrder
<1>3. InCallOrder(t, first, size)
  <2>1. ASSUME NEW i \in Nat, NEW x \in Nat, NEW id \in Nat, Calls(t, i, x, id)
        PROVE  id \in 1..(first + size)
    <3>1. CASE Calls(m, i, x, id)
      <4>1. id \in 1..first
        BY <1>2, <3>1
      <4> QED  BY <4>1
    <3>2. CASE x \in 1..size /\ id = first + x
      BY <3>2
    <3> QED  BY <1>1, <2>1, <3>1, <3>2
  <2>2. ASSUME NEW id \in 1..(first + size)
        PROVE  \E i, x \in Nat : Calls(t, i, x, id)
    <3>1. CASE id <= first
      <4>1. id \in 1..(first + 0)
        BY <3>1
      <4>2. PICK i \in Nat, x \in Nat : Calls(m, i, x, id)
        BY <4>1 DEF Layout, InCallOrder
      <4> QED  BY <1>1, <4>2
    <3>2. CASE id > first
      <4>1. PICK x \in 1..size : id = first + x
        <5>1. id - first \in 1..size /\ id = first + (id - first)
          BY <3>2
        <5> QED  BY <5>1
      <4>2. n + 1 \in Nat /\ x \in Nat
        OBVIOUS
      <4>3. Calls(t, n + 1, x, id)
        BY <1>1, <4>1, <4>2
      <4> QED  BY <4>2, <4>3
    <3> QED  BY <3>1, <3>2
  <2>3. ASSUME NEW i \in Nat, NEW x \in Nat, NEW y \in Nat, NEW a \in Nat, NEW b \in Nat,
               Calls(t, i, x, a), Calls(t, i, y, b)
        PROVE  b + x = a + y
    <3>1. CASE i = n + 1
      <4>1. ~Calls(m, i, x, a) /\ ~Calls(m, i, y, b)
        BY <1>1, <3>1
      <4>2. a = first + x /\ b = first + y
        BY <1>1, <2>3, <4>1
      <4> QED  BY <4>2
    <3>2. CASE i # n + 1
      <4>1. Calls(m, i, x, a) /\ Calls(m, i, y, b)
        BY <1>1, <2>3, <3>2
      <4>2. \A k, v, w, c, d \in Nat : Calls(m, k, v, c) /\ Calls(m, k, w, d) => d + v = c + w
        BY DEF Layout, InCallOrder
      <4> QED  BY <2>3, <4>1, <4>2
    <3> QED  BY <3>1, <3>2
  <2>4. ASSUME NEW i \in Nat, NEW j \in Nat, NEW x \in Nat, NEW y \in Nat,
               NEW a \in Nat, NEW b \in Nat,
               i < j, Calls(t, i, x, a), Calls(t, j, y, b)
        PROVE  a < b
    <3>1. j <= n + 1
      BY <1>1, <2>4
    <3>2. Calls(m, i, x, a)
      BY <1>1, <2>4, <3>1
    <3>3. CASE Calls(m, j, y, b)
      BY <2>4, <3>2, <3>3 DEF Layout, InCallOrder
    <3>4. CASE y \in 1..size /\ b = first + y
      BY <1>2, <3>2, <3>4
    <3> QED  BY <1>1, <2>4, <3>3, <3>4
  <2> QED  BY <2>1, <2>2, <2>3, <2>4 DEF InCallOrder
<1>4. InPlace(t, first)
  <2> SUFFICES ASSUME NEW i \in Nat, NEW x \in Nat, NEW id \in Nat, Calls(t, i, x, id)
               PROVE  /\ id <= first => Tells(t, i + x, id)
                      /\ id > first => i + x = Len(t) + (id - first)
    BY DEF InPlace
  <2>1. CASE Calls(m, i, x, id)
    <3>1. id <= first /\ i + x \in Nat
      BY <1>2, <2>1
    <3>2. Tells(m, i + x, id)
      BY <2>1, <3>1 DEF Layout, InPlace
    <3> QED  BY <1>1, <3>1, <3>2
  <2>2. CASE i = n + 1 /\ x \in 1..size /\ id = first + x
    <3>1. ~(id <= first)
      BY <2>2
    <3>2. id - first = x
      BY <2>2
    <3>3. i + x = Len(t) + (id - first)
      BY <1>11, <2>2, <3>2
    <3> QED  BY <3>1, <3>3
  <2> QED  BY <1>1, <2>1, <2>2
<1>5. InTurn(t, first)
  <2>1. ASSUME NEW i \in DOMAIN t, t[i].role = "tool"
        PROVE  \E id \in 1..first : Tells(t, i, id)
    <3>1. i \in 1..n
      BY <1>11, <2>1
    <3>2. i \in DOMAIN m /\ m[i].role = "tool" /\ i \in Nat
      BY <1>11, <2>1, <3>1
    <3>3. PICK id \in 1..first : Tells(m, i, id)
      BY <3>2 DEF Layout, InTurn
    <3> QED  BY <1>1, <3>2, <3>3
  <2>2. \A i, j, a, b \in Nat : i < j /\ Tells(t, i, a) /\ Tells(t, j, b) => a < b
    BY <1>1 DEF Layout, InTurn
  <2> QED  BY <2>1, <2>2 DEF InTurn
<1> QED  BY <1>3, <1>4, <1>5 DEF Layout

LEMMA LayoutAnswer ==
    ASSUME NEW m \in Messages, NEW t \in Messages, NEW n \in Nat, NEW first \in Nat,
           NEW left \in Nat,
           Len(m) = n, Len(t) = n + 1, \A i \in 1..n : t[i] = m[i],
           t[n + 1] = Message("tool", <<first + 1>>),
           Layout(m, first, left + 1)
    PROVE  Layout(t, first + 1, left)
<1>1. /\ \A i, x, id \in Nat : Calls(t, i, x, id) <=> Calls(m, i, x, id)
      /\ \A i, id \in Nat : Tells(t, i, id) <=> Tells(m, i, id) \/ (i = n + 1 /\ id = first + 1)
      /\ \A i, id \in Nat : Tells(m, i, id) => i <= n
  <2>1. first + 1 \in Nat
    OBVIOUS
  <2> QED  BY <2>1, AnswerTells
<1>2. first + (left + 1) = (first + 1) + left
  OBVIOUS
<1>3. InCallOrder(t, first + 1, left)
  <2>1. InCallOrder(m, first + 1, left)
    BY <1>2 DEF Layout, InCallOrder
  <2>2. (first + 1) + left \in Nat
    OBVIOUS
  <2> DEFINE last == (first + 1) + left
  <2>3. 1..last \subseteq Nat
    BY <2>2
  <2> HIDE DEF last
  <2>4. /\ \A i, x, id \in Nat : Calls(t, i, x, id) => id \in 1..last
        /\ \A id \in 1..last : \E i, x \in Nat : Calls(t, i, x, id)
    <3>1. /\ \A i, x, id \in Nat : Calls(m, i, x, id) => id \in 1..last
          /\ \A id \in 1..last : \E i, x \in Nat : Calls(m, i, x, id)
      BY <2>1 DEF InCallOrder, last
    <3> QED  BY <1>1, <2>3, <3>1
  <2>5. \A i, x, y, a, b \in Nat : Calls(t, i, x, a) /\ Calls(t, i, y, b) => b + x = a + y
    <3>1. \A i, x, y, a, b \in Nat : Calls(m, i, x, a) /\ Calls(m, i, y, b) => b + x = a + y
      BY <2>1 DEF InCallOrder
    <3>2. ASSUME NEW i \in Nat, NEW x \in Nat, NEW y \in Nat, NEW a \in Nat, NEW b \in Nat,
                 Calls(t, i, x, a), Calls(t, i, y, b)
          PROVE  b + x = a + y
      <4>1. Calls(m, i, x, a) /\ Calls(m, i, y, b)
        BY <1>1, <3>2
      <4> QED  BY <3>1, <3>2, <4>1
    <3> QED  BY <3>2
  <2>6. \A i, j, x, y, a, b \in Nat :
           i < j /\ Calls(t, i, x, a) /\ Calls(t, j, y, b) => a < b
    <3>1. \A i, j, x, y, a, b \in Nat :
             i < j /\ Calls(m, i, x, a) /\ Calls(m, j, y, b) => a < b
      BY <2>1 DEF InCallOrder
    <3>2. ASSUME NEW i \in Nat, NEW j \in Nat, NEW x \in Nat, NEW y \in Nat,
                 NEW a \in Nat, NEW b \in Nat,
                 i < j, Calls(t, i, x, a), Calls(t, j, y, b)
          PROVE  a < b
      <4>1. Calls(m, i, x, a) /\ Calls(m, j, y, b)
        BY <1>1, <3>2
      <4> QED  BY <3>1, <3>2, <4>1
    <3> QED  BY <3>2
  <2> QED  BY <2>4, <2>5, <2>6 DEF InCallOrder, last
<1>4. InPlace(t, first + 1)
  <2> SUFFICES ASSUME NEW i \in Nat, NEW x \in Nat, NEW id \in Nat, Calls(t, i, x, id)
               PROVE  /\ id <= first + 1 => Tells(t, i + x, id)
                      /\ id > first + 1 => i + x = Len(t) + (id - (first + 1))
    BY DEF InPlace
  <2>1. Calls(m, i, x, id)
    BY <1>1
  <2>2. /\ id <= first => Tells(m, i + x, id)
        /\ id > first => i + x = n + (id - first)
    BY <2>1 DEF Layout, InPlace
  <2>3. CASE id <= first
    <3>1. i + x \in Nat /\ Tells(m, i + x, id)
      BY <2>2, <2>3
    <3> QED  BY <1>1, <2>3, <3>1
  <2>4. CASE id = first + 1
    <3>1. i + x = n + 1
      BY <2>2, <2>4
    <3>2. Tells(t, i + x, id)
      BY <1>1, <2>4, <3>1
    <3> QED  BY <2>4, <3>2
  <2>5. CASE id > first + 1
    BY <2>2, <2>5
  <2> QED  BY <2>3, <2>4, <2>5
<1>5. InTurn(t, first + 1)
  <2>1. ASSUME NEW i \in DOMAIN t, t[i].role = "tool"
        PROVE  \E id \in 1..(first + 1) : Tells(t, i, id)
    <3>1. CASE i \in 1..n
      <4>1. i \in DOMAIN m /\ m[i].role = "tool" /\ i \in Nat
        BY <2>1, <3>1 DEF Messages
      <4>2. PICK id \in 1..first : Tells(m, i, id)
        BY <4>1 DEF Layout, InTurn
      <4>3. id \in 1..(first + 1) /\ id \in Nat
        OBVIOUS
      <4> QED  BY <1>1, <4>1, <4>2, <4>3
    <3>2. CASE i = n + 1
      <4>1. Tells(t, n + 1, first + 1)
        BY <1>1
      <4>2. first + 1 \in 1..(first + 1)
        OBVIOUS
      <4> QED  BY <3>2, <4>1, <4>2
    <3> QED  BY <3>1, <3>2 DEF Messages
  <2>2. ASSUME NEW i \in Nat, NEW j \in Nat, NEW a \in Nat, NEW b \in Nat,
               i < j, Tells(t, i, a), Tells(t, j, b)
        PROVE  a < b
    <3>1. j <= n + 1
      BY <1>1, <2>2
    <3>2. Tells(m, i, a)
      BY <1>1, <2>2, <3>1
    <3>3. CASE Tells(m, j, b)
      BY <2>2, <3>2, <3>3 DEF Layout, InTurn
    <3>4. CASE b = first + 1
      <4>1. i \in DOMAIN m /\ m[i] = Message("tool", <<a>>)
        BY <3>2 DEF Tells
      <4>2. PICK id \in 1..first : Tells(m, i, id)
        BY <4>1 DEF Layout, InTurn, Message
      <4>3. id = a
        BY <4>1, <4>2 DEF Tells, Message
      <4> QED  BY <3>4, <4>3
    <3> QED  BY <1>1, <2>2, <3>3, <3>4
  <2> QED  BY <2>1, <2>2 DEF InTurn
<1> QED  BY <1>3, <1>4, <1>5 DEF Layout
-----------------------------------------------------------------------------
(* Of the calls message i made, the k-th of the record s is the last that  *)
(* submits a diagnosis; it was null if the model was asked again.          *)
SubmitsLast(m, s, k, i) ==
    /\ Submits(s, k)
    /\ \E x \in Nat : Calls(m, i, x, k)
    /\ \A l \in DOMAIN s : l > k /\ Submits(s, l) => ~\E x \in Nat : Calls(m, i, x, l)

NullBefore(m, s) ==
    \A i, j \in Nat, k \in DOMAIN s :
       i < j /\ j \in DOMAIN m /\ m[j].role = "assistant" /\ SubmitsLast(m, s, k, i)
          => s[k].call.arguments = "null"

(* The ids of one message follow each other.                               *)
InStep(m) ==
    \A i, x, y, a, b \in Nat : Calls(m, i, x, a) /\ Calls(m, i, y, b) => b + x = a + y

LEMMA InStepIds ==
    ASSUME NEW m, InStep(m), NEW i \in Nat, NEW x \in Nat, NEW y \in Nat, NEW a \in Nat,
           NEW b \in Nat, Calls(m, i, x, a), Calls(m, i, y, b)
    PROVE  b + x = a + y
BY DEF InStep

LEMMA NullAsk ==
    ASSUME NEW m \in Messages, NEW t \in Messages, NEW n \in Nat, NEW first \in Nat,
           NEW size \in Nat, Asks(m, t, n, first, size), Layout(m, first, 0),
           NEW s \in Records, Len(s) = first, LastOf(s, NoDiagnosis), NullBefore(m, s)
    PROVE  NullBefore(t, s)
<1>1. /\ \A i, x, id \in Nat :
            Calls(t, i, x, id) <=> \/ Calls(m, i, x, id)
                                   \/ i = n + 1 /\ x \in 1..size /\ id = first + x
      /\ \A i, x, id \in Nat : Calls(m, i, x, id) => i <= n
  BY AskCalls, SMTT(30)
<1>2. DOMAIN s = 1..first
  BY DEF Records
<1> SUFFICES ASSUME NEW i \in Nat, NEW j \in Nat, NEW k \in DOMAIN s,
                    i < j, SubmitsLast(t, s, k, i)
             PROVE  s[k].call.arguments = "null"
  BY DEF NullBefore
<1>3. k \in Nat /\ k <= first
  BY <1>2
<1>4. PICK x \in Nat : Calls(m, i, x, k)
  <2>1. PICK x \in Nat : Calls(t, i, x, k)
    BY DEF SubmitsLast
  <2>2. ~(x \in 1..size /\ k = first + x)
    BY <1>3
  <2> QED  BY <1>1, <1>3, <2>1, <2>2
<1>5. SubmitsLast(m, s, k, i)
  <2>1. ASSUME NEW l \in DOMAIN s, l > k, Submits(s, l), NEW y \in Nat, Calls(m, i, y, l)
        PROVE  FALSE
    <3>1. l \in Nat
      BY <1>2
    <3>2. Calls(t, i, y, l)
      BY <1>1, <2>1, <3>1
    <3> QED  BY <2>1, <3>2 DEF SubmitsLast
  <2> QED  BY <1>4, <2>1 DEF SubmitsLast
<1>6. CASE \E a \in Nat : i < a /\ a \in DOMAIN m /\ m[a].role = "assistant"
  BY <1>5, <1>6 DEF NullBefore
<1>7. CASE ~\E a \in Nat : i < a /\ a \in DOMAIN m /\ m[a].role = "assistant"
  <2>1. ASSUME NEW l \in DOMAIN s, l > k, Submits(s, l) PROVE FALSE
    <3>1. l \in Nat /\ l \in 1..(first + 0)
      BY <1>2
    <3>2. PICK a \in Nat, y \in Nat : Calls(m, a, y, l)
      BY <3>1 DEF Layout, InCallOrder
    <3>3. ~(i < a)
      BY <1>7, <3>2 DEF Calls
    <3>4. a # i
      BY <1>5, <2>1, <3>2 DEF SubmitsLast
    <3>5. a < i
      BY <3>3, <3>4
    <3>6. l < k
      BY <1>3, <1>4, <3>1, <3>2, <3>5 DEF Layout, InCallOrder
    <3> QED  BY <1>3, <2>1, <3>1, <3>6
  <2>2. LastOf(s, s[k].call.arguments)
    BY <1>5, <2>1 DEF LastOf, SubmitsLast
  <2>3. s[k].call.arguments = NoDiagnosis
    BY <2>2, LastOfIsUnique
  <2> QED  BY <2>3 DEF NoDiagnosis
<1> QED  BY <1>6, <1>7

(* Between a message of the model's and the answer it waits for there are  *)
(* only answers.                                                           *)
LEMMA OnlyAnswersBefore ==
    ASSUME NEW m \in Messages, NEW n \in Nat, Len(m) = n, NEW first \in Nat,
           NEW left \in Nat, Layout(m, first, left + 1),
           NEW i \in Nat, NEW x \in Nat, Calls(m, i, x, first + 1), NEW j \in 1..n, i < j
    PROVE  m[j].role = "tool"
<1>1. i + x = n + 1
  <2>1. first + 1 \in Nat /\ first + 1 > first /\ (first + 1) - first = 1
    OBVIOUS
  <2> QED  BY <2>1 DEF Layout, InPlace
<1>2. PICK y \in Nat : i + y = j /\ 1 <= y /\ y < x
  <2>1. j - i \in Nat /\ i + (j - i) = j /\ 1 <= j - i /\ j - i < x
    BY <1>1
  <2> QED  BY <2>1
<1>3. i \in DOMAIN m /\ m[i].role = "assistant" /\ x \in DOMAIN m[i].ids
  BY DEF Calls
<1>4. m[i].ids \in Seq(Nat)
  <2>1. i \in 1..Len(m)
    BY <1>3 DEF Messages
  <2>2. m[i] \in [role : {"system", "user", "assistant", "tool"}, ids : Seq(Nat)]
    BY <2>1, ElementOfSeq DEF Messages
  <2> QED  BY <2>2
<1>5. y \in DOMAIN m[i].ids
  BY <1>2, <1>3, <1>4
<1>6. PICK id \in Nat : Calls(m, i, y, id)
  <2>1. m[i].ids[y] \in Nat
    <3>1. DOMAIN m[i].ids = 1..Len(m[i].ids)
      BY <1>4, LenProperties
    <3>2. y \in 1..Len(m[i].ids)
      BY <1>5, <3>1, Zenon
    <3> QED  BY <1>4, <3>2, ElementOfSeq
  <2> QED  BY <1>3, <1>5, <2>1 DEF Calls
<1>7. id + x = (first + 1) + y
  <2>1. InStep(m)
    BY DEF Layout, InCallOrder, InStep
  <2>2. first + 1 \in Nat
    OBVIOUS
  <2> QED  BY <1>6, <2>1, <2>2, InStepIds
<1>8. id <= first
  BY <1>2, <1>7
<1>9. Tells(m, i + y, id)
  BY <1>2, <1>6, <1>8 DEF Layout, InPlace
<1> QED  BY <1>2, <1>9 DEF Tells, Message

OneMore(s, u, n) ==
    Len(s) = n /\ Len(u) = n + 1 /\ \A k \in 1..n : u[k] = s[k]

LEMMA NullAnswer ==
    ASSUME NEW m \in Messages, NEW t \in Messages, NEW n \in Nat, NEW first \in Nat,
           NEW left \in Nat,
           OneMore(m, t, n), t[n + 1] = Message("tool", <<first + 1>>),
           Layout(m, first, left + 1),
           NEW s \in Records, NEW u \in Records, OneMore(s, u, first),
           NullBefore(m, s)
    PROVE  NullBefore(t, u)
<1> USE DEF OneMore
<1>1. \A i, x, id \in Nat : Calls(t, i, x, id) <=> Calls(m, i, x, id)
  <2>1. first + 1 \in Nat
    OBVIOUS
  <2> QED  BY <2>1, AnswerTells
<1>2. /\ DOMAIN s = 1..first /\ DOMAIN u = 1..(first + 1)
      /\ DOMAIN m = 1..n /\ DOMAIN t = 1..(n + 1)
  BY DEF Records, Messages
<1> SUFFICES ASSUME NEW i \in Nat, NEW j \in Nat, NEW k \in DOMAIN u,
                    i < j, j \in DOMAIN t, t[j].role = "assistant", SubmitsLast(t, u, k, i)
             PROVE  u[k].call.arguments = "null"
  BY DEF NullBefore
<1>3. j \in 1..n /\ j \in DOMAIN m /\ m[j].role = "assistant"
  <2>1. j # n + 1
    BY DEF Message
  <2>2. j \in 1..n
    BY <1>2, <2>1
  <2> QED  BY <1>2, <2>2
<1>4. k \in Nat
  BY <1>2
<1>5. PICK x \in Nat : Calls(m, i, x, k)
  BY <1>1, <1>4 DEF SubmitsLast
<1>6. CASE k \in 1..first
  <2>1. SubmitsLast(m, s, k, i)
    <3>1. Submits(s, k)
      BY <1>6 DEF SubmitsLast, Submits
    <3>2. ASSUME NEW l \in DOMAIN s, l > k, Submits(s, l), NEW y \in Nat, Calls(m, i, y, l)
          PROVE  FALSE
      <4>1. l \in Nat /\ l \in DOMAIN u /\ Submits(u, l)
        BY <1>2, <3>2 DEF Submits
      <4>2. Calls(t, i, y, l)
        BY <1>1, <3>2, <4>1
      <4> QED  BY <3>2, <4>1, <4>2 DEF SubmitsLast
    <3> QED  BY <1>5, <3>1, <3>2 DEF SubmitsLast
  <2>2. s[k].call.arguments = "null"
    BY <1>2, <1>3, <1>6, <2>1 DEF NullBefore
  <2> QED  BY <1>6, <2>2
<1>7. CASE k = first + 1
  <2>1. Calls(m, i, x, first + 1)
    BY <1>5, <1>7
  <2>2. m[j].role = "tool"
    BY <1>3, <2>1, OnlyAnswersBefore
  <2> QED  BY <1>3, <2>2
<1> QED  BY <1>2, <1>6, <1>7
-----------------------------------------------------------------------------
(* Every call has the number of its place in the record, the calls waiting *)
(* are next in line, and the transcript is laid out accordingly.           *)
TranscriptInv ==
    /\ \A k \in DOMAIN tool_calls_so_far : tool_calls_so_far[k].id = k
    /\ \A x \in DOMAIN batch : batch[x].id = Len(tool_calls_so_far) + x
    /\ Layout(messages, Len(tool_calls_so_far), Len(batch))

(* Each message of the model's took a turn.                                *)
AskedInv ==
    /\ IsFiniteSet(Asked) /\ Cardinality(Asked) <= turn
    /\ NullBefore(messages, tool_calls_so_far)

LoopInv ==
    TypeOK /\ TurnsInv /\ BatchInv /\ DiagnosisInv /\ TranscriptInv /\ AskedInv

LEMMA TranscriptInit == Init => TranscriptInv /\ AskedInv
<1> SUFFICES ASSUME Init PROVE TranscriptInv /\ AskedInv
  OBVIOUS
<1>1. /\ Len(tool_calls_so_far) = 0 /\ Len(batch) = 0
      /\ DOMAIN tool_calls_so_far = {} /\ DOMAIN batch = {}
  BY DEF Init
<1>2. /\ DOMAIN messages = 1..2
      /\ \A i \in DOMAIN messages : messages[i].role # "assistant" /\ messages[i].role # "tool"
  BY DEF Init, Message
<1>3. \A i, x, id : ~Calls(messages, i, x, id) /\ ~Tells(messages, i, id)
  BY <1>2 DEF Calls, Tells, Message
<1>4. Layout(messages, 0, 0)
  <2>1. InCallOrder(messages, 0, 0)
    BY <1>3 DEF InCallOrder
  <2>2. InPlace(messages, 0) /\ InTurn(messages, 0)
    BY <1>2, <1>3 DEF InPlace, InTurn
  <2> QED  BY <2>1, <2>2 DEF Layout
<1>5. Asked = {}
  BY <1>2 DEF Asked
<1>6. IsFiniteSet(Asked) /\ Cardinality(Asked) <= turn
  BY <1>5, FS_EmptySet DEF Init
<1>7. NullBefore(messages, tool_calls_so_far)
  BY <1>1 DEF NullBefore
<1> QED  BY <1>1, <1>4, <1>6, <1>7 DEF TranscriptInv, AskedInv

LEMMA TranscriptStep == LoopInv /\ [Next]_vars => TranscriptInv' /\ AskedInv'
<1> SUFFICES ASSUME LoopInv, [Next]_vars PROVE TranscriptInv' /\ AskedInv'
  OBVIOUS
<1>1. TypeOK /\ TurnsInv /\ BatchInv /\ DiagnosisInv /\ TranscriptInv /\ AskedInv
  BY DEF LoopInv
<1>2. PICK first \in Nat, n \in Nat, now \in Nat :
         first = Len(tool_calls_so_far) /\ n = Len(messages) /\ now = turn
  BY <1>1, TurnsAssumption DEF TypeOK
<1>3. PICK m \in Messages, s \in Records : m = messages /\ s = tool_calls_so_far
  BY <1>1 DEF TypeOK, Messages, Records
<1>4. CASE Turn \/ ForcedTurn
  <2>1. Ask
    BY <1>4, AskIs
  <2>21. PICK n1 \in Nat, first1 \in Nat, size \in Nat : AnsweredWith(n1, first1, size)
    BY <1>1, <2>1, AskEffect
  <2>2. /\ n1 = Len(messages) /\ first1 = Len(tool_calls_so_far)
        /\ turn' = turn + 1
        /\ messages' \in Seq([role : {"system", "user", "assistant", "tool"}, ids : Seq(Nat)])
        /\ Len(messages') = n1 + 1
        /\ \A i \in 1..n1 : messages'[i] = messages[i]
        /\ messages'[n1 + 1].role = "assistant"
        /\ messages'[n1 + 1].ids \in Seq(Nat)
        /\ Len(messages'[n1 + 1].ids) = size
        /\ \A x \in 1..size : messages'[n1 + 1].ids[x] = first1 + x
        /\ batch' \in Seq([id : Nat, call : ToolCall])
        /\ Len(batch') = size
        /\ \A x \in 1..size : batch'[x].id = first1 + x
        /\ UNCHANGED <<settings, diagnosis, tool_calls_so_far, result>>
    BY <2>21, Zenon DEF AnsweredWith
  <2>3. n1 = n /\ first1 = first
    BY <1>2, <2>2
  <2>4. PICK t \in Messages : t = messages'
    BY <2>2 DEF Messages
  <2>5. Asks(m, t, n, first, size)
    BY <1>2, <1>3, <2>2, <2>3, <2>4 DEF Asks
  <2>6. pc = "loop" /\ Len(batch) = 0 /\ diagnosis = NoDiagnosis
    BY <1>1, <2>1 DEF Ask, BatchInv
  <2>7. Layout(m, first, 0)
    BY <1>1, <1>2, <1>3, <2>6 DEF TranscriptInv
  <2>8. Layout(t, first, size)
    BY <2>5, <2>7, LayoutAsk
  <2>9. TranscriptInv'
    <3>1. \A k \in DOMAIN tool_calls_so_far' : tool_calls_so_far'[k].id = k
      BY <1>1, <2>2 DEF TranscriptInv
    <3>2. DOMAIN batch' = 1..size /\ Len(tool_calls_so_far') = first /\ Len(batch') = size
      BY <1>2, <2>2
    <3>3. \A x \in DOMAIN batch' : batch'[x].id = Len(tool_calls_so_far') + x
      BY <2>2, <2>3, <3>2
    <3>4. Layout(messages', Len(tool_calls_so_far'), Len(batch'))
      BY <2>4, <2>8, <3>2
    <3> QED  BY <3>1, <3>3, <3>4 DEF TranscriptInv
  <2>10. NullBefore(t, s)
    BY <1>1, <1>2, <1>3, <2>5, <2>6, <2>7, NullAsk DEF DiagnosisInv, AskedInv
  <2>11. Asked' = Asked \cup {n + 1}
    BY <1>2, <1>3, <2>2, <2>3, <2>4 DEF Asked, Messages
  <2>12. IsFiniteSet(Asked') /\ Cardinality(Asked') <= now + 1
    <3>1. IsFiniteSet(Asked)
      BY <1>1 DEF AskedInv
    <3>2. PICK c \in Nat : c = Cardinality(Asked)
      BY <3>1, FS_CardinalityType
    <3>3. c <= now
      BY <1>1, <1>2, <3>2 DEF AskedInv
    <3>4. /\ IsFiniteSet(Asked \cup {n + 1})
          /\ \/ Cardinality(Asked \cup {n + 1}) = c
             \/ Cardinality(Asked \cup {n + 1}) = c + 1
      BY <3>1, <3>2, FS_AddElement
    <3>5. Cardinality(Asked \cup {n + 1}) <= now + 1
      BY <3>3, <3>4
    <3> QED  BY <2>11, <3>4, <3>5
  <2> QED  BY <1>2, <1>3, <2>2, <2>4, <2>9, <2>10, <2>12 DEF AskedInv
<1>5. CASE ModelFails
  <2>1. UNCHANGED <<batch, messages, tool_calls_so_far>> /\ turn' = turn + 1
    BY <1>5 DEF ModelFails
  <2>2. Asked' = Asked
    BY <2>1 DEF Asked
  <2>3. Cardinality(Asked) \in Nat /\ Cardinality(Asked) <= now + 1
    BY <1>1, <1>2, FS_CardinalityType DEF AskedInv
  <2> QED  BY <1>1, <1>2, <2>1, <2>2, <2>3 DEF TranscriptInv, AskedInv
<1>6. CASE ExecuteCall
  <2>1. batch # <<>>
    BY <1>1, <1>6 DEF ExecuteCall, BatchInv
  <2>2. /\ messages' \in Messages /\ tool_calls_so_far' \in Records
        /\ Len(messages') = n + 1
        /\ \A i \in 1..n : messages'[i] = messages[i]
        /\ messages'[n + 1] = Message("tool", <<batch[1].id>>)
        /\ Len(tool_calls_so_far') = first + 1
        /\ \A k \in 1..first : tool_calls_so_far'[k] = tool_calls_so_far[k]
        /\ tool_calls_so_far'[first + 1].id = batch[1].id
        /\ batch' \in Seq([id : Nat, call : ToolCall])
        /\ Len(batch) = Len(batch') + 1
        /\ \A x \in 1..Len(batch') : batch'[x] = batch[x + 1]
    BY <1>1, <1>2, <1>6, <2>1, ExecuteEffect DEF Messages, Records
  <2>3. PICK left \in Nat : left = Len(batch')
    BY <2>2
  <2>4. DOMAIN batch = 1..(left + 1) /\ DOMAIN batch' = 1..left /\ Len(batch) = left + 1
    BY <1>1, <2>2, <2>3 DEF TypeOK
  <2>5. batch[1].id = first + 1
    BY <1>1, <1>2, <2>4 DEF TranscriptInv
  <2>6. PICK t \in Messages, u \in Records : t = messages' /\ u = tool_calls_so_far'
    BY <2>2
  <2>7. /\ Len(m) = n /\ Len(t) = n + 1 /\ \A i \in 1..n : t[i] = m[i]
        /\ t[n + 1] = Message("tool", <<first + 1>>)
        /\ Len(s) = first /\ Len(u) = first + 1 /\ \A k \in 1..first : u[k] = s[k]
    BY <1>2, <1>3, <2>2, <2>5, <2>6
  <2>8. Layout(m, first, left + 1)
    BY <1>1, <1>2, <1>3, <2>4 DEF TranscriptInv
  <2>9. Layout(t, first + 1, left)
    BY <2>7, <2>8, LayoutAnswer
  <2>10. NullBefore(m, s)
    BY <1>1, <1>3 DEF AskedInv
  <2>11. NullBefore(t, u)
    <3>1. OneMore(m, t, n) /\ OneMore(s, u, first) /\ t[n + 1] = Message("tool", <<first + 1>>)
      BY <2>7 DEF OneMore
    <3> QED  BY <2>8, <2>10, <3>1, NullAnswer
  <2>12. \A k \in DOMAIN u : u[k].id = k
    <3>1. DOMAIN u = 1..(first + 1) /\ DOMAIN s = 1..first
      BY <2>7 DEF Records
    <3>2. \A k \in 1..first : s[k].id = k
      BY <1>1, <1>3, <3>1 DEF TranscriptInv
    <3> QED  BY <2>2, <2>5, <2>6, <2>7, <3>1, <3>2
  <2>13. \A x \in DOMAIN batch' : batch'[x].id = (first + 1) + x
    <3> SUFFICES ASSUME NEW x \in 1..left PROVE batch'[x].id = (first + 1) + x
      BY <2>4
    <3>1. x + 1 \in DOMAIN batch /\ x + 1 \in Nat
      BY <2>4
    <3>2. batch[x + 1].id = first + (x + 1)
      BY <1>1, <1>2, <3>1 DEF TranscriptInv
    <3> QED  BY <2>2, <2>3, <3>2
  <2>14. TranscriptInv'
    BY <2>3, <2>6, <2>7, <2>9, <2>12, <2>13 DEF TranscriptInv
  <2>15. Asked' = Asked
    <3>1. DOMAIN m = 1..n /\ DOMAIN t = 1..(n + 1) /\ t[n + 1].role = "tool"
      BY <2>7 DEF Messages, Message
    <3>2. {i \in DOMAIN t : t[i].role = "assistant"}
            = {i \in DOMAIN m : m[i].role = "assistant"}
      BY <2>7, <3>1
    <3> QED  BY <1>3, <2>6, <3>2 DEF Asked
  <2>16. turn' = turn
    BY <1>6 DEF ExecuteCall
  <2> QED  BY <1>1, <2>6, <2>11, <2>14, <2>15, <2>16 DEF AskedInv
<1>7. CASE Conclude \/ UNCHANGED vars
  <2>1. UNCHANGED <<batch, messages, tool_calls_so_far, turn>>
    BY <1>7 DEF Conclude, vars
  <2> QED  BY <1>1, <2>1 DEF TranscriptInv, AskedInv, Asked
<1> QED  BY <1>4, <1>5, <1>6, <1>7 DEF Next

LEMMA LoopCorrect == Spec => []LoopInv
<1>1. Init => LoopInv
  BY TypeInit, DiagnosisInit, TranscriptInit DEF LoopInv
<1>2. LoopInv /\ [Next]_vars => LoopInv'
  BY TypeStep, DiagnosisStep, TranscriptStep DEF LoopInv
<1> QED  BY <1>1, <1>2, PTL DEF Spec
LEMMA MadeByCalls ==
    ASSUME TypeOK, TranscriptInv, NEW i \in Asked, NEW k \in DOMAIN tool_calls_so_far
    PROVE  MadeBy(k, i) <=> \E x \in Nat : Calls(messages, i, x, k)
<1>1. i \in DOMAIN messages /\ messages[i].role = "assistant"
  BY DEF Asked
<1>2. messages[i].ids \in Seq(Nat)
  <2>1. i \in 1..Len(messages)
    BY <1>1 DEF TypeOK
  <2>2. messages[i] \in [role : {"system", "user", "assistant", "tool"}, ids : Seq(Nat)]
    BY <2>1, ElementOfSeq DEF TypeOK
  <2> QED  BY <2>2
<1>3. DOMAIN messages[i].ids \subseteq Nat
  BY <1>2
<1>4. tool_calls_so_far[k].id = k
  BY DEF TranscriptInv
<1> QED  BY <1>1, <1>3, <1>4, Zenon DEF MadeBy, Calls, Range

(* The model is asked once more than the cap says at most, then under the  *)
(* forced choice, and never again after a completion that settled on a     *)
(* diagnosis, whatever it answers (tool_loop.py:77, 110-115).              *)
THEOREM CapIsKept == Spec => []AskedWithinCap
<1>1. LoopInv => AskedWithinCap
  <2> SUFFICES ASSUME LoopInv PROVE AskedWithinCap
    OBVIOUS
  <2>1. TypeOK /\ TurnsInv /\ TranscriptInv /\ AskedInv
    BY DEF LoopInv
  <2>2. PICK cap \in Nat, now \in Nat, c \in Nat :
           cap = max_turns /\ now = turn /\ c = Cardinality(Asked)
    <3>1. max_turns \in Nat /\ turn \in Nat
      BY <2>1, TurnsAssumption DEF TypeOK
    <3>2. Cardinality(Asked) \in Nat
      BY <2>1, FS_CardinalityType DEF AskedInv
    <3> QED  BY <3>1, <3>2
  <2>3. c <= now /\ now <= cap + 1
    BY <2>1, <2>2 DEF TypeOK, AskedInv
  <2>4. c = cap + 1 => forced
    BY <2>1, <2>2, <2>3 DEF TurnsInv, TypeOK
  <2>5. ASSUME NEW i \in Asked, NEW j \in Asked, NEW k \in DOMAIN tool_calls_so_far,
               i < j, LastSubmissionOf(k, i)
        PROVE  tool_calls_so_far[k].call.arguments = "null"
    <3>1. \A l \in DOMAIN tool_calls_so_far :
             MadeBy(l, i) <=> \E x \in Nat : Calls(messages, i, x, l)
      BY <2>1, MadeByCalls
    <3>2. SubmitsLast(messages, tool_calls_so_far, k, i)
      BY <2>5, <3>1 DEF LastSubmissionOf, SubmitsLast, IsSubmission, Submits
    <3>3. i \in Nat /\ j \in Nat /\ j \in DOMAIN messages /\ messages[j].role = "assistant"
      BY <2>1 DEF Asked, TypeOK
    <3> QED  BY <2>1, <2>5, <3>2, <3>3 DEF AskedInv, NullBefore
  <2> QED  BY <2>2, <2>3, <2>4, <2>5 DEF AskedWithinCap
<1> QED  BY <1>1, LoopCorrect, PTL

LEMMA CalledByCalls ==
    ASSUME NEW i \in DOMAIN messages, NEW j \in DOMAIN messages, NEW id \in Nat,
           messages \in Messages, messages[i] = Message("tool", <<id>>)
    PROVE  CalledBy(i, j) <=> \E x \in Nat : Calls(messages, j, x, id)
<1>1. messages[i].ids[1] = id
  BY DEF Message
<1>2. messages[j].ids \in Seq(Nat)
  <2>1. j \in 1..Len(messages)
    BY DEF Messages
  <2>2. messages[j] \in [role : {"system", "user", "assistant", "tool"}, ids : Seq(Nat)]
    BY <2>1, ElementOfSeq DEF Messages
  <2> QED  BY <2>2
<1>3. DOMAIN messages[j].ids \subseteq Nat
  BY <1>2
<1> QED  BY <1>1, <1>3, Zenon DEF CalledBy, Calls, Range

(* The transcript is answered call for call, in place and in order, at     *)
(* every point at which it is sent to the model or stored, whatever the    *)
(* model calls and however the tools fail (tool_loop.py:88-108).           *)
THEOREM TranscriptIsComplete == Spec => []TranscriptIsAnswered
<1>1. LoopInv => TranscriptIsAnswered
  <2> SUFFICES ASSUME LoopInv, pc \in {"loop", "conclude", "returned"}
               PROVE  /\ \A i \in DOMAIN messages :
                            messages[i].role = "assistant" => AnswersFollow(i)
                      /\ \A i \in DOMAIN messages : messages[i].role = "tool" =>
                            /\ \E j \in DOMAIN messages :
                                  /\ CalledBy(i, j)
                                  /\ \A l \in DOMAIN messages : CalledBy(i, l) => l = j
                            /\ \E k \in DOMAIN tool_calls_so_far : Answers(i, k)
                      /\ \A k \in DOMAIN tool_calls_so_far :
                            \E i \in DOMAIN messages : Answers(i, k)
                      /\ \A i, j \in DOMAIN messages, k, l \in DOMAIN tool_calls_so_far :
                            Answers(i, k) /\ Answers(j, l) => (i < j <=> k < l)
    BY DEF TranscriptIsAnswered
  <2>1. TypeOK /\ BatchInv /\ TranscriptInv
    BY DEF LoopInv
  <2>2. Len(batch) = 0
    BY <2>1 DEF BatchInv
  <2>3. PICK m \in Messages, n \in Nat, first \in Nat :
           m = messages /\ n = Len(m) /\ first = Len(tool_calls_so_far)
    BY <2>1 DEF TypeOK, Messages
  <2>4. Layout(m, first, 0)
    BY <2>1, <2>2, <2>3 DEF TranscriptInv
  <2>5. /\ DOMAIN tool_calls_so_far = 1..first /\ DOMAIN m = 1..n
        /\ 1..first \subseteq Nat /\ 1..n \subseteq Nat
    BY <2>1, <2>3 DEF TypeOK, Messages
  <2>6. \A i, x, id \in Nat : Calls(m, i, x, id) => id <= first /\ Tells(m, i + x, id)
    <3>1. \A i, x, id \in Nat : Calls(m, i, x, id) => id <= first
      BY <2>4 DEF Layout, InCallOrder
    <3> QED  BY <2>4, <3>1 DEF Layout, InPlace
  <2>7. \A i \in DOMAIN m, k \in 1..first : Answers(i, k) <=> Tells(m, i, k)
    BY <2>1, <2>3, <2>5 DEF Answers, Tells, TranscriptInv
  <2>8. ASSUME NEW i \in DOMAIN m, m[i].role = "assistant"
        PROVE  AnswersFollow(i)
    <3>1. m[i].ids \in Seq(Nat) /\ i \in Nat
      <4>1. i \in 1..Len(m)
        BY <2>3, <2>5
      <4>2. m[i] \in [role : {"system", "user", "assistant", "tool"}, ids : Seq(Nat)]
        BY <4>1, ElementOfSeq DEF Messages
      <4> QED  BY <2>5, <4>2
    <3>2. PICK size \in Nat : size = Len(m[i].ids) /\ DOMAIN m[i].ids = 1..size
      BY <3>1
    <3>3. ASSUME NEW x \in 1..size PROVE Tells(m, i + x, m[i].ids[x])
      <4>1. m[i].ids[x] \in Nat
        BY <3>1, <3>2, ElementOfSeq
      <4>2. Calls(m, i, x, m[i].ids[x])
        BY <2>8, <3>2 DEF Calls
      <4> QED  BY <2>6, <3>1, <4>1, <4>2
    <3>4. i + size <= n
      <4>1. CASE size = 0
        BY <2>5, <4>1
      <4>2. CASE size # 0
        <5>1. size \in 1..size
          BY <4>2
        <5>2. i + size \in 1..n
          BY <2>5, <3>3, <5>1 DEF Tells
        <5> QED  BY <5>2
      <4> QED  BY <4>1, <4>2
    <3> QED  BY <2>3, <3>2, <3>3, <3>4 DEF AnswersFollow, Tells
  <2>9. ASSUME NEW i \in DOMAIN m, m[i].role = "tool"
        PROVE  /\ \E j \in DOMAIN m :
                     CalledBy(i, j) /\ \A l \in DOMAIN m : CalledBy(i, l) => l = j
               /\ \E k \in 1..first : Answers(i, k)
    <3>1. PICK id \in 1..first : Tells(m, i, id)
      BY <2>4, <2>9 DEF Layout, InTurn
    <3>2. id \in Nat /\ m[i] = Message("tool", <<id>>)
      BY <3>1 DEF Tells
    <3>3. \A j \in DOMAIN m : CalledBy(i, j) <=> \E x \in Nat : Calls(m, j, x, id)
      BY <2>3, <3>2, CalledByCalls
    <3>4. id \in 1..(first + 0)
      OBVIOUS
    <3>5. PICK j \in Nat, x \in Nat : Calls(m, j, x, id)
      BY <2>4, <3>4 DEF Layout, InCallOrder
    <3>6. ASSUME NEW l \in DOMAIN m, NEW y \in Nat, Calls(m, l, y, id)
          PROVE  l = j
      <4>1. l \in Nat
        BY <2>5
      <4>2. \A a, b, v, w, c, d \in Nat :
               a < b /\ Calls(m, a, v, c) /\ Calls(m, b, w, d) => c < d
        BY <2>4 DEF Layout, InCallOrder
      <4>3. ~(l < j)
        <5>1. l < j => id < id
          BY <3>2, <3>5, <3>6, <4>1, <4>2
        <5> QED  BY <3>2, <5>1
      <4>4. ~(j < l)
        <5>1. j < l => id < id
          BY <3>2, <3>5, <3>6, <4>1, <4>2
        <5> QED  BY <3>2, <5>1
      <4> QED  BY <4>1, <4>3, <4>4
    <3>7. j \in DOMAIN m
      BY <3>5 DEF Calls
    <3> QED  BY <2>7, <3>1, <3>3, <3>5, <3>6, <3>7
  <2>10. ASSUME NEW k \in 1..first PROVE \E i \in DOMAIN m : Answers(i, k)
    <3>1. k \in 1..(first + 0) /\ k \in Nat
      OBVIOUS
    <3>2. PICK i \in Nat, x \in Nat : Calls(m, i, x, k)
      BY <2>4, <3>1 DEF Layout, InCallOrder
    <3>3. Tells(m, i + x, k)
      BY <2>6, <3>1, <3>2
    <3>4. i + x \in DOMAIN m
      BY <3>3 DEF Tells
    <3> QED  BY <2>7, <3>3, <3>4
  <2>11. ASSUME NEW i \in DOMAIN m, NEW j \in DOMAIN m, NEW k \in 1..first, NEW l \in 1..first,
                Answers(i, k), Answers(j, l)
         PROVE  i < j <=> k < l
    <3>1. Tells(m, i, k) /\ Tells(m, j, l)
      BY <2>7, <2>11
    <3>2. i \in Nat /\ j \in Nat /\ k \in Nat /\ l \in Nat
      BY <2>5
    <3>3. \A a, b, c, d \in Nat : a < b /\ Tells(m, a, c) /\ Tells(m, b, d) => c < d
      BY <2>4 DEF Layout, InTurn
    <3>4. i < j => k < l
      BY <3>1, <3>2, <3>3
    <3>5. j < i => l < k
      BY <3>1, <3>2, <3>3
    <3>6. i = j => k = l
      BY <3>1, <3>2 DEF Tells, Message
    <3> QED  BY <3>2, <3>4, <3>5, <3>6
  <2> QED  BY <2>3, <2>5, <2>8, <2>9, <2>10, <2>11
<1> QED  BY <1>1, LoopCorrect, PTL
-----------------------------------------------------------------------------
(* The walk of MockLLMClient: as many steps of the script as the cap allows*)
(* and then the diagnosis.                                                 *)
ScriptSteps == IF max_turns < Len(Script) THEN max_turns ELSE Len(Script)

Followed(k) == \A i \in 1..k : tool_calls_so_far[i].call.name = Script[i]

Scripted ==
    /\ pc = "loop" /\ batch = <<>> /\ diagnosis = NoDiagnosis /\ forced = FALSE
    /\ turn = Len(tool_calls_so_far) /\ turn <= ScriptSteps
    /\ Followed(Len(tool_calls_so_far))

Stepping ==
    /\ pc = "execute" /\ Len(batch) = 1 /\ diagnosis = NoDiagnosis /\ forced = FALSE
    /\ turn = Len(tool_calls_so_far) + 1 /\ turn <= ScriptSteps
    /\ batch[1].call.name = Script[turn]
    /\ Followed(Len(tool_calls_so_far))

AtTheEnd ==
    /\ turn = ScriptSteps + 1
    /\ forced = (max_turns <= Len(Script))
    /\ Followed(ScriptSteps)

Submitting ==
    /\ pc = "execute" /\ Len(batch) = 1 /\ batch[1].call = Call(TERMINAL_TOOL_NAME, "usable")
    /\ Len(tool_calls_so_far) = ScriptSteps /\ AtTheEnd

Submitted ==
    /\ pc \in {"loop", "conclude"} \/ (pc = "returned" /\ result = "submitted")
    /\ diagnosis = "usable"
    /\ Len(tool_calls_so_far) = ScriptSteps + 1 /\ AtTheEnd
    /\ tool_calls_so_far[ScriptSteps + 1].call.name = TERMINAL_TOOL_NAME

MockInv ==
    llm_client = "MockLLMClient" => Scripted \/ Stepping \/ Submitting \/ Submitted

LEMMA ScriptStepsIs ==
    ASSUME max_turns \in Nat
    PROVE  /\ ScriptSteps \in 0..4 /\ ScriptSteps <= max_turns
           /\ ScriptSteps = 4 \/ ScriptSteps = max_turns
BY DEF ScriptSteps, Script

(* What the mock client answers, in one message with one call.             *)
LEMMA MockAsk ==
    ASSUME TypeOK, llm_client = "MockLLMClient", NEW force \in BOOLEAN,
           \E completion \in Completions(llm_client, Len(tool_calls_so_far), force) :
              /\ TakeCompletion(completion)
              /\ pc' = (IF completion = <<>> THEN "loop" ELSE "execute"),
           NEW first \in Nat, first = Len(tool_calls_so_far)
    PROVE  /\ pc' = "execute" /\ Len(batch') = 1
           /\ turn' = turn + 1
           /\ UNCHANGED <<settings, diagnosis, tool_calls_so_far, result>>
           /\ force \/ first >= 4 => batch'[1].call = Call(TERMINAL_TOOL_NAME, "usable")
           /\ ~(force \/ first >= 4) => batch'[1].call = Call(Script[first + 1], "falsy")
<1>1. Len(Script) = 4
  BY DEF Script
<1>2. PICK c : /\ TakeCompletion(<<c>>) /\ pc' = "execute"
               /\ force \/ first >= 4 => c = Call(TERMINAL_TOOL_NAME, "usable")
               /\ ~(force \/ first >= 4) => c = Call(Script[first + 1], "falsy")
  <2>1. TakeCompletion(MockCompletion(first, force))
        /\ pc' = (IF MockCompletion(first, force) = <<>> THEN "loop" ELSE "execute")
    BY DEF Completions
  <2>2. CASE force \/ first >= 4
    <3>1. MockCompletion(first, force) = <<Call(TERMINAL_TOOL_NAME, "usable")>>
      BY <1>1, <2>2 DEF MockCompletion
    <3>2. TakeCompletion(<<Call(TERMINAL_TOOL_NAME, "usable")>>) /\ pc' = "execute"
      BY <2>1, <3>1
    <3> QED  BY <2>2, <3>2
  <2>3. CASE ~(force \/ first >= 4)
    <3>1. MockCompletion(first, force) = <<Call(Script[first + 1], "falsy")>>
      BY <1>1, <2>3 DEF MockCompletion
    <3>2. TakeCompletion(<<Call(Script[first + 1], "falsy")>>) /\ pc' = "execute"
      BY <2>1, <3>1
    <3> QED  BY <2>3, <3>2
  <2> QED  BY <2>2, <2>3
<1>3. /\ turn' = turn + 1
      /\ batch' = [i \in DOMAIN <<c>> |-> [id |-> first + i, call |-> <<c>>[i]]]
      /\ UNCHANGED <<settings, diagnosis, tool_calls_so_far, result>>
  BY <1>2 DEF TakeCompletion, TurnsAfter
<1>4. DOMAIN <<c>> = 1..1 /\ 1 \in 1..1 /\ <<c>>[1] = c
  OBVIOUS
<1>5. batch'[1].call = c /\ Len(batch') = 1
  BY <1>3, <1>4
<1> QED  BY <1>2, <1>3, <1>5
LEMMA MockInit == Init => MockInv
<1> SUFFICES ASSUME Init, llm_client = "MockLLMClient" PROVE Scripted
  BY DEF MockInv
<1>1. max_turns \in Nat
  BY TurnsAssumption DEF Init
<1>2. Len(tool_calls_so_far) = 0 /\ Followed(0)
  BY DEF Init, Followed
<1>3. turn = 0 /\ 0 <= ScriptSteps
  BY <1>1, ScriptStepsIs DEF Init
<1> QED  BY <1>2, <1>3 DEF Init, Scripted

LEMMA MockStep == LoopInv /\ MockInv /\ [Next]_vars => MockInv'
<1> SUFFICES ASSUME LoopInv, MockInv, [Next]_vars, llm_client' = "MockLLMClient"
             PROVE  Scripted' \/ Stepping' \/ Submitting' \/ Submitted'
  BY DEF MockInv
<1>1. TypeOK /\ BatchInv
  BY DEF LoopInv
<1>2. UNCHANGED settings
  BY DEF Next, Turn, ForcedTurn, TakeCompletion, ModelFails, ExecuteCall, Conclude, vars
<1>3. llm_client = "MockLLMClient" /\ max_turns' = max_turns
  BY <1>2 DEF settings
<1>4. PICK cap \in Nat, now \in Nat, first \in Nat, steps \in 0..4 :
         /\ cap = max_turns /\ now = turn /\ first = Len(tool_calls_so_far)
         /\ steps = ScriptSteps /\ steps <= cap /\ (steps = 4 \/ steps = cap)
  <2>1. max_turns \in Nat /\ turn \in Nat /\ Len(tool_calls_so_far) \in Nat
    BY <1>1, TurnsAssumption DEF TypeOK
  <2> QED  BY <2>1, ScriptStepsIs
<1>5. ScriptSteps' = steps /\ Len(Script) = 4
  BY <1>3, <1>4 DEF ScriptSteps, Script
<1>6. CASE Turn \/ ForcedTurn
  <2>1. Scripted
    BY <1>3, <1>6
       DEF MockInv, Scripted, Stepping, Submitting, Submitted, Turn, ForcedTurn, NoDiagnosis
  <2>2. now = first /\ first <= steps
    BY <1>4, <2>1 DEF Scripted
  <2>3. PICK force \in BOOLEAN :
           /\ \E completion \in Completions(llm_client, Len(tool_calls_so_far), force) :
                 /\ TakeCompletion(completion)
                 /\ pc' = (IF completion = <<>> THEN "loop" ELSE "execute")
           /\ force <=> first >= cap
           /\ forced' = force
    <3>1. CASE Turn
      <4>1. first < cap
        BY <1>4, <2>2, <3>1 DEF Turn, CapReached
      <4>2. forced' = FALSE
        BY <2>1, <3>1 DEF Turn, Scripted
      <4>3. \E completion \in Completions(llm_client, Len(tool_calls_so_far), FALSE) :
               /\ TakeCompletion(completion)
               /\ pc' = (IF completion = <<>> THEN "loop" ELSE "execute")
        BY <3>1 DEF Turn
      <4>4. FALSE \in BOOLEAN /\ (FALSE <=> first >= cap)
        BY <4>1
      <4> QED  BY <4>2, <4>3, <4>4
    <3>2. CASE ForcedTurn
      <4>1. first >= cap
        BY <1>4, <2>2, <3>2 DEF ForcedTurn, CapReached
      <4>2. PICK completion \in Completions(llm_client, first, TRUE) :
               /\ TakeCompletion(completion)
               /\ pc' = (IF completion = <<>> THEN "conclude" ELSE "execute")
        BY <1>4, <3>2 DEF ForcedTurn
      <4>3. completion # <<>>
        BY <1>3 DEF Completions, MockCompletion
      <4>4. pc' = (IF completion = <<>> THEN "loop" ELSE "execute")
        BY <4>2, <4>3
      <4>5. \E d \in Completions(llm_client, Len(tool_calls_so_far), TRUE) :
               /\ TakeCompletion(d)
               /\ pc' = (IF d = <<>> THEN "loop" ELSE "execute")
        BY <1>4, <4>2, <4>4
      <4>6. TRUE \in BOOLEAN /\ (TRUE <=> first >= cap) /\ forced' = TRUE
        BY <3>2, <4>1 DEF ForcedTurn
      <4> QED  BY <4>5, <4>6
    <3> QED  BY <1>6, <3>1, <3>2
  <2>4. /\ pc' = "execute" /\ Len(batch') = 1
        /\ turn' = turn + 1
        /\ UNCHANGED <<settings, diagnosis, tool_calls_so_far, result>>
        /\ force \/ first >= 4 => batch'[1].call = Call(TERMINAL_TOOL_NAME, "usable")
        /\ ~(force \/ first >= 4) => batch'[1].call = Call(Script[first + 1], "falsy")
    BY <1>1, <1>3, <1>4, <2>3, MockAsk
  <2>5. CASE force \/ first >= 4
    <3>1. first = steps
      BY <1>4, <2>2, <2>3, <2>5
    <3>2. forced' = (cap <= 4)
      <4>1. force <=> cap <= 4
        BY <1>4, <2>2, <2>3, <3>1
      <4> QED  BY <2>3, <4>1
    <3>3. Followed(steps)'
      BY <1>4, <2>1, <2>4, <3>1 DEF Followed, Scripted
    <3>4. Submitting'
      BY <1>3, <1>4, <1>5, <2>2, <2>4, <2>5, <3>1, <3>2, <3>3 DEF Submitting, AtTheEnd
    <3> QED  BY <3>4
  <2>6. CASE ~(force \/ first >= 4)
    <3>1. first + 1 <= steps /\ turn' = first + 1
      <4>1. first < cap /\ first < 4
        BY <2>3, <2>6
      <4>2. first + 1 <= steps
        BY <1>4, <4>1
      <4>3. turn' = first + 1
        BY <1>4, <2>2, <2>4
      <4> QED  BY <4>2, <4>3
    <3>2. batch'[1].call.name = Script[first + 1]
      BY <2>4, <2>6 DEF Call
    <3>3. Followed(first)'
      BY <1>4, <2>1, <2>4 DEF Followed, Scripted
    <3>4. forced' = FALSE /\ diagnosis' = NoDiagnosis
      BY <2>1, <2>3, <2>4, <2>6 DEF Scripted
    <3>5. Stepping'
      BY <1>4, <1>5, <2>4, <3>1, <3>2, <3>3, <3>4 DEF Stepping
    <3> QED  BY <3>5
  <2> QED  BY <2>5, <2>6
<1>7. CASE ModelFails
  BY <1>3, <1>7 DEF ModelFails
<1>8. CASE ExecuteCall
  <2>1. Stepping \/ Submitting
    BY <1>3, <1>8 DEF MockInv, Scripted, Stepping, Submitting, Submitted, ExecuteCall
  <2>2. batch # <<>> /\ Len(batch) = 1
    BY <1>1, <1>8, <2>1 DEF ExecuteCall, BatchInv, Stepping, Submitting
  <2>3. /\ Len(tool_calls_so_far') = first + 1
        /\ \A k \in 1..first : tool_calls_so_far'[k] = tool_calls_so_far[k]
        /\ tool_calls_so_far'[first + 1].call = batch[1].call
        /\ batch' = <<>>
        /\ diagnosis' = DiagnosisAfter(batch[1].call)
        /\ UNCHANGED <<forced, turn>>
    <3>1. /\ Len(tool_calls_so_far') = first + 1
          /\ \A k \in 1..first : tool_calls_so_far'[k] = tool_calls_so_far[k]
          /\ tool_calls_so_far'[first + 1].call = batch[1].call
          /\ diagnosis' = DiagnosisAfter(batch[1].call)
      BY <1>1, <1>4, <1>8, <2>2, ExecuteEffect
    <3>2. batch' = <<>>
      <4>1. batch' \in Seq([id : Nat, call : ToolCall]) /\ Len(batch) = Len(batch') + 1
        BY <1>1, <1>8, <2>2, ExecuteEffect
      <4>2. Len(batch') = 0
        BY <2>2, <4>1
      <4> QED  BY <4>1, <4>2, EmptySeq
    <3> QED  BY <1>8, <3>1, <3>2 DEF ExecuteCall
  <2>4. pc' = IF forced THEN "conclude" ELSE "loop"
    BY <1>8, <2>2 DEF ExecuteCall
  <2>5. CASE Stepping
    <3>1. now = first + 1 /\ now <= steps /\ forced = FALSE /\ diagnosis = NoDiagnosis
      BY <1>4, <2>5 DEF Stepping
    <3>2. batch[1].call.name = Script[first + 1]
      BY <1>4, <2>5, <3>1 DEF Stepping
    <3>3. Script[first + 1] # TERMINAL_TOOL_NAME
      <4>1. first + 1 \in 1..4
        BY <1>4, <3>1
      <4> QED  BY <4>1 DEF Script, TERMINAL_TOOL_NAME
    <3>4. diagnosis' = NoDiagnosis
      BY <2>3, <3>1, <3>2, <3>3 DEF DiagnosisAfter
    <3>5. Followed(first + 1)'
      BY <1>4, <2>3, <2>5, <3>2 DEF Followed, Stepping
    <3>6. Scripted'
      BY <1>4, <1>5, <2>3, <2>4, <3>1, <3>4, <3>5 DEF Scripted
    <3> QED  BY <3>6
  <2>6. CASE Submitting
    <3>1. first = steps /\ now = steps + 1 /\ forced = (cap <= 4)
      BY <1>4, <1>5, <2>6 DEF Submitting, AtTheEnd
    <3>2. batch[1].call = Call(TERMINAL_TOOL_NAME, "usable")
      BY <2>6 DEF Submitting
    <3>3. diagnosis' = "usable" /\ tool_calls_so_far'[first + 1].call.name = TERMINAL_TOOL_NAME
      BY <2>3, <3>2 DEF DiagnosisAfter, Call
    <3>4. Followed(steps)'
      BY <1>4, <2>3, <2>6, <3>1 DEF Followed, Submitting, AtTheEnd
    <3>5. pc' \in {"loop", "conclude"}
      BY <1>1, <2>4 DEF TypeOK
    <3>6. AtTheEnd'
      BY <1>3, <1>4, <1>5, <2>3, <3>1, <3>4 DEF AtTheEnd
    <3>7. Submitted'
      BY <1>4, <1>5, <2>3, <3>1, <3>3, <3>5, <3>6 DEF Submitted
    <3> QED  BY <3>7
  <2> QED  BY <2>1, <2>5, <2>6
<1>9. CASE Conclude
  <2>1. Submitted
    BY <1>3, <1>9 DEF MockInv, Scripted, Stepping, Submitting, Submitted, Conclude
  <2>2. /\ pc' = "returned" /\ result' = "submitted"
        /\ UNCHANGED <<settings, forced, turn, diagnosis, tool_calls_so_far>>
    BY <1>9, <2>1 DEF Conclude, Defaulted, Submitted
  <2> QED  BY <1>3, <1>4, <1>5, <2>1, <2>2 DEF Submitted, AtTheEnd, Followed
<1>10. CASE UNCHANGED vars
  BY <1>3, <1>4, <1>5, <1>10
     DEF vars, MockInv, Scripted, Stepping, Submitting, Submitted, AtTheEnd, Followed
<1> QED  BY <1>6, <1>7, <1>8, <1>9, <1>10 DEF Next

(* The demo client leads the loop to a submitted diagnosis by the script,  *)
(* cut off where the cap says, whatever the tools answer                   *)
(* (llm_client.py:86-91).                                                  *)
THEOREM MockAlwaysDiagnoses == Spec => []MockDiagnoses
<1>1. LoopInv /\ MockInv => MockDiagnoses
  <2> SUFFICES ASSUME LoopInv, MockInv, llm_client = "MockLLMClient" PROVE
        /\ pc # "raised"
        /\ pc = "returned" =>
             LET steps == IF max_turns < Len(Script) THEN max_turns ELSE Len(Script)
             IN  /\ result = "submitted"
                 /\ turn = steps + 1
                 /\ forced = (max_turns <= Len(Script))
                 /\ [i \in DOMAIN tool_calls_so_far |-> tool_calls_so_far[i].call.name]
                      = Append(SubSeq(Script, 1, steps), TERMINAL_TOOL_NAME)
    BY DEF MockDiagnoses
  <2>1. pc # "raised"
    BY DEF MockInv, Scripted, Stepping, Submitting, Submitted
  <2>2. SUFFICES ASSUME pc = "returned"
                 PROVE  /\ result = "submitted"
                        /\ turn = ScriptSteps + 1
                        /\ forced = (max_turns <= Len(Script))
                        /\ [i \in DOMAIN tool_calls_so_far |-> tool_calls_so_far[i].call.name]
                             = Append(SubSeq(Script, 1, ScriptSteps), TERMINAL_TOOL_NAME)
    BY <2>1 DEF ScriptSteps
  <2>3. Submitted
    BY <2>2 DEF MockInv, Scripted, Stepping, Submitting
  <2>4. PICK steps \in 0..4 : steps = ScriptSteps
    BY ScriptStepsIs, TurnsAssumption DEF LoopInv, TypeOK
  <2>5. DOMAIN tool_calls_so_far = 1..(steps + 1)
    BY <2>3, <2>4 DEF Submitted, LoopInv, TypeOK
  <2>6. /\ \A i \in 1..steps : tool_calls_so_far[i].call.name = Script[i]
        /\ tool_calls_so_far[steps + 1].call.name = TERMINAL_TOOL_NAME
    BY <2>3, <2>4 DEF Submitted, AtTheEnd, Followed
  <2>7. Append(SubSeq(Script, 1, steps), TERMINAL_TOOL_NAME)
          = [i \in 1..(steps + 1) |-> IF i <= steps THEN Script[i] ELSE TERMINAL_TOOL_NAME]
    BY DEF Script
  <2>8. [i \in DOMAIN tool_calls_so_far |-> tool_calls_so_far[i].call.name]
          = [i \in 1..(steps + 1) |-> IF i <= steps THEN Script[i] ELSE TERMINAL_TOOL_NAME]
    <3>1. \A i \in 1..(steps + 1) :
             tool_calls_so_far[i].call.name
               = IF i <= steps THEN Script[i] ELSE TERMINAL_TOOL_NAME
      BY <2>6
    <3> QED  BY <2>5, <3>1
  <2> QED  BY <2>2, <2>3, <2>4, <2>7, <2>8 DEF Submitted, AtTheEnd
<1>2. Init => LoopInv /\ MockInv
  BY TypeInit, DiagnosisInit, TranscriptInit, MockInit DEF LoopInv
<1>3. LoopInv /\ MockInv /\ [Next]_vars => (LoopInv /\ MockInv)'
  BY TypeStep, DiagnosisStep, TranscriptStep, MockStep DEF LoopInv
<1> QED  BY <1>1, <1>2, <1>3, PTL DEF Spec
-----------------------------------------------------------------------------
(* No completion holds more calls than the bound: the mock's holds one.    *)
LEMMA CompletionSize ==
    ASSUME NEW client, NEW step \in Nat, NEW force \in BOOLEAN,
           NEW completion \in Completions(client, step, force)
    PROVE  Len(completion) <= MaxCalls
<1>1. CASE client = "MockLLMClient"
  <2>1. completion = MockCompletion(step, force)
    BY <1>1 DEF Completions
  <2>2. Len(completion) = 1
    BY <2>1 DEF MockCompletion
  <2> QED  BY <2>2, ToolsAssumption
<1>2. CASE client # "MockLLMClient"
  <2>1. PICK n \in 0..MaxCalls : completion \in [1..n -> ModelCalls]
    BY <1>2 DEF Completions, ModelCompletions
  <2>2. Len(completion) = n
    BY <2>1, ToolsAssumption
  <2> QED  BY <2>1, <2>2, ToolsAssumption
<1> QED  BY <1>1, <1>2

LEMMA AskSize ==
    ASSUME TypeOK, Ask
    PROVE  /\ Len(batch') \in Nat /\ Len(batch') <= MaxCalls
           /\ turn' = turn + 1 /\ max_turns' = max_turns
<1>1. PICK first \in Nat : first = Len(tool_calls_so_far)
  BY DEF TypeOK
<1>2. PICK force \in BOOLEAN :
         \E completion \in Completions(llm_client, first, force) :
            TakeCompletion(completion)
  BY <1>1, Zenon DEF Ask
<1>3. PICK completion \in Completions(llm_client, first, force) :
         TakeCompletion(completion)
  BY <1>2
<1>4. completion \in Seq(ToolCall)
  BY <1>1, <1>3, CompletionType
<1>5. PICK size \in Nat : size = Len(completion)
  BY <1>4
<1>6. size <= MaxCalls
  BY <1>3, <1>5, CompletionSize
<1>7. batch' = [i \in DOMAIN completion |-> [id |-> first + i, call |-> completion[i]]]
  BY <1>1, <1>3 DEF TakeCompletion
<1>8. DOMAIN completion = 1..size
  BY <1>4, <1>5
<1>9. Len(batch') = size
  BY <1>7, <1>8
<1>10. turn' = turn + 1 /\ max_turns' = max_turns
  BY <1>3 DEF TakeCompletion, TurnsAfter, settings
<1> QED  BY <1>6, <1>9, <1>10

(* A completion costs a turn, which is worth more than all its calls.      *)
LEMMA TurnIsWorthMore ==
    ASSUME NEW calls \in Nat, NEW size \in Nat, NEW left \in Nat, size <= calls
    PROVE  /\ 1 + size + (calls + 1) * left < 1 + 0 + (calls + 1) * (left + 1)
           /\ (calls + 1) * left \in Nat
<1>1. PICK all \in Nat : all = (calls + 1) * left
  OBVIOUS
<1>2. (calls + 1) * (left + 1) = (calls + 1) * left + (calls + 1)
  OBVIOUS
<1>3. 1 + size + all < 1 + 0 + (all + (calls + 1))
  BY <1>1
<1>4. (calls + 1) * (left + 1) = all + (calls + 1)
  BY <1>1, <1>2, Zenon
<1> QED  BY <1>1, <1>3, <1>4, Zenon

LEMMA StepUsesUp ==
    ASSUME TypeOK, TurnsInv, BatchInv, [Next]_vars
    PROVE  [Remaining' < Remaining]_vars
<1>1. PICK cap \in Nat, now \in Nat, calls \in Nat, size \in Nat :
         cap = max_turns /\ now = turn /\ calls = MaxCalls /\ size = Len(batch)
  <2>1. max_turns \in Nat /\ turn \in Nat
    BY TurnsAssumption DEF TypeOK
  <2>2. Len(batch) \in Nat
    BY DEF TypeOK
  <2>3. MaxCalls \in Nat
    BY ToolsAssumption
  <2> QED  BY <2>1, <2>2, <2>3, Zenon
<1>2. now <= cap + 1
  BY <1>1 DEF TypeOK
<1>3. ASSUME pc \notin {"returned", "raised"}
      PROVE  /\ Remaining = 1 + size + (calls + 1) * (cap + 1 - now)
             /\ Remaining \in Nat /\ Remaining > 0
  <2>1. PICK left \in Nat : left = cap + 1 - now
    BY <1>2
  <2>2. (calls + 1) * left \in Nat
    BY TurnIsWorthMore
  <2>3. Remaining = 1 + size + (calls + 1) * (cap + 1 - now)
    BY <1>1, <1>3, Zenon DEF Remaining, Done
  <2>4. Remaining = 1 + size + (calls + 1) * left
    BY <2>1, <2>3, Zenon
  <2>5. PICK all \in Nat : all = (calls + 1) * left
    BY <2>2
  <2>6. Remaining = 1 + size + all
    BY <2>4, <2>5, Zenon
  <2>7. Remaining \in Nat /\ Remaining > 0
    BY <2>6
  <2> QED  BY <2>3, <2>7
<1>4. CASE Turn \/ ForcedTurn
  <2>1. Ask
    BY <1>4, AskIs
  <2>2. /\ pc = "loop" /\ forced = FALSE /\ batch = <<>> /\ now <= cap
    BY <1>1, <1>4 DEF Turn, ForcedTurn, TurnsInv, BatchInv
  <2>3. PICK more \in Nat : more = Len(batch') /\ more <= calls
    BY <1>1, <2>1, AskSize
  <2>4. max_turns' = cap /\ turn' = now + 1
    BY <1>1, <2>1, AskSize
  <2>5. pc' \in {"loop", "execute", "conclude"}
    BY <1>4 DEF Turn, ForcedTurn
  <2>6. PICK left \in Nat : left = cap - now
    BY <2>2
  <2>7. size = 0 /\ cap + 1 - now = left + 1 /\ cap + 1 - (now + 1) = left
    BY <1>1, <2>2, <2>6
  <2>8. Remaining = 1 + 0 + (calls + 1) * (left + 1)
    <3>1. Remaining = 1 + size + (calls + 1) * (cap + 1 - now)
      BY <1>3, <2>2
    <3> QED  BY <2>7, <3>1, Zenon
  <2>9. Remaining' = 1 + more + (calls + 1) * left
    <3>1. Remaining' = 1 + Len(batch') + (calls + 1) * (max_turns' + 1 - turn')
      BY <1>1, <2>5, Zenon DEF Remaining, Done
    <3>2. Remaining' = 1 + more + (calls + 1) * (cap + 1 - (now + 1))
      BY <2>3, <2>4, <3>1, Zenon
    <3> QED  BY <2>7, <3>2, Zenon
  <2>10. 1 + more + (calls + 1) * left < 1 + 0 + (calls + 1) * (left + 1)
    BY <2>3, TurnIsWorthMore
  <2> QED  BY <2>8, <2>9, <2>10, Zenon
<1>5. CASE ModelFails \/ Conclude
  <2>1. pc \notin {"returned", "raised"} /\ pc' \in {"returned", "raised"}
    BY <1>5 DEF ModelFails, Conclude
  <2>2. Remaining' = 0
    BY <2>1 DEF Remaining, Done
  <2>3. Remaining \in Nat /\ Remaining > 0
    BY <1>3, <2>1
  <2> QED  BY <2>2, <2>3
<1>6. CASE ExecuteCall
  <2>1. pc = "execute" /\ batch # <<>>
    BY <1>6 DEF ExecuteCall, BatchInv
  <2>2. /\ Len(batch) = Len(batch') + 1
        /\ pc' = "execute" \/ pc' = "conclude" \/ pc' = "loop"
        /\ batch' \in Seq([id : Nat, call : ToolCall])
    BY <1>6, <2>1, ExecuteEffect, Zenon
  <2>3. PICK more \in Nat : more = Len(batch') /\ size = more + 1
    BY <1>1, <2>2
  <2>4. max_turns' = cap /\ turn' = now
    BY <1>1, <1>6 DEF ExecuteCall, settings
  <2>5. PICK left \in Nat : left = cap + 1 - now
    BY <1>2
  <2>6. PICK all \in Nat : all = (calls + 1) * left
    BY TurnIsWorthMore
  <2>7. Remaining = 1 + size + all
    <3>1. Remaining = 1 + size + (calls + 1) * (cap + 1 - now)
      BY <1>3, <2>1
    <3> QED  BY <2>5, <2>6, <3>1, Zenon
  <2>8. Remaining' = 1 + more + all
    <3>1. Remaining' = 1 + Len(batch') + (calls + 1) * (max_turns' + 1 - turn')
      <4>1. pc' \notin {"returned", "raised"}
        BY <2>2
      <4> QED  BY <1>1, <4>1, Zenon DEF Remaining, Done
    <3> QED  BY <2>3, <2>4, <2>5, <2>6, <3>1, Zenon
  <2> QED  BY <2>3, <2>7, <2>8
<1>7. CASE UNCHANGED vars
  BY <1>7
<1> QED  BY <1>4, <1>5, <1>6, <1>7 DEF Next

(* Every step of the loop uses up a turn, a call or the end, for every cap *)
(* and every length of completions: no model, however it answers, makes an *)
(* investigation longer than turns times calls.                            *)
THEOREM EveryStepUsesUp == Spec => StepsRunOut
<1>1. TypeOK /\ TurnsInv /\ BatchInv /\ [Next]_vars => [Remaining' < Remaining]_vars
  BY StepUsesUp
<1> QED  BY <1>1, TypeCorrect, TurnsCorrect, PTL DEF Spec, StepsRunOut
=============================================================================
