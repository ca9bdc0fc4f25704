-------------------------- MODULE ProviderMessages --------------------------
(***************************************************************************)
(* What the messages of a compiled prompt become on their way to a model   *)
(* provider: the router's clean-up, the body of an Anthropic request with  *)
(* its thinking blocks and cache breakpoints, and the items of an OpenAI   *)
(* chat or Responses request.  Pure operators; ProviderRequests sends.     *)
(*                                                                         *)
(* A text, an image and a call are names.  Reasoning is the sequence of    *)
(* the thoughts it was put together from, and a signature says which       *)
(* reasoning the provider signed.  The item id, status and summary of the  *)
(* Responses API travel with their signature.  The system message and the  *)
(* tools come before all of this and never change here.                    *)
(***************************************************************************)
EXTENDS Naturals, Sequences, FiniteSets, SequencesExt

Nobody == "none"
NoSignature == [by |-> Nobody, of |-> <<>>]
NoText == <<>>
NoCall == [pass |-> 0, n |-> 0, raw |-> FALSE]

Message(role) ==
    [role |-> role, text |-> NoText, image |-> NoText, think |-> <<>>,
     sign |-> NoSignature, calls |-> <<>>, call |-> NoCall]

Calls(m) == ToSet(m.calls)
EachMessage(op(_), messages) == FlattenSeq([i \in DOMAIN messages |-> op(messages[i])])

-----------------------------------------------------------------------------
(* The router: sanitizeProviderMessages *)

isAssistantPlaceholderMessage(m) ==
    /\ m.role = "assistant"
    /\ m.calls = <<>> /\ m.image = NoText /\ m.text = NoText
    /\ m.think = <<>> /\ m.sign = NoSignature

isAssistantPrefillMessage(m) ==
    /\ m.role = "assistant"
    /\ m.calls = <<>>
    /\ m.text # NoText \/ m.think # <<>>

mergeProviderReasoning(left, right) ==
    IF right \in {left, <<>>} THEN left ELSE left \o right

mergeProviderReasoningMetadata(left, right) ==
    CASE left = NoSignature -> right
      [] left # NoSignature /\ right \in {left, NoSignature} -> left
      [] OTHER -> NoSignature

canMergeProviderAssistantToolCalls(last, m) ==
    /\ last.role = "assistant" /\ last.calls # <<>>
    /\ m.role = "assistant" /\ m.calls # <<>>
    /\ m.text = NoText /\ m.image = NoText

mergeProviderAssistantToolCalls(last, m) ==
    [last EXCEPT !.calls = @ \o m.calls,
                 !.think = mergeProviderReasoning(@, m.think),
                 !.sign = mergeProviderReasoningMetadata(@, m.sign)]

mergeAdjacentAssistantToolCallMessages(messages) ==
    LET step(out, m) ==
            IF out # <<>> /\ canMergeProviderAssistantToolCalls(Last(out), m)
            THEN [out EXCEPT ![Len(out)] = mergeProviderAssistantToolCalls(@, m)]
            ELSE Append(out, m)
    IN  FoldLeft(step, <<>>, messages)

\* The message whose calls the tool message at i may answer: the last one
\* before it that is no tool message, 0 when there is none.
askedBy(messages, i) ==
    LET others == {j \in 1..(i - 1) : messages[j].role # "tool"}
    IN  IF others = {} THEN 0 ELSE CHOOSE j \in others : \A k \in others : k <= j

answeredBy(messages, i) ==
    {messages[j].call : j \in {k \in (i + 1)..Len(messages) :
        messages[k].role = "tool" /\ askedBy(messages, k) = i}}

\* A call without its result right behind it goes, and a result behind a
\* message with calls that answers none of them.
trimDanglingAssistantToolCalls(messages) ==
    LET asks(i) == messages[i].calls # <<>>
        empty(i) == messages[i].text = NoText /\ messages[i].think = <<>>
        stays(i) ==
            /\ asks(i) => ~empty(i) \/ Calls(messages[i]) \cap answeredBy(messages, i) # {}
            /\ LET o == askedBy(messages, i)
               IN  messages[i].role = "tool" /\ o > 0 =>
                       (asks(o) => messages[i].call \in Calls(messages[o]))
        trimmed(i) == [messages[i] EXCEPT
            !.calls = SelectSeq(@, LAMBDA c : c \in answeredBy(messages, i))]
    IN  FlattenSeq([i \in DOMAIN messages |-> IF stays(i) THEN <<trimmed(i)>> ELSE <<>>])

withoutTrailingPrefill(messages) ==
    LET kept == {i \in DOMAIN messages : ~isAssistantPrefillMessage(messages[i])}
        last == CHOOSE i \in kept \cup {0} : \A j \in kept : j <= i
    IN  SubSeq(messages, 1, last)

sanitizeProviderMessages(messages) ==
    withoutTrailingPrefill(
        trimDanglingAssistantToolCalls(
            mergeAdjacentAssistantToolCallMessages(
                SelectSeq(messages, LAMBDA m : ~isAssistantPlaceholderMessage(m)))))

hasReasoningFields(m) == m.think # <<>> \/ m.sign # NoSignature

rectifyMessagesForThinkingSignature(messages) ==
    [i \in DOMAIN messages |->
        IF messages[i].role = "assistant"
        THEN [messages[i] EXCEPT !.think = <<>>, !.sign = NoSignature]
        ELSE messages[i]]

-----------------------------------------------------------------------------
(* Anthropic *)

Block(type) ==
    [type |-> type, of |-> NoText, think |-> <<>>, sign |-> NoSignature, call |-> NoCall]
CallBlock(type, call) == [Block(type) EXCEPT !.call = call]
Named(type, name) == IF name = NoText THEN <<>> ELSE <<[Block(type) EXCEPT !.of = name]>>

\* Fault: an image takes the place of the text it was sent with.
imageInsteadOfText(m) ==
    IF m.image = NoText THEN Named("text", m.text) ELSE Named("image", m.image)

\* A message with an image has its text as the first of its parts.
anthropicContentBlocks(m) == Named("text", m.text) \o Named("image", m.image)

anthropicThinkingSignature(m) ==
    IF m.sign.by = "anthropic" THEN m.sign ELSE NoSignature

\* Fault: only the pass that thought says what it thought.
withoutCarrier(m, thinking, carrier) ==
    LET thought == [Block("thinking") EXCEPT !.think = m.think,
                                             !.sign = anthropicThinkingSignature(m)]
    IN  (IF thinking /\ m.role = "assistant" /\ m.think # <<>> THEN <<thought>> ELSE <<>>)
        \o anthropicContentBlocks(m)

\* With thinking on every assistant message starts with a thought: its own, or
\* the last one anybody had.
anthropicProviderContentBlocks(m, thinking, carrier) ==
    LET own == [think |-> m.think, sign |-> anthropicThinkingSignature(m)]
        thought == IF m.think = <<>> /\ carrier # <<>> THEN carrier[1] ELSE own
        block == [Block("thinking") EXCEPT !.think = thought.think, !.sign = thought.sign]
    IN  (IF thinking /\ m.role = "assistant" THEN <<block>> ELSE <<>>)
        \o anthropicContentBlocks(m)

mergesAnthropicToolUseWithPrevious(messages, m) ==
    /\ m.calls # <<>> /\ m.text = NoText /\ m.image = NoText /\ m.think # <<>>
    /\ messages # <<>> /\ Last(messages).role = "assistant"
    /\ LET first == Head(Last(messages).content)
       IN  /\ first.type = "thinking" /\ first.think = m.think
           /\ first.sign = anthropicThinkingSignature(m)

BodyMessage(role, content) == [role |-> role, content |-> content]

flushToolResults(s) ==
    IF s.pending = <<>> THEN s
    ELSE [s EXCEPT !.messages = Append(@, BodyMessage("user", s.pending)), !.pending = <<>>]

\* Fault: a result goes out as soon as it is met.
resultsOneByOne(s, m) ==
    [s EXCEPT !.messages = Append(@, BodyMessage("user", <<CallBlock("tool_result", m.call)>>))]

heldToolResult(s, m) ==
    [s EXCEPT !.pending = Append(@, CallBlock("tool_result", m.call))]

anthropicStep(s, m, thinking) ==
    LET open == flushToolResults(s)
        carrier == IF thinking /\ m.role = "assistant" /\ m.think # <<>>
                   THEN <<[think |-> m.think, sign |-> anthropicThinkingSignature(m)]>>
                   ELSE s.carrier
        uses == [i \in DOMAIN m.calls |-> CallBlock("tool_use", m.calls[i])]
        blocks == anthropicProviderContentBlocks(m, thinking, carrier) \o uses
        next == [open EXCEPT !.carrier = carrier]
        at == Len(next.messages)
    IN  CASE m.role = "tool" -> heldToolResult(s, m)
          [] m.role # "tool" /\ blocks = <<>> -> next
          [] m.role = "assistant" /\ blocks # <<>>
                /\ mergesAnthropicToolUseWithPrevious(next.messages, m) ->
                [next EXCEPT !.messages[at].content = @ \o uses]
          [] OTHER -> [next EXCEPT !.messages = Append(@, BodyMessage(m.role, blocks))]

\* The images of all user messages move behind the last user message (tool
\* results are one too), and a message left empty goes.
relocateAnthropicImagesToLastUserMessage(messages) ==
    LET users == {i \in DOMAIN messages : messages[i].role = "user"}
        last == CHOOSE i \in users : \A j \in users : j <= i
        isImage(b) == b.type = "image"
        movedFrom(i) == IF i \in users \ {last} THEN SelectSeq(messages[i].content, isImage)
                                                ELSE <<>>
        moved == FlattenSeq([i \in DOMAIN messages |-> movedFrom(i)])
        left(i) == SelectSeq(messages[i].content, LAMBDA b : ~isImage(b))
        placed(i) == CASE i = last -> [messages[i] EXCEPT !.content = @ \o moved]
                       [] i \in users \ {last} -> [messages[i] EXCEPT !.content = left(i)]
                       [] OTHER -> messages[i]
    IN  IF users = {} \/ moved = <<>> THEN messages
        ELSE SelectSeq([i \in DOMAIN messages |-> placed(i)], LAMBDA m : m.content # <<>>)

normalizeAnthropicProviderMessages(messages, thinking, relocate) ==
    LET start == [messages |-> <<>>, pending |-> <<>>, carrier |-> <<>>]
        step(s, m) == anthropicStep(s, m, thinking)
        body == flushToolResults(FoldLeft(step, start, messages)).messages
    IN  IF relocate THEN relocateAnthropicImagesToLastUserMessage(body) ELSE body

-----------------------------------------------------------------------------
(* Anthropic: cache breakpoints and the prefix up to the last of them *)

SystemPath == <<0, 2>>
ToolsPath == <<0, 1>>

isAnthropicCacheableBlock(b) == b.type \in {"text", "tool_result", "tool_use"}

\* The last block of the first count messages that may carry a breakpoint.
anthropicMessageCacheBreakpointPath(body, count) ==
    LET cacheable(i) == {b \in DOMAIN body[i].content :
                            isAnthropicCacheableBlock(body[i].content[b])}
        marked == {i \in DOMAIN body : i <= count /\ cacheable(i) # {}}
        last(set) == CHOOSE x \in set : \A y \in set : y <= x
    IN  IF marked = {} THEN <<>>
        ELSE <<<<last(marked), last(cacheable(last(marked)))>>>>

anthropicStableProviderMessageCount(messages, stable, thinking) ==
    Len(normalizeAnthropicProviderMessages(
            SubSeq(messages, 1, IF stable < Len(messages) THEN stable ELSE Len(messages)),
            thinking, FALSE))

anthropicCacheBreakpointPositions(body, stable) ==
    LET paths == <<ToolsPath, SystemPath>>
                 \o anthropicMessageCacheBreakpointPath(body, stable)
                 \o anthropicMessageCacheBreakpointPath(body, Len(body))
        step(out, path) == IF path \in ToSet(out) THEN out ELSE Append(out, path)
    IN  FoldLeft(step, <<>>, paths)

\* A hash stands for what it is taken of.
anthropicCanonicalPrefixHash(body, path) ==
    CASE path = SystemPath -> <<>>
      [] path # SystemPath /\ path[1] \in DOMAIN body ->
            LET upTo == SubSeq(body, 1, path[1])
            IN  [upTo EXCEPT ![path[1]].content =
                    SubSeq(@, 1, IF path[2] < Len(@) THEN path[2] ELSE Len(@))]
      [] OTHER -> body

-----------------------------------------------------------------------------
(* OpenAI *)

openAIContentValue(m) == Named("text", m.text) \o Named("image", m.image)

shouldIncludeOpenAIReasoningContent(m, thinking) ==
    m.think # <<>> \/ (thinking /\ m.role = "assistant" /\ m.calls # <<>>)

normalizeOpenAIProviderMessages(messages, thinking) ==
    LET item(m) == [role |-> m.role, content |-> openAIContentValue(m),
                    reasons |-> shouldIncludeOpenAIReasoningContent(m, thinking),
                    calls |-> m.calls, call |-> m.call]
    IN  [i \in DOMAIN messages |-> item(messages[i])]

\* The id a call has in a Responses request: the one the provider gave it,
\* without the pass the program put in front of it.  A raw id is one the
\* provider uses again in another pass.
openAIResponsesToolCallCallID(call) == IF call.raw THEN <<0, call.n>> ELSE <<call.pass, call.n>>

Item(type) == [type |-> type, role |-> Nobody, content |-> <<>>, sign |-> NoSignature,
               id |-> <<>>, call |-> NoCall]
CallItem(type, call) ==
    [Item(type) EXCEPT !.id = openAIResponsesToolCallCallID(call), !.call = call]

shouldIncludeOpenAIResponsesReasoningItem(m) ==
    m.role = "assistant" /\ m.sign.by = "responses"

openAIResponsesMessageContent(m) == Named("text", m.text) \o Named("image", m.image)

\* Messages of one turn share the reasoning item the first of them brings.
responsesStep(s, m) ==
    LET active == IF m.role = "assistant" THEN s.active ELSE NoSignature
        reasons == shouldIncludeOpenAIResponsesReasoningItem(m) /\ m.sign # active
        content == openAIResponsesMessageContent(m)
        reasoning == IF reasons THEN <<[Item("reasoning") EXCEPT !.sign = m.sign]>> ELSE <<>>
        said == IF content = <<>> THEN <<>>
                ELSE <<[Item("message") EXCEPT !.role = m.role, !.content = content]>>
        calls == [i \in DOMAIN m.calls |-> CallItem("function_call", m.calls[i])]
    IN  IF m.role = "tool"
        THEN [items |-> Append(s.items, CallItem("function_call_output", m.call)),
              active |-> NoSignature]
        ELSE [items |-> s.items \o reasoning \o said \o calls,
              active |-> IF reasons THEN m.sign ELSE active]

normalizeOpenAIResponsesInput(messages) ==
    FoldLeft(responsesStep, [items |-> <<>>, active |-> NoSignature], messages).items
=============================================================================
