-------------------------- MODULE ProviderRequests --------------------------
(***************************************************************************)
(* The requests one conversation sends: a turn of the user, the passes of  *)
(* the model with the calls they make, passes that fail and turns that are *)
(* cancelled or resumed, every pass through any of the channels.  The      *)
(* replay is what the prompt compiler returns, whose making                *)
(* ConversationHistory describes: calls stand in one message per pass and  *)
(* have their results behind them.  A request leaves its prefix in the     *)
(* conversation, which tells the next one what to mark for the provider's  *)
(* cache and whether the cache can be read.                                *)
(***************************************************************************)
EXTENDS ProviderMessages

CONSTANTS
    Channels,    \* records: the kind of a channel and whether it thinks
    MaxTurns, MaxPasses, MaxCalls, MaxTries,   \* bounds, the last on a pass's channels
    Images,      \* how a user message may come: "none", "with", "alone"
    Quirks       \* "thinks_again": a pass may think again before it calls

Kinds == {"anthropic", "relay", "chat", "responses"}

ASSUME ChannelsAssumption == Channels \subseteq [kind : Kinds, thinks : BOOLEAN]

VARIABLES
    replay,    \* the messages of the history
    turn,      \* its number and the replay's length before it
    pass,      \* how many passes there have been
    phase,     \* "idle", "asking", "answering"
    request,   \* the request a channel is answering
    prefix,    \* what it left in the conversation
    hint,      \* the prefix the current pass was compiled with
    intact     \* the history still starts with what that prefix was made of

vars == <<replay, turn, pass, phase, request, prefix, hint, intact>>

NoPrefix == [turn |-> 0, count |-> 0, path |-> <<>>, hash |-> <<>>]
NoChannel == [kind |-> Nobody, thinks |-> FALSE]
NoRequest == [channel |-> NoChannel, body |-> <<>>, marks |-> {}, matched |-> FALSE,
              stable |-> 0, rectified |-> FALSE, tried |-> {}]

Init ==
    /\ replay = <<>> /\ turn = [number |-> 0, start |-> 0, status |-> "done"]
    /\ pass = 0 /\ phase = "idle"
    /\ request = NoRequest /\ prefix = NoPrefix /\ hint = NoPrefix /\ intact = TRUE

-----------------------------------------------------------------------------
(* The request *)

IsAnthropic(channel) == channel.kind \in {"anthropic", "relay"}

\* Fault: images are moved for Anthropic's own endpoint too.
relocateEverywhere(channel) == TRUE

shouldRelocateAnthropicImages(channel) == channel.kind = "relay"

RequestBody(channel, messages) ==
    CASE IsAnthropic(channel) ->
            normalizeAnthropicProviderMessages(messages, channel.thinks,
                                               shouldRelocateAnthropicImages(channel))
      [] channel.kind = "chat" -> normalizeOpenAIProviderMessages(messages, channel.thinks)
      [] channel.kind = "responses" -> normalizeOpenAIResponsesInput(messages)

PrefixHash(channel, body, path) == <<channel, anthropicCanonicalPrefixHash(body, path)>>

buildAnthropicCacheFrontier(channel, body, marks) ==
    IF IsAnthropic(channel)
    THEN [path |-> Last(marks), hash |-> PrefixHash(channel, body, Last(marks))]
    ELSE [path |-> <<>>, hash |-> <<>>]

\* Whether the cache the hint speaks of is what this body starts with.
annotateAnthropicRequestKnobs(channel, body, known) ==
    IsAnthropic(channel) /\ known.hash # <<>>
    /\ known.hash = PrefixHash(channel, body, known.path)

replayMessageCountFromRequestPrefix ==
    IF prefix.turn = turn.number THEN prefix.count ELSE 0

\* How many messages an earlier request is known to have sent.
stableReplayMessageCount ==
    LET counts == {turn.start, replayMessageCountFromRequestPrefix}
        most == CHOOSE n \in counts : \A m \in counts : m <= n
    IN  IF most < Len(replay) THEN most ELSE Len(replay)

\* A request leaves its prefix in the conversation as soon as it is built.
Attempt(channel, messages, stable, known, rectified, tried) ==
    LET body == RequestBody(channel, messages)
        count == anthropicStableProviderMessageCount(messages, stable, channel.thinks)
        marks == IF IsAnthropic(channel) THEN anthropicCacheBreakpointPositions(body, count)
                                         ELSE <<>>
        frontier == buildAnthropicCacheFrontier(channel, body, marks)
    IN  /\ request' = [channel |-> channel, body |-> body, marks |-> ToSet(marks),
                       matched |-> annotateAnthropicRequestKnobs(channel, body, known),
                       stable |-> stable, rectified |-> rectified,
                       tried |-> tried \cup {channel}]
        /\ prefix' = [turn |-> turn.number, count |-> Len(messages),
                      path |-> frontier.path, hash |-> frontier.hash]

-----------------------------------------------------------------------------
(* The user *)

UserMessage(image) ==
    LET name == <<"user", turn.number + 1>>
    IN  [Message("user") EXCEPT !.text = IF image = "alone" THEN NoText ELSE name,
                                !.image = IF image = "none" THEN NoText ELSE name]

NextTurn == turn' = [number |-> turn.number + 1, start |-> Len(replay), status |-> "running"]

UserSays(image) ==
    /\ phase = "idle" /\ turn.number < MaxTurns
    /\ replay' = Append(replay, UserMessage(image))
    /\ NextTurn
    /\ phase' = "asking"
    /\ UNCHANGED <<pass, request, prefix, hint, intact>>

\* A resumed run brings no message; after a turn that ended well it is ignored.
Resume ==
    /\ phase = "idle" /\ turn.number < MaxTurns
    /\ turn.status # "done" /\ replay # <<>>
    /\ NextTurn
    /\ phase' = "asking"
    /\ UNCHANGED <<replay, pass, request, prefix, hint, intact>>

\* A cancelled turn keeps what the user said.
Cancel ==
    LET said == SelectSeq(SubSeq(replay, turn.start + 1, Len(replay)),
                          LAMBDA m : m.role = "user")
    IN  /\ phase \in {"asking", "answering"}
        /\ replay' = SubSeq(replay, 1, turn.start) \o said
        /\ turn' = [turn EXCEPT !.status = "canceled"]
        /\ phase' = "idle"
        /\ intact' = (intact /\ replay' = replay)
        /\ request' = NoRequest /\ hint' = NoPrefix
        /\ UNCHANGED <<pass, prefix>>

-----------------------------------------------------------------------------
(* A pass *)

Send(channel) ==
    /\ phase = "asking" /\ pass < MaxPasses
    /\ Attempt(channel, sanitizeProviderMessages(replay), stableReplayMessageCount,
               prefix, FALSE, {})
    /\ hint' = prefix
    /\ pass' = pass + 1
    /\ phase' = "answering"
    /\ intact' = TRUE
    /\ UNCHANGED <<replay, turn>>

\* Another channel is given the prompt the pass was compiled with.
Failover(channel) ==
    /\ phase = "answering"
    /\ channel \notin request.tried /\ Cardinality(request.tried) < MaxTries
    /\ Attempt(channel, sanitizeProviderMessages(replay), request.stable,
               hint, FALSE, request.tried)
    /\ intact' = TRUE
    /\ UNCHANGED <<replay, turn, pass, phase, hint>>

\* The provider refuses the signatures: once more without any reasoning.
Rectify ==
    /\ phase = "answering" /\ ~request.rectified
    /\ LET messages == sanitizeProviderMessages(replay)
       IN  /\ \E i \in DOMAIN messages : hasReasoningFields(messages[i])
           /\ Attempt(request.channel, rectifyMessagesForThinkingSignature(messages),
                      request.stable, hint, TRUE, request.tried)
    /\ intact' = FALSE
    /\ UNCHANGED <<replay, turn, pass, phase, hint>>

Thought(k) == <<pass, k>>

\* The reasoning and signature a channel's model may have for its k-th thought.
Thoughts(channel, k) ==
    LET soFar == [j \in 1..k |-> Thought(j)]
        plain == [think |-> soFar, sign |-> NoSignature]
        signed(by) == [think |-> soFar, sign |-> [by |-> by, of |-> <<Thought(k)>>]]
    IN  IF ~channel.thinks THEN {[think |-> <<>>, sign |-> NoSignature]}
        ELSE CASE IsAnthropic(channel) -> {[think |-> <<>>, sign |-> NoSignature],
                                           signed("anthropic")}
               [] channel.kind = "chat" -> {plain}
               [] channel.kind = "responses" -> {signed("responses")}

Say(thought) ==
    [Message("assistant") EXCEPT !.text = <<"model", pass>>,
                                 !.think = thought.think, !.sign = thought.sign]

CallMessage(n, thought) ==
    LET call == [pass |-> pass, n |-> n, raw |-> request.channel.kind = "chat"]
    IN  [Message("assistant") EXCEPT !.calls = <<call>>,
                                     !.think = thought.think, !.sign = thought.sign]
ResultMessage(n) ==
    [Message("tool") EXCEPT !.call = CallMessage(n, [think |-> <<>>, sign |-> NoSignature]).calls[1]]

\* What the pass leaves in the replay.  It speaks before it calls; every call
\* carries all that was thought until then and the signature of the last thought.
Answered(speaks, calls, thoughts) ==
    LET first == thoughts[1]
        said == IF speaks THEN <<Say(first)>>
                ELSE IF calls = 0 /\ first.think # <<>>
                     THEN <<[Say(first) EXCEPT !.text = NoText]>> ELSE <<>>
        made == [n \in 1..calls |->
                    CallMessage(n, IF speaks \/ n > 1 THEN Last(thoughts) ELSE first)]
        results == [n \in 1..calls |-> ResultMessage(n)]
    IN  said \o mergeAdjacentAssistantToolCallMessages(made) \o results

ThoughtsOf(channel, calls) ==
    {<<t>> : t \in Thoughts(channel, 1)}
    \cup IF "thinks_again" \in Quirks /\ calls > 0
         THEN {<<t, u>> : t \in {x \in Thoughts(channel, 1) : x.think # <<>>},
                          u \in {x \in Thoughts(channel, 2) : x.think # <<>>}}
         ELSE {}

\* A pass that called waits for all results and is followed by another; one
\* that did not ends the turn.
Answer(speaks, calls) ==
    /\ phase = "answering"
    /\ \E thoughts \in ThoughtsOf(request.channel, calls) :
            replay' = replay \o Answered(speaks, calls, thoughts)
    /\ phase' = IF calls > 0 THEN "asking" ELSE "idle"
    /\ turn' = [turn EXCEPT !.status = IF calls > 0 THEN "running" ELSE "done"]
    /\ request' = NoRequest /\ hint' = NoPrefix
    /\ UNCHANGED <<pass, prefix, intact>>

\* The stream breaks; what had been said by then stays.
Fail(speaks) ==
    /\ phase = "answering"
    /\ \E thoughts \in ThoughtsOf(request.channel, 0) :
            replay' = replay \o Answered(speaks, 0, thoughts)
    /\ phase' = "idle"
    /\ turn' = [turn EXCEPT !.status = "failed"]
    /\ request' = NoRequest /\ hint' = NoPrefix
    /\ UNCHANGED <<pass, prefix, intact>>

Next ==
    \/ \E image \in Images : UserSays(image)
    \/ Resume
    \/ Cancel
    \/ \E channel \in Channels : Send(channel) \/ Failover(channel)
    \/ Rectify
    \/ \E speaks \in BOOLEAN : Fail(speaks) \/ \E calls \in 0..MaxCalls : Answer(speaks, calls)

Spec == Init /\ [][Next]_vars

-----------------------------------------------------------------------------
(* What the provider is sent *)

BlocksOf(content, type) == SelectSeq(content, LAMBDA b : b.type = type)
CallsOf(blocks) == [i \in DOMAIN blocks |-> blocks[i].call]

\* The results an Anthropic provider wants: in one message right behind the
\* calls, one for each, and none without its call.
BodyPairs(body) ==
    LET uses(i) == CallsOf(BlocksOf(body[i].content, "tool_use"))
        results(i) == CallsOf(BlocksOf(body[i].content, "tool_result"))
    IN  \A i \in DOMAIN body :
            /\ uses(i) # <<>> => i < Len(body) /\ results(i + 1) = uses(i)
            /\ results(i) # <<>> => i > 1 /\ uses(i - 1) = results(i)

ChatPairs(items) ==
    LET answers(i) == items[i].role = "tool"
    IN  \A i \in DOMAIN items :
            /\ \A n \in DOMAIN items[i].calls :
                    i + n \in DOMAIN items /\ items[i + n].call = items[i].calls[n]
            /\ answers(i) => \E o \in 1..(i - 1) : \E n \in DOMAIN items[o].calls :
                    o + n = i /\ items[o].calls[n] = items[i].call

\* An output is taken for the open call with its id, so there is one; and what
\* the user says next comes after all outputs.
ResponsesPairs(items) ==
    LET before(j, type) == {i \in 1..(j - 1) : items[i].type = type}
        of(set) == {items[i].call : i \in set}
        open(j) == of(before(j, "function_call")) \ of(before(j, "function_call_output"))
        named(j, id) == {c \in open(j) : openAIResponsesToolCallCallID(c) = id}
    IN  /\ open(Len(items) + 1) = {}
        /\ \A j \in DOMAIN items :
            /\ items[j].type = "function_call_output" =>
                    named(j, items[j].id) = {items[j].call}
            /\ items[j].role = "user" => open(j) = {}

\* Every call of a request has its result where the provider looks for it, and
\* every result its call, after merging, trimming, failover and rectifying and
\* whichever channels the passes went through (router.go:737, anthropic.go:1220,
\* openai_responses.go:10).
CallsPairWithResults ==
    phase = "answering" =>
        CASE IsAnthropic(request.channel) -> BodyPairs(request.body)
          [] request.channel.kind = "chat" -> ChatPairs(request.body)
          [] request.channel.kind = "responses" -> ResponsesPairs(request.body)

Words(m) ==
    (IF m.text = NoText THEN <<>> ELSE <<m.text>>) \o m.calls
    \o IF m.role = "tool" THEN <<m.call>> ELSE <<>>
Texts(blocks) ==
    LET texts == BlocksOf(blocks, "text") IN [i \in DOMAIN texts |-> texts[i].of]

\* Everything a request says, in its order.
SaidInBody(body) ==
    LET said(b) == CASE b.type = "text" -> <<b.of>>
                     [] b.type \in {"tool_use", "tool_result"} -> <<b.call>>
                     [] OTHER -> <<>>
        blocks == FlattenSeq([i \in DOMAIN body |-> body[i].content])
    IN  FlattenSeq([i \in DOMAIN blocks |-> said(blocks[i])])
SaidInChat(items) ==
    FlattenSeq([i \in DOMAIN items |-> Texts(items[i].content) \o items[i].calls
                    \o IF items[i].role = "tool" THEN <<items[i].call>> ELSE <<>>])
SaidInResponses(items) ==
    FlattenSeq([i \in DOMAIN items |-> Texts(items[i].content)
                    \o IF items[i].call = NoCall THEN <<>> ELSE <<items[i].call>>])

Pictures(blocks) ==
    LET images == BlocksOf(blocks, "image") IN [i \in DOMAIN images |-> images[i].of]
SentPictures ==
    Pictures(FlattenSeq([i \in DOMAIN request.body |-> request.body[i].content]))

\* The part of the history that asks for an answer: up to the last message that
\* is not the model's own.
Asked ==
    LET others == {i \in DOMAIN replay : replay[i].role # "assistant"}
    IN  SubSeq(replay, 1, CHOOSE i \in others : \A j \in others : j <= i)

\* Each text, call and result of the history up to the question stands in the
\* request once and in order, and each picture once, on every channel
\* (content_parts.go:68, anthropic.go:1333, router.go:535).
SaidReachesTheModel ==
    phase = "answering" =>
        LET expected == EachMessage(Words, Asked)
            shown == SelectSeq(Asked, LAMBDA m : m.image # NoText)
            said == CASE IsAnthropic(request.channel) -> SaidInBody(request.body)
                      [] request.channel.kind = "chat" -> SaidInChat(request.body)
                      [] request.channel.kind = "responses" -> SaidInResponses(request.body)
        IN  /\ said = expected
            /\ Len(SentPictures) = Len(shown)
            /\ ToSet(SentPictures) = {shown[i].image : i \in DOMAIN shown}

\* With thinking on, every message of the assistant starts with a thought and
\* has no other; it is only empty where nobody has thought yet, and a signature
\* signs the very reasoning it stands under, whoever made the passes
\* (anthropic.go:1211, 1379, 1404, router.go:701).
ThinkingIsGenuine ==
    phase = "answering" /\ IsAnthropic(request.channel) /\ request.channel.thinks =>
        LET body == request.body
            thoughts(i) == BlocksOf(body[i].content, "thinking")
            mine == {i \in DOMAIN body : body[i].role = "assistant"}
        IN  \A i \in mine :
                /\ Len(thoughts(i)) = 1 /\ Head(body[i].content).type = "thinking"
                /\ thoughts(i)[1].sign # NoSignature =>
                        thoughts(i)[1].sign.of = thoughts(i)[1].think
                /\ \A j \in mine : j < i /\ thoughts(j)[1].think # <<>> =>
                        thoughts(i)[1].think # <<>>

\* A request starts with what the last one had marked for the cache while the
\* history still does, so the program expects a cache read and gets it; and a
\* later pass of a turn marks the same place again.  Not where a turn resumes an
\* answer that broke off, which the first pass does not send and the second
\* counts.  A relay with a picture is left out: its pictures move with every
\* pass (anthropic.go:1025, 1138, compiler.go:149, service.go:970).
CachedPrefixIsResent ==
    [][LET channel == request'.channel
           pictured == \E i \in DOMAIN replay : replay[i].image # NoText
           known == prefix.hash # <<>> /\ prefix.hash[1] = channel
       IN  pass' # pass /\ known /\ intact /\ ~(pictured /\ channel.kind = "relay") =>
               /\ request'.matched
               /\ prefix.turn = turn.number /\ turn.start <= prefix.count =>
                       prefix.path \in request'.marks]_vars
=============================================================================
