---------------------------- MODULE ProviderStream ----------------------------
(***************************************************************************)
(* One answer of a model provider, from the request to the verdict that    *)
(* the router gets: the adapters for the three wire protocols (OpenAI chat *)
(* completions, OpenAI responses, Anthropic messages), the parser that     *)
(* takes <think> tags out of a text, the watchdog that ends a stream       *)
(* without content, the budget of events, and the second attempt without   *)
(* the signatures a provider rejected.                                     *)
(*                                                                         *)
(* The provider sends texts, reasoning and tool calls piece by piece and   *)
(* may stop, break off or report an error at any point.  Every call has    *)
(* ArgLen pieces of arguments; a piece of text is a unit.  The pictures of *)
(* the responses protocol, token counts and artifacts are left out.        *)
(***************************************************************************)
EXTENDS Naturals, Sequences, FiniteSets

CONSTANTS
    Protocols,      \* the protocols to look at
    MaxCalls,       \* tool calls of an answer
    Budget,         \* events a stream may have
    Previewed,      \* calls of tools whose arguments are shown while they stream
    Quirks          \* inputs under which a documented promise fails

ASSUME ProviderStreamAssumption ==
    /\ Protocols \subseteq {"chat", "responses", "anthropic"}
    /\ {MaxCalls, Budget} \subseteq Nat
    /\ Previewed \subseteq 1..MaxCalls
    /\ Quirks \subseteq {"cut_in_call"}

VARIABLES
    protocol,   \* the protocol of the channel
    provider,   \* what the provider has sent of its answer
    conn,       \* the connection
    timer,      \* the watchdog's timer
    adapter,    \* the state of the parse of one attempt
    heard,      \* the events the sink got in each attempt so far
    rectified,  \* the request goes without the earlier reasoning
    verdict     \* what the router is told

answerVars == <<protocol, provider, conn, timer, adapter, heard, rectified, verdict>>

Calls == 1..MaxCalls
ArgLen == 2

\* sent: pieces of each call's arguments; closed: calls that are complete.
Silent == [units |-> 0, started |-> 0, sent |-> [c \in Calls |-> 0],
           closed |-> {}, ended |-> "no"]

Fresh == [inThink |-> FALSE, carry |-> FALSE, thinking |-> FALSE,
          held |-> {}, args |-> [c \in Calls |-> 0], shown |-> [c \in Calls |-> 0],
          completed |-> {}, emittedAny |-> FALSE, sawTerminator |-> FALSE,
          pending |-> FALSE, reason |-> "none", events |-> 0, out |-> <<>>]

EventType ==
    [kind : {"text", "thinking", "thought", "preview", "call", "finished"},
     call : 0..MaxCalls, units : 0..ArgLen,
     reason : {"none", "stop", "completed", "end_turn", "tool_calls", "tool_use"}]

Adapter ==
    [inThink : BOOLEAN, carry : BOOLEAN, thinking : BOOLEAN,
     held : SUBSET Calls, args : [Calls -> 0..ArgLen], shown : [Calls -> 0..ArgLen],
     completed : SUBSET Calls, emittedAny : BOOLEAN, sawTerminator : BOOLEAN,
     pending : BOOLEAN,
     reason : {"none", "stop", "completed", "end_turn", "tool_calls", "tool_use"},
     events : 0..(Budget + 1), out : Seq(EventType)]

AnswerInit ==
    /\ protocol \in Protocols
    /\ provider = Silent
    /\ conn = "connecting"
    /\ timer = "armed"
    /\ adapter = Fresh
    /\ heard = <<>>
    /\ rectified = FALSE
    /\ verdict = "none"

-----------------------------------------------------------------------------
(* What goes to the sink *)

Event(kind) == [kind |-> kind, call |-> 0, units |-> 0, reason |-> "none"]
CallEvent(kind, c, units) == [Event(kind) EXCEPT !.call = c, !.units = units]
FinishedEvent(reason) == [Event("finished") EXCEPT !.reason = reason]
Emit(s, event) == [s EXCEPT !.out = Append(@, event)]

flushThinkingCompleted(s) ==
    IF s.thinking THEN [Emit(s, Event("thought")) EXCEPT !.thinking = FALSE] ELSE s

emitTextDelta(s) ==
    [Emit(flushThinkingCompleted(s), Event("text")) EXCEPT !.emittedAny = TRUE]

\* The responses adapter does not take reasoning for an answer.
emitThinkingDelta(s) ==
    [Emit(s, Event("thinking")) EXCEPT !.thinking = TRUE,
                                       !.emittedAny = @ \/ protocol # "responses"]

emitContent(s) == IF s.inThink THEN emitThinkingDelta(s) ELSE emitTextDelta(s)

\* The end of a text that may be the beginning of a tag is held back.
flushTaggedContentTail(s) ==
    IF s.carry THEN [emitContent(s) EXCEPT !.carry = FALSE] ELSE s

\* Fault: the held back text is dropped when the next text comes.
ConsumeCarryLost(s, text) ==
    CASE text = "plain" -> emitContent([s EXCEPT !.carry = FALSE])
      [] text = "beginning" -> [s EXCEPT !.carry = TRUE]
      [] text = "rest" ->
            [(IF s.inThink THEN flushThinkingCompleted(s) ELSE s)
                EXCEPT !.inThink = ~@, !.carry = FALSE]

\* A text is plain, ends in the beginning of a tag, or is the rest of one.
Consume(s, text) ==
    CASE text = "plain" -> emitContent(flushTaggedContentTail(s))
      [] text = "beginning" -> [flushTaggedContentTail(s) EXCEPT !.carry = TRUE]
      [] text = "rest" ->
            [(IF s.inThink THEN flushThinkingCompleted(s) ELSE s)
                EXCEPT !.inThink = ~@, !.carry = FALSE]

\* The arguments of an edit are shown as they grow, each piece once.
emitToolProgress(s, c) ==
    IF c \in Previewed /\ s.args[c] > s.shown[c]
    THEN [Emit(s, CallEvent("preview", c, s.args[c] - s.shown[c]))
            EXCEPT !.shown[c] = s.args[c]]
    ELSE s

completeTool(s, c) ==
    [Emit(s, CallEvent("call", c, s.args[c]))
        EXCEPT !.held = @ \ {c}, !.completed = @ \cup {c}, !.emittedAny = TRUE]

\* The calls still held are completed in the order a map is walked in.
Orders(calls) ==
    {order \in [1..Cardinality(calls) -> calls] :
        \A i, j \in DOMAIN order : i # j => order[i] # order[j]}

completeHeld(s) ==
    {[s EXCEPT !.out = @ \o [i \in DOMAIN order |->
                                CallEvent("call", order[i], s.args[order[i]])],
               !.held = {}, !.completed = @ \cup s.held,
               !.emittedAny = @ \/ s.held # {}] : order \in Orders(s.held)}

effectiveFinishReason(s) ==
    IF protocol = "responses" /\ s.completed # {} /\ s.reason = "completed"
    THEN "tool_calls" ELSE s.reason

flushTurnFinished(s) ==
    IF s.pending
    THEN [Emit(s, FinishedEvent(effectiveFinishReason(s))) EXCEPT !.pending = FALSE]
    ELSE s

flushText(s) == flushThinkingCompleted(flushTaggedContentTail(s))

-----------------------------------------------------------------------------
(* The provider's events.  A call's arguments are given in pieces, or whole *)
(* with the event that closes it, or both.                                 *)

Answer(type) == [type |-> type, call |-> 0, text |-> "none", whole |-> FALSE]
TextOf(text) == [Answer("text") EXCEPT !.text = text]
Of(type, c) == [Answer(type) EXCEPT !.call = c]

Given(c) == provider.sent[c] = ArgLen
Complete(c) == IF protocol = "chat" THEN Given(c) ELSE c \in provider.closed
Open == {c \in 1..provider.started : ~Complete(c)}

Sendable ==
    LET talks == Open = {} /\ provider.ended = "no"
        text == {TextOf(t) : t \in {"plain", "beginning"}}
                \cup (IF adapter.carry THEN {TextOf("rest")} ELSE {})
        starts == IF provider.started < MaxCalls
                  THEN {Of("start", provider.started + 1)} ELSE {}
        pieces == {Of("piece", c) : c \in {d \in Open : ~Given(d)}}
        closing == {Of("close", c) : c \in {d \in Open : Given(d)}}
        whole == {[Of("close", c) EXCEPT !.whole = TRUE] :
                    c \in {d \in Open : provider.sent[d] \in {0, ArgLen}}}
        ends == {Answer("finish")}
        after == IF provider.ended # "finish" THEN {}
                 ELSE CASE protocol = "chat" -> {Answer("usage"), Answer("DONE")}
                        [] protocol = "responses" -> {Answer("DONE")}
                        [] protocol = "anthropic" -> {}
    IN  (IF talks THEN text \cup {Answer("reasoning")} \cup starts \cup ends ELSE {})
        \cup pieces \cup closing
        \cup (IF protocol = "responses" THEN whole ELSE {})
        \cup after
        \cup (IF provider.ended = "no" THEN {Answer("error")} ELSE {})

Sent(event) ==
    LET c == event.call
        p == provider
    IN  CASE event.type = "text" ->
                [p EXCEPT !.units = IF event.text = "rest" THEN @ - 1 ELSE @ + 1]
          [] event.type = "reasoning" -> [p EXCEPT !.units = @ + 1]
          [] event.type = "start" -> [p EXCEPT !.started = c]
          [] event.type = "piece" -> [p EXCEPT !.sent[c] = @ + 1]
          [] event.type = "close" -> [p EXCEPT !.sent[c] = ArgLen, !.closed = @ \cup {c}]
          [] event.type = "finish" -> [p EXCEPT !.ended = "finish"]
          [] event.type = "DONE" -> [p EXCEPT !.ended = "DONE"]
          [] OTHER -> p

-----------------------------------------------------------------------------
(* The adapters: what an event makes of a state; a set where a map is walked *)

held(s, c) == [s EXCEPT !.held = @ \cup {c}]
piece(s, c) == emitToolProgress([held(s, c) EXCEPT !.args[c] = @ + 1], c)

\* Chat completions: a call has no end of its own, the finish closes it.
chat(s, event) ==
    LET c == event.call
        finished(t) == [t EXCEPT !.reason = IF t.completed = {} THEN "stop" ELSE "tool_calls",
                                 !.sawTerminator = TRUE, !.pending = TRUE]
    IN  CASE event.type = "start" -> {held(flushText(s), c)}
          [] event.type = "piece" -> {piece(flushText(s), c)}
          [] event.type = "finish" -> {finished(t) : t \in completeHeld(flushText(s))}
          [] event.type = "usage" -> {flushTurnFinished(flushText(s))}
          [] event.type = "DONE" ->
                {flushTurnFinished(flushText([s EXCEPT !.sawTerminator = TRUE]))}
          [] OTHER -> {s}

\* Arguments that come whole count only where no piece of them came before.
wholeArguments(s, c) == [s EXCEPT !.args[c] = IF @ = 0 THEN ArgLen ELSE @]

\* Responses: an item that is done closes its call, and the end of the answer
\* repeats the items; a call completes once.
completeItem(s, c) ==
    LET given == emitToolProgress(wholeArguments(held(s, c), c), c)
    IN  IF c \in s.completed THEN [given EXCEPT !.held = @ \ {c}] ELSE completeTool(given, c)

repeatItems(s) ==
    LET upTo[c \in 0..MaxCalls] ==
            IF c = 0 THEN s
            ELSE IF c \in provider.closed THEN completeItem(upTo[c - 1], c)
            ELSE upTo[c - 1]
    IN  upTo[MaxCalls]

responses(s, event) ==
    LET c == event.call
        ended(t) == [t EXCEPT !.reason = "completed", !.sawTerminator = TRUE, !.pending = TRUE]
    IN  CASE event.type = "start" -> {held(s, c)}
          [] event.type = "piece" -> {piece(s, c)}
          [] event.type = "close" /\ event.whole -> {completeItem(s, c)}
          [] event.type = "close" /\ ~event.whole -> {emitToolProgress(held(s, c), c)}
          [] event.type = "finish" -> {ended(flushText(s)), ended(repeatItems(flushText(s)))}
          [] event.type = "DONE" -> {flushTurnFinished(t) : t \in completeHeld(flushText(s))}
          [] OTHER -> {s}

\* Messages: a block that stops closes its call; message_stop ends the answer.
anthropic(s, event) ==
    LET c == event.call
        stopped == flushText([s EXCEPT !.reason = IF s.completed = {} THEN "end_turn"
                                                  ELSE "tool_use"])
    IN  CASE event.type = "start" ->
                {emitToolProgress([held(flushText(s), c) EXCEPT !.emittedAny = TRUE], c)}
          [] event.type = "piece" -> {[piece(s, c) EXCEPT !.emittedAny = TRUE]}
          [] event.type = "close" -> {completeTool(emitToolProgress(s, c), c)}
          [] event.type = "finish" ->
                {flushTurnFinished([stopped EXCEPT !.sawTerminator = TRUE, !.pending = TRUE])}
          [] OTHER -> {s}

Handled(s, event) ==
    CASE event.type = "text" -> {Consume(s, event.text)}
      [] event.type = "reasoning" -> {emitThinkingDelta(s)}
      [] event.type \notin {"text", "reasoning"} /\ protocol = "chat" -> chat(s, event)
      [] event.type \notin {"text", "reasoning"} /\ protocol = "responses" ->
            responses(s, event)
      [] OTHER -> anthropic(s, event)

\* What is done after the last event: calls still held, then the text.
scanned(s) == IF protocol = "anthropic" THEN {s} ELSE completeHeld(s)
concluded(s) == flushTurnFinished(flushText(s))

\* Fault: an end without an end mark is always taken for the end.
truncatedNever(s) == FALSE

\* An answer of which nothing came is an error, not an empty success.
truncated(s) == ~s.sawTerminator /\ ~s.emittedAny

-----------------------------------------------------------------------------
(* Steps *)

\* The attempt ends with an error; signature: the provider rejected the
\* signatures of earlier reasoning.
Fails(s, signature) ==
    /\ adapter' = s
    /\ conn' = "closed"
    /\ timer' = "stopped"
    /\ verdict' = IF signature THEN "signature" ELSE "failed"
    /\ UNCHANGED <<protocol, heard, rectified>>

\* The sink refuses an event: what came before it has been heard.
SinkRefuses(s) ==
    /\ \E n \in Len(adapter.out)..(Len(s.out) - 1) :
            Fails([adapter EXCEPT !.out = SubSeq(s.out, 1, n)], FALSE)

Connect ==
    /\ conn = "connecting"
    /\ timer # "expired"
    /\ conn' = "open"
    /\ UNCHANGED <<protocol, provider, timer, adapter, heard, rectified, verdict>>

\* No connection, the watchdog's end, or a status that is not 2xx.
ConnectFails(signature) ==
    /\ conn = "connecting"
    /\ Fails(adapter, signature)
    /\ UNCHANGED provider

withinBudget(s) == s.events <= Budget
counted == [adapter EXCEPT !.events = @ + 1]

Receive(event) ==
    LET s == counted
    IN  /\ conn = "open"
        /\ timer # "expired"
        /\ withinBudget(s)
        /\ event.type # "error"
        /\ provider' = Sent(event)
        /\ \E t \in Handled(s, event) :
            \/ /\ adapter' = t
               /\ conn' = IF event.type = "DONE" THEN "ended" ELSE "open"
               /\ UNCHANGED <<protocol, timer, heard, rectified, verdict>>
            \/ SinkRefuses(t)

ErrorEvent(signature) ==
    /\ conn = "open"
    /\ timer # "expired"
    /\ Answer("error") \in Sendable
    /\ Fails(adapter, signature)
    /\ UNCHANGED provider

OverBudget ==
    /\ conn = "open"
    /\ Sendable # {}
    /\ ~withinBudget(counted)
    /\ Fails(counted, FALSE)
    /\ UNCHANGED provider

\* The last line is cut: an error, unless something was said before it.
MalformedTail ==
    /\ conn = "open"
    /\ provider.ended = "no"
    /\ IF adapter.emittedAny /\ protocol # "anthropic"
       THEN /\ conn' = "ended"
            /\ UNCHANGED <<protocol, timer, adapter, heard, rectified, verdict>>
       ELSE Fails(adapter, FALSE)
    /\ UNCHANGED provider

EndOfFile ==
    /\ conn = "open"
    /\ "cut_in_call" \in Quirks \/ protocol # "anthropic" \/ Open = {} \/ adapter.out # <<>>
    /\ conn' = "ended"
    /\ UNCHANGED <<protocol, provider, timer, adapter, heard, rectified, verdict>>

\* The connection breaks, the client cancels, or the watchdog closes it.
ReadFails ==
    /\ conn = "open"
    /\ conn' = "broken"
    /\ UNCHANGED <<protocol, provider, timer, adapter, heard, rectified, verdict>>

StreamBreaks ==
    /\ conn = "broken"
    /\ \E s \in scanned(adapter) : Fails(s, FALSE) \/ SinkRefuses(s)
    /\ UNCHANGED provider

StreamCloses ==
    /\ conn = "ended"
    /\ \E s \in {concluded(t) : t \in scanned(adapter)} :
        \/ truncated(s) /\ Fails(s, FALSE)
        \/ /\ ~truncated(s)
           /\ adapter' = s
           /\ conn' = "closed"
           /\ timer' = "stopped"
           /\ verdict' = "ok"
           /\ UNCHANGED <<protocol, heard, rectified>>
        \/ SinkRefuses(s)
    /\ UNCHANGED provider

\* Once per request, and only while the sink has heard nothing.
mayRectify == ~rectified /\ adapter.out = <<>>

\* The request goes again without reasoning, where its history has some.
Rectify ==
    /\ verdict = "signature"
    /\ mayRectify
    /\ rectified' = TRUE
    /\ heard' = Append(heard, adapter.out)
    /\ adapter' = Fresh
    /\ provider' = Silent
    /\ conn' = "connecting"
    /\ timer' = "armed"
    /\ verdict' = "none"
    /\ UNCHANGED protocol

GiveUp ==
    /\ verdict = "signature"
    /\ verdict' = "failed"
    /\ UNCHANGED <<protocol, provider, conn, timer, adapter, heard, rectified>>

\* The timeout has passed; expire waits for the lock.
TimerFires ==
    /\ timer = "armed"
    /\ conn \in {"connecting", "open"}
    /\ timer' = "fired"
    /\ UNCHANGED <<protocol, provider, conn, adapter, heard, rectified, verdict>>

\* Fault: the watchdog notes the timeout and leaves the connection open.
cutNothing(c) == c

\* The request is cancelled and its body closed.
cut(c) == IF c \in {"connecting", "open"} THEN "broken" ELSE c

expire ==
    /\ timer = "fired"
    /\ timer' = "expired"
    /\ conn' = cut(conn)
    /\ UNCHANGED <<protocol, provider, adapter, heard, rectified, verdict>>

AnswerNext ==
    \/ Connect
    \/ \E signature \in BOOLEAN : ConnectFails(signature) \/ ErrorEvent(signature)
    \/ \E event \in Sendable : Receive(event)
    \/ OverBudget
    \/ MalformedTail
    \/ EndOfFile
    \/ ReadFails
    \/ StreamBreaks
    \/ StreamCloses
    \/ Rectify
    \/ GiveUp
    \/ TimerFires
    \/ expire

\* The provider owes nothing; the watchdog and the adapter go on.
Fairness ==
    /\ WF_answerVars(TimerFires)
    /\ WF_answerVars(expire)
    /\ WF_answerVars(StreamBreaks)
    /\ WF_answerVars(StreamCloses)
    /\ WF_answerVars(Rectify \/ GiveUp)

AnswerSpec == AnswerInit /\ [][AnswerNext]_answerVars /\ Fairness

-----------------------------------------------------------------------------
(* Properties *)

Indices(out, kinds) == {i \in DOMAIN out : out[i].kind \in kinds}
CallsIn(out, c) == {i \in Indices(out, {"call"}) : out[i].call = c}
PreviewsIn(out, c) == {i \in Indices(out, {"preview"}) : out[i].call = c}

\* The pieces of a call that were shown, each with the event that showed it.
Shown(out, c) == UNION {{i} \X (1..out[i].units) : i \in PreviewsIn(out, c)}

AnswerTypeOK ==
    /\ protocol \in Protocols
    /\ provider \in [units : Nat, started : 0..MaxCalls, sent : [Calls -> 0..ArgLen],
                     closed : SUBSET Calls, ended : {"no", "finish", "DONE"}]
    /\ conn \in {"connecting", "open", "ended", "broken", "closed"}
    /\ timer \in {"armed", "fired", "expired", "stopped"}
    /\ adapter \in Adapter
    /\ rectified \in BOOLEAN
    /\ verdict \in {"none", "signature", "failed", "ok"}
    /\ conn = "open" => adapter.events <= Budget
    /\ conn = "closed" <=> verdict # "none"

\* A success is never empty: the provider ended its answer, or something of it
\* has gone downstream.
NoSilentSuccess ==
    verdict = "ok" => adapter.sawTerminator \/ adapter.out # <<>>

\* A call whose arguments the provider gave completely goes downstream once,
\* with these arguments and no more, whichever way and how often they came;
\* what was shown of it before is what it then has.
ExactCalls ==
    \A c \in {d \in Calls : Complete(d)} :
        /\ \A i, j \in CallsIn(adapter.out, c) : i = j
        /\ verdict = "ok" => CallsIn(adapter.out, c) # {}
        /\ \A i \in CallsIn(adapter.out, c) : adapter.out[i].units = ArgLen
        /\ Cardinality(Shown(adapter.out, c)) <= ArgLen
        /\ verdict = "ok" /\ c \in Previewed =>
                Cardinality(Shown(adapter.out, c)) = ArgLen

\* The reasoning of event i is followed by its end, before a text or the end of
\* the turn.
Closes(out, i) ==
    \E j \in i..Len(out) :
        /\ out[j].kind = "thought"
        /\ \A k \in i..j : out[k].kind \notin {"text", "finished"}

\* A success has passed on every text and reasoning it got, tags or not, and
\* no reasoning is left open before a text or the end of the turn.
NothingLost ==
    verdict = "ok" =>
        /\ Cardinality(Indices(adapter.out, {"text", "thinking"})) = provider.units
        /\ \A i \in Indices(adapter.out, {"thinking"}) : Closes(adapter.out, i)

\* The end of a turn is reported once, last, and as one that asks for the
\* results of the calls when there were calls.
FinishedOnceAndLast ==
    \A i \in Indices(adapter.out, {"finished"}) :
        /\ i = Len(adapter.out)
        /\ Indices(adapter.out, {"call"}) # {} <=>
                adapter.out[i].reason \in {"tool_calls", "tool_use"}

\* The sink hears events of one attempt only.
OneAttemptHeard ==
    adapter.out # <<>> => \A i \in DOMAIN heard : heard[i] = <<>>

\* What reaches the sink is what the provider said in one attempt, calls and texts
\* whole and once, with the end of the turn behind them (openai.go, anthropic.go).
AnswerArrivesWhole == ExactCalls /\ NothingLost /\ FinishedOnceAndLast /\ OneAttemptHeard

\* Whatever the provider does or leaves, the router gets a verdict.
PassEnds == <>(verdict \in {"ok", "failed"})
=============================================================================
