--------------------------- MODULE ToolCallsProofs ---------------------------
EXTENDS ToolCalls, WellFoundedInduction, TLAPS

-----------------------------------------------------------------------------
(* What a stored result has to be for every later prompt to tell it. *)

IsText(t) ==
    /\ t = [says |-> t.says, own |-> t.own, len |-> t.len]
    /\ t.own \in Nat /\ t.len \in Nat /\ t.says # "not_told"

\* What a text may not say of a call that failed.
Boasts == {"success", "output", "no_matches"}

Fails(heard)    == heard.case \notin {"success", "background"}
Yields(heard)   == heard.case = "success" /\ heard.len > 0
NoStored(r)     == r.stored \in {NoCall, NoResult}

\* The stored result is replayed as it is, whatever the limit of the tool.
Small(tool, stored) == stored.len <= 2 \/ (tool = "Shell" /\ stored.len <= Keeps["stream"] + 1)

\* The text and the structured result of a call that is not an edit.
OutcomeTells(tool, outcome, heard) ==
    /\ IsText(outcome.text) /\ IsText(outcome.stored)
    /\ Fails(heard) =>
        /\ NoStored(outcome) \/ outcome.stored.says \notin Boasts
        /\ outcome.text.says \notin Boasts \/ (~NoStored(outcome) /\ Small(tool, outcome.stored))
    /\ Yields(heard) /\ tool \notin {"Grep", "CallMcpTool"} =>
        /\ NoStored(outcome) \/ outcome.stored.own > 0
        /\ outcome.text.own > 0 \/ (~NoStored(outcome) /\ tool \notin LimitedTools)
    /\ ~buildStartedToolCall(tool) =>
        outcome.stored # NoResult /\ (Yields(heard) => outcome.stored # NoCall)

LEMMA LineType == ASSUME NEW s, s # "not_told" PROVE IsText(Line(s))
BY DEF Line, IsText

LEMMA BodyType == ASSUME NEW n \in Nat PROVE IsText(Body(n))
BY DEF Body, IsText

LEMMA TruncateType ==
  ASSUME NEW t, IsText(t), NEW limit \in Nat \ {0, 1}
  PROVE  /\ IsText(truncateReplayText(t, limit))
         /\ truncateReplayText(t, limit).says = t.says
         /\ truncateReplayText(t, limit).len <= limit
         /\ t.own > 0 => truncateReplayText(t, limit).own > 0
         /\ truncateReplayText(t, limit).own <= t.own
<1>1. CASE t.len <= limit
  BY <1>1 DEF truncateReplayText, IsText
<1>2. CASE ~(t.len <= limit)
  <2> DEFINE own == IF t.own < limit THEN t.own ELSE limit - 1
  <2>1. truncateReplayText(t, limit) = [says |-> t.says, own |-> own, len |-> limit]
    BY <1>2 DEF truncateReplayText, IsText
  <2> QED BY <2>1 DEF IsText
<1> QED BY <1>1, <1>2

LEMMA EncodedType ==
  ASSUME NEW t, IsText(t)
  PROVE  /\ IsText(Encoded(t))
         /\ Encoded(t).says = t.says /\ Encoded(t).own = t.own
         /\ Encoded(t).len <= t.len + 1
         /\ t # NoResult => Encoded(t).len = t.len + 1 /\ Encoded(t) \notin {NoCall, NoResult}
         /\ t = NoResult => Encoded(t) = NoResult
<1>1. CASE t = NoResult
  BY <1>1 DEF Encoded, IsText
<1>2. CASE t # NoResult
  <2>1. Encoded(t) = [says |-> t.says, own |-> t.own, len |-> t.len + 1]
    BY <1>2 DEF Encoded, IsText
  <2>2. NoCall.len = 0 /\ NoResult.len = 0 BY DEF NoCall, NoResult, Absent
  <2> QED BY <2>1, <2>2, <1>2 DEF IsText
<1> QED BY <1>1, <1>2

-----------------------------------------------------------------------------
(* Answers *)

LEMMA AnswerType ==
  ASSUME NEW tool \in ExecTools \cup InteractionTools \cup EditTools,
         NEW a \in AnswersTo(tool)
  PROVE  /\ a.len \in Nat
         /\ a.case \in CasesOf(tool)
         /\ a.case # "not_told"
         /\ a.case \notin {"success", "failure", "background"} => a.len = 0
         /\ tool \notin WithContent => a.len = 0
         /\ tool = "WebFetch" /\ a.case = "success" => a.len # 0
         /\ tool \in EditTools => a.case \in {"success", "error"}
         /\ a.finds \subseteq {"duckduckgo", "bing", "baidu"}
         /\ a.case \notin {"output", "no_matches", "unknown_case"}
<1> DEFINE cases == IF tool \in EditTools THEN {"success", "error"} ELSE CasesOf(tool)
           sized == IF tool \in WithContent THEN Lengths \ (IF tool = "WebFetch" THEN {0} ELSE {}) ELSE {0}
           finds == IF tool = "WebSearch" THEN SUBSET {"duckduckgo", "bing", "baidu"} ELSE {{}}
<1>1. a \in [case : cases \ {"success", "failure", "background"}, len : {0}, finds : {{}}]
            \cup [case : cases \cap {"success", "failure", "background"}, len : sized, finds : finds]
  BY DEF AnswersTo
<1>2. sized \subseteq Nat /\ (tool \notin WithContent => sized = {0}) /\ (tool = "WebFetch" => 0 \notin sized)
  <2>1. Lengths \subseteq Nat BY BoundsAssumption
  <2>2. "WebFetch" \in WithContent BY DEF WithContent, InteractionTools
  <2> QED BY <2>1, <2>2
<1>3. finds \subseteq SUBSET {"duckduckgo", "bing", "baidu"}
  OBVIOUS
<1>4. a.case \in cases /\ a.len \in sized \cup {0} /\ a.finds \in finds \cup {{}}
  <2> HIDE DEF cases, sized, finds
  <2> QED BY <1>1
<1>5. a.case \notin {"success", "failure", "background"} => a.len = 0
  <2> HIDE DEF cases, sized, finds
  <2> QED BY <1>1
<1>6. tool = "WebFetch" /\ a.case = "success" => a.len \in sized
  <2> HIDE DEF cases, sized, finds
  <2> QED BY <1>1
<1>7. cases \subseteq CasesOf(tool)
  BY DEF CasesOf
<1>8. \A c \in CasesOf(tool) : c # "not_told" /\ c \notin {"output", "no_matches", "unknown_case"}
  BY DEF CasesOf, FetchFailures
<1>9. tool \in EditTools => cases = {"success", "error"}
  OBVIOUS
<1> HIDE DEF cases, sized, finds
<1>10. a.len \in sized \/ a.len = 0 BY <1>4
<1>15. a.len \in Nat
  <2>1. CASE a.len \in sized BY <2>1, <1>2
  <2>2. CASE a.len = 0 BY <2>2
  <2> QED BY <2>1, <2>2, <1>10
<1>16. tool \notin WithContent => a.len = 0 BY <1>2, <1>10
<1>11. tool = "WebFetch" /\ a.case = "success" => a.len # 0 BY <1>2, <1>6
<1>12. a.case \in CasesOf(tool) BY <1>4, <1>7
<1>13. tool \in EditTools => a.case \in {"success", "error"} BY <1>4, <1>9
<1>14. a.finds \subseteq {"duckduckgo", "bing", "baidu"} BY <1>3, <1>4
<1> QED BY <1>5, <1>8, <1>11, <1>15, <1>16, <1>12, <1>13, <1>14

LEMMA NamedType ==
  ASSUME NEW a, a.case # "not_told", a.case \notin {"output", "no_matches"}
  PROVE  /\ IsText(Named(a)) /\ Named(a).own = 0 /\ Named(a).len = 1
         /\ a.case # "success" => Named(a).says \notin Boasts
BY DEF Named, Line, IsText, Boasts

LEMMA KeepsType ==
  \A what \in {"read", "stream", "grep", "mcp", "search", "fetch"} : Keeps[what] \in Nat \ {0, 1}
BY KeepsAssumption

LEMMA LongEnough == ASSUME NEW t, t.len > 0 PROVE t \notin {NoCall, NoResult, NoText, NotTold}
<1>1. NoCall.len = 0 /\ NoResult.len = 0 /\ NoText.len = 0 /\ NotTold.len = 0
  BY DEF NoCall, NoResult, NoText, NotTold, Absent
<1> QED BY <1>1

\* Where the content of the answer is what both forms keep.
LEMMA KeptContent ==
  ASSUME NEW a, a.len \in Nat, a.case # "not_told", a.case \notin {"output", "no_matches"},
         NEW what \in {"read", "stream", "grep", "mcp", "search", "fetch"}
  PROVE  LET kept == IF HasContent(a) THEN truncateReplayText(Body(a.len), Keeps[what]) ELSE Named(a)
         IN  /\ IsText(kept) /\ kept.len > 0
             /\ a.case # "success" => kept.says \notin Boasts /\ kept.len = 1
             /\ HasContent(a) => kept.own > 0
<1>1. CASE HasContent(a)
  <2>1. IsText(Body(a.len)) /\ Body(a.len).own > 0 BY <1>1, BodyType DEF Body, HasContent
  <2>2. Body(a.len).len > 0 BY <1>1 DEF Body, HasContent
  <2>3. /\ IsText(truncateReplayText(Body(a.len), Keeps[what])) 
        /\ truncateReplayText(Body(a.len), Keeps[what]).own > 0
    BY <2>1, TruncateType, KeepsType
  <2>4. truncateReplayText(Body(a.len), Keeps[what]).len > 0
    BY <2>2, KeepsType DEF truncateReplayText, Body
  <2> QED BY <1>1, <2>3, <2>4 DEF HasContent
<1>2. CASE ~HasContent(a)
  BY <1>2, NamedType
<1> QED BY <1>1, <1>2

LEMMA AsSentTells ==
  ASSUME NEW tool, NEW a, a.len \in Nat, a.case # "not_told", a.case \notin {"output", "no_matches"}
  PROVE  /\ IsText(AsSent(a))
         /\ a.case = "nil" <=> AsSent(a) = NoResult
         /\ a.case # "success" => AsSent(a).says \notin Boasts /\ AsSent(a).len <= 1
         /\ HasContent(a) => AsSent(a).own > 0
         /\ AsSent(a) # NoCall
<1>0. NoCall.len = 0 /\ NoCall # NoResult BY DEF NoCall, NoResult, Absent
<1>1. CASE a.case = "nil"
  BY <1>0, <1>1 DEF AsSent, NoResult, Absent, IsText, Boasts, HasContent
<1>2. CASE a.case = "unset"
  <2>1. AsSent(a) = Line("blank") BY <1>2 DEF AsSent, HasContent
  <2> QED BY <1>0, <1>2, <2>1 DEF Line, NoResult, Absent, IsText, Boasts, HasContent
<1>3. CASE HasContent(a)
  <2>1. AsSent(a) = Body(a.len) BY <1>3 DEF AsSent, HasContent
  <2> QED BY <1>0, <1>3, <2>1 DEF Body, NoResult, Absent, IsText, Boasts, HasContent
<1>4. CASE a.case \notin {"nil", "unset"} /\ ~HasContent(a)
  <2>1. AsSent(a) = Line(a.case) BY <1>4 DEF AsSent
  <2> QED BY <1>0, <1>4, <2>1 DEF Line, NoResult, Absent, IsText, Boasts
<1> QED BY <1>1, <1>2, <1>3, <1>4 DEF HasContent

-----------------------------------------------------------------------------
(* The exec bridge *)

LEMMA ExecHeard ==
  ASSUME NEW tool \in ExecTools, NEW a
  PROVE  Heard(tool, a) = [case |-> a.case, len |-> a.len]
BY DEF ExecTools, Heard

\* Two texts, of which the second is stored as the call.
LEMMA PairTells ==
  ASSUME NEW tool, NEW h, NEW t, NEW s, IsText(t), IsText(s), s \notin {NoCall, NoResult},
         Fails(h) => /\ s.says \notin Boasts
                     /\ \/ t.says \notin Boasts
                        \/ s.len <= 1
                        \/ tool = "Shell" /\ s.len <= Keeps["stream"],
         Yields(h) /\ tool \notin {"Grep", "CallMcpTool"} =>
            s.own > 0 /\ (t.own > 0 \/ tool \notin LimitedTools)
  PROVE  OutcomeTells(tool, [text |-> t, stored |-> Encoded(s)], h)
<1> DEFINE o == [text |-> t, stored |-> Encoded(s)]
<1>1. /\ IsText(Encoded(s)) /\ Encoded(s).says = s.says /\ Encoded(s).own = s.own
      /\ Encoded(s).len = s.len + 1 /\ Encoded(s) \notin {NoCall, NoResult}
  BY EncodedType
<1>2. o.text = t /\ o.stored = Encoded(s) OBVIOUS
<1>3. s.len \in Nat BY DEF IsText
<1>4. Keeps["stream"] \in Nat BY KeepsType
<1>7. o.stored \notin {NoCall, NoResult} BY <1>1, <1>2
<1> HIDE DEF o
<1>5. Fails(h) => /\ NoStored(o) \/ o.stored.says \notin Boasts
                  /\ o.text.says \notin Boasts \/ (~NoStored(o) /\ Small(tool, o.stored))
  BY <1>1, <1>2, <1>3, <1>4 DEF NoStored, Small
<1>6. Yields(h) /\ tool \notin {"Grep", "CallMcpTool"} =>
        /\ NoStored(o) \/ o.stored.own > 0
        /\ o.text.own > 0 \/ (~NoStored(o) /\ tool \notin LimitedTools)
  BY <1>1, <1>2 DEF NoStored
<1>8. OutcomeTells(tool, o, h)
  BY <1>1, <1>2, <1>5, <1>6, <1>7 DEF OutcomeTells
<1> QED BY <1>8 DEF o

\* A text beside the result as the client sent it.
LEMMA AsSentPair ==
  ASSUME NEW tool, NEW a, a.len \in Nat, a.case # "not_told", a.case \notin {"output", "no_matches"},
         NEW h, h.case = a.case, h.len = a.len,
         NEW t, IsText(t), a.case # "success" => t.says \notin Boasts,
         buildStartedToolCall(tool) \/ a.case # "nil",
         Yields(h) /\ tool \notin {"Grep", "CallMcpTool"} => t.own > 0 \/ tool \notin LimitedTools
  PROVE  OutcomeTells(tool, [text |-> t, stored |-> Encoded(AsSent(a))], h)
<1>1. /\ IsText(AsSent(a))
      /\ a.case = "nil" <=> AsSent(a) = NoResult
      /\ a.case # "success" => AsSent(a).says \notin Boasts /\ AsSent(a).len <= 1
      /\ HasContent(a) => AsSent(a).own > 0
      /\ AsSent(a) # NoCall
  BY AsSentTells
<1>F. /\ Yields(h) => HasContent(a)
      /\ Fails(h) => a.case # "success"
  BY DEF Yields, Fails, HasContent
<1>2. CASE a.case = "nil"
  <2>1. Encoded(AsSent(a)) = NoResult BY <1>1, <1>2 DEF Encoded
  <2> DEFINE p == [text |-> t, stored |-> NoResult]
  <2>2. p.text = t /\ p.stored = NoResult OBVIOUS
  <2>3. IsText(NoResult) BY DEF IsText, NoResult, Absent
  <2>4. ~Yields(h) BY <1>2 DEF Yields
  <2>5. NoStored(p) BY <2>2 DEF NoStored
  <2>6. t.says \notin Boasts /\ buildStartedToolCall(tool) BY <1>2
  <2> HIDE DEF p
  <2>7. OutcomeTells(tool, p, h)
    BY <2>2, <2>3, <2>4, <2>5, <2>6 DEF OutcomeTells
  <2> QED BY <2>1, <2>7 DEF p
<1>3. CASE a.case # "nil"
  <2>1. AsSent(a) \notin {NoCall, NoResult} BY <1>1, <1>3
  <2> QED BY <1>1, <1>F, <2>1, PairTells
<1> QED BY <1>2, <1>3

\* Every case of every answer to the exec bridge is stored in a form that
\* tells it: ApplyExecClientMessage.
LEMMA ExecTells ==
  ASSUME NEW tool \in ExecTools, NEW a \in AnswersTo(tool), ~Refuses(tool, a),
         tool = "Shell" => IsShellEnd(a)
  PROVE  OutcomeTells(tool, ApplyExecClientMessage(tool, a), Heard(tool, a))
<1> DEFINE o == ApplyExecClientMessage(tool, a)
           h == [case |-> a.case, len |-> a.len]
<1>0. /\ a.len \in Nat /\ a.case # "not_told" /\ a.case \notin {"output", "no_matches"}
      /\ a.case \in CasesOf(tool)
      /\ a.case \notin {"success", "failure", "background"} => a.len = 0
      /\ tool \notin WithContent => a.len = 0
  BY AnswerType
<1>h. h.case = a.case /\ h.len = a.len /\ Heard(tool, a) = h
  BY ExecHeard
<1> SUFFICES OutcomeTells(tool, o, h)
  BY <1>h
<1>N. /\ IsText(Named(a)) /\ Named(a).own = 0 /\ Named(a).len = 1
      /\ a.case # "success" => Named(a).says \notin Boasts
  BY <1>0, NamedType
<1>F. /\ h.case # "success" => ~Yields(h)
      /\ Yields(h) => a.case = "success" /\ a.len > 0 /\ HasContent(a)
      /\ Fails(h) => a.case \notin {"success", "background"}
  BY <1>h DEF Yields, Fails, HasContent
<1>L. Named(a) \notin {NoCall, NoResult}
  BY <1>N, LongEnough
<1>B. /\ IsText(Body(a.len)) /\ Body(a.len).own = a.len /\ Body(a.len).len = a.len
      /\ Body(a.len).says = "success"
      /\ a.len > 0 => Body(a.len) \notin {NoCall, NoResult}
  BY <1>0, BodyType, LongEnough DEF Body
<1> HIDE DEF h
<1>1. CASE tool = "Read"
  <2> DEFINE kept == IF HasContent(a) THEN truncateReplayText(Body(a.len), Keeps["read"]) ELSE Named(a)
  <2>1. /\ IsText(kept) /\ kept.len > 0
        /\ a.case # "success" => kept.says \notin Boasts /\ kept.len = 1
        /\ HasContent(a) => kept.own > 0
    BY <1>0, KeptContent
  <2>2. kept \notin {NoCall, NoResult} BY <2>1, LongEnough
  <2>3. o = [text |-> kept, stored |-> Encoded(kept)]
    BY <1>1 DEF ApplyExecClientMessage, summarizeWorkspaceResult, buildReadCompletedToolCall,
                convertReadResultToReadToolResult
  <2> HIDE DEF kept, o
  <2> QED BY <1>F, <2>1, <2>2, <2>3, PairTells
<1>2. CASE tool = "Glob"
  <2> DEFINE b == truncateGlobResultForReplay(a)
             t == summarizeGlobContinuationPayload(b)
             s == convertGrepResultToGlobToolResult(b)
  <2>1. o = [text |-> t, stored |-> Encoded(s)]
    BY <1>2 DEF ApplyExecClientMessage, buildGlobCompletedToolCall
  <2>2. CASE a.case = "success"
    <3> DEFINE n == IF a.len > MaxFiles THEN MaxFiles ELSE a.len
    <3>1. n \in Nat /\ (a.len > 0 => n > 0)
      BY <1>0, MaxFilesAssumption
    <3>2. b.case = "success" /\ b.len = n
      BY <2>2 DEF truncateGlobResultForReplay
    <3> HIDE DEF n, b
    <3>3. s = Body(n) /\ (n > 0 => t = Body(n)) /\ (~(n > 0) => t = Line("no_matches"))
      BY <3>2 DEF summarizeGlobContinuationPayload, convertGrepResultToGlobToolResult, HasContent
    <3>4. IsText(s) /\ s \notin {NoCall, NoResult} /\ s.own = n
      BY <3>1, <3>3, BodyType DEF Body, NoCall, NoResult, Absent
    <3>5. IsText(t) /\ (n > 0 => t.own = n)
      BY <3>1, <3>3, BodyType, LineType DEF Body
    <3> HIDE DEF o, s, t
    <3> QED BY <1>F, <2>1, <2>2, <3>1, <3>4, <3>5, PairTells
  <2>3. CASE a.case # "success"
    <3>1. b = a BY <2>3 DEF truncateGlobResultForReplay
    <3>2. t = Line("no_matches") /\ s = Named(a)
      BY <2>3, <3>1 DEF summarizeGlobContinuationPayload, convertGrepResultToGlobToolResult, HasContent
    <3>3. IsText(t) BY <3>2, LineType
    <3> HIDE DEF o, s, t
    <3> QED BY <1>F, <1>N, <1>L, <2>1, <2>3, <3>2, <3>3, PairTells
  <2> QED BY <2>2, <2>3
<1>3. CASE tool = "Grep"
  <2> DEFINE s == IF a.case \in {"nil", "unset"} THEN AsSent(a) ELSE truncateGrepResultForReplay(a)
  <2>1. o = [text |-> Named(a), stored |-> Encoded(s)]
    BY <1>3 DEF ApplyExecClientMessage, summarizeWorkspaceResult, buildGrepCompletedToolCall
  <2>2. CASE s = NoResult
    <3>1. Encoded(s) = NoResult BY <2>2 DEF Encoded
    <3>2. o.text = Named(a) /\ o.stored = NoResult BY <2>1, <3>1
    <3>3. IsText(NoResult) BY DEF IsText, NoResult, Absent
    <3>4. a.case # "success" BY <2>2 DEF truncateGrepResultForReplay, NoResult, Absent, Body, AsSent, HasContent
    <3>5. buildStartedToolCall(tool) BY <1>3 DEF buildStartedToolCall
    <3> HIDE DEF o, s
    <3> QED BY <1>3, <1>F, <1>N, <3>2, <3>3, <3>4, <3>5 DEF OutcomeTells, NoStored
  <2>3. CASE a.case = "success"
    <3>1. s = [says |-> "success", own |-> s.own, len |-> s.len] /\ s.own \in Nat /\ s.len \in Nat
      BY <1>0, <2>3, KeepsType DEF truncateGrepResultForReplay, Body
    <3>2. IsText(s) /\ s \notin {NoCall, NoResult}
      BY <3>1 DEF IsText, NoCall, NoResult, Absent
    <3> HIDE DEF o, s
    <3> QED BY <1>3, <1>F, <1>N, <2>1, <2>3, <3>2, PairTells
  <2>4. CASE a.case # "success" /\ s # NoResult
    <3>1. a.case # "nil"
      <4> SUFFICES ASSUME a.case = "nil" PROVE FALSE OBVIOUS
      <4>1. AsSent(a) = NoResult BY <1>0, AsSentTells
      <4> QED BY <2>4, <4>1
    <3>2. s = IF a.case = "unset" THEN Line("blank") ELSE Named(a)
      BY <2>4, <3>1 DEF AsSent, truncateGrepResultForReplay, HasContent
    <3>3. IsText(s) /\ s.says \notin Boasts /\ s \notin {NoCall, NoResult}
      BY <1>N, <1>L, <2>4, <3>2 DEF Line, IsText, Boasts, NoCall, NoResult, Absent
    <3> HIDE DEF o, s
    <3> QED BY <1>3, <1>F, <1>N, <2>1, <2>4, <3>3, PairTells
  <2> QED BY <2>2, <2>3, <2>4
<1>4. CASE tool = "ReadLints"
  <2> DEFINE s == convertDiagnosticsResultToReadLintsToolResult(a)
  <2>1. o = [text |-> Named(a), stored |-> Encoded(s)]
    BY <1>4 DEF ApplyExecClientMessage, summarizeWorkspaceResult, buildLintsCompletedToolCall
  <2>2. CASE HasContent(a)
    <3>1. s = Body(a.len) BY <2>2 DEF convertDiagnosticsResultToReadLintsToolResult, HasContent
    <3> HIDE DEF o, s
    <3> QED BY <1>4, <1>F, <1>N, <1>B, <2>1, <2>2, <3>1, PairTells DEF HasContent, LimitedTools, EditTools
  <2>3. CASE ~HasContent(a)
    <3>1. s = Named(a) \/ s = Line("unknown")
      BY <2>3 DEF convertDiagnosticsResultToReadLintsToolResult
    <3>2. IsText(s) /\ s \notin {NoCall, NoResult} /\ (a.case # "success" => s.says \notin Boasts)
      BY <1>N, <1>L, <3>1 DEF Line, IsText, Boasts, NoCall, NoResult, Absent
    <3> HIDE DEF o, s
    <3> QED BY <1>F, <1>N, <2>1, <2>3, <3>2, PairTells
  <2> QED BY <2>2, <2>3
<1>5. CASE tool \in {"Delete", "Ls", "WriteShellStdin"}
  <2> DEFINE t == IF tool = "WriteShellStdin" THEN summarizeShellInput(a) ELSE Named(a)
  <2>1. o = [text |-> t, stored |-> Encoded(AsSent(a))]
    BY <1>5 DEF ApplyExecClientMessage, summarizeWorkspaceResult, summarizeRemoteResult
  <2>2. IsText(t) /\ (a.case # "success" => t.says \notin Boasts)
    BY <1>N DEF summarizeShellInput, Line, IsText, Boasts
  <2>3. tool \notin LimitedTools /\ buildStartedToolCall(tool)
    BY <1>5 DEF LimitedTools, EditTools, buildStartedToolCall
  <2> HIDE DEF o, t
  <2> QED BY <1>0, <1>h, <2>1, <2>2, <2>3, AsSentPair
<1>6. CASE tool = "CallMcpTool"
  <2> DEFINE c == convertMcpResult(a)
             s == truncateMcpToolResultForReplay(c)
  <2>1. o = [text |-> Named(a), stored |-> Encoded(s)]
    BY <1>6 DEF ApplyExecClientMessage, summarizeRemoteResult, buildMcpCompletedToolCall
  <2>2. CASE HasContent(a)
    <3>1. c = Body(a.len) BY <2>2 DEF convertMcpResult
    <3>2. Keeps["mcp"] \in Nat \ {0, 1} BY KeepsType
    <3>3. s = [says |-> "success", own |-> s.own, len |-> s.len] /\ s.own \in Nat /\ s.len \in Nat
      BY <1>0, <3>1, <3>2 DEF truncateMcpToolResultForReplay, Body
    <3>4. IsText(s) /\ s \notin {NoCall, NoResult}
      BY <3>3 DEF IsText, NoCall, NoResult, Absent
    <3> HIDE DEF o, s, c
    <3> QED BY <1>6, <1>F, <1>N, <2>1, <2>2, <3>4, PairTells DEF HasContent
  <2>3. CASE ~HasContent(a)
    <3>1. c = Named(a) BY <2>3 DEF convertMcpResult
    <3>2. Keeps["mcp"] \in Nat \ {0, 1} BY KeepsType
    <3>3. s = Named(a)
      BY <1>N, <3>1, <3>2 DEF truncateMcpToolResultForReplay
    <3> HIDE DEF o, s, c
    <3> QED BY <1>F, <1>N, <1>L, <2>1, <2>3, <3>3, PairTells
  <2> QED BY <2>2, <2>3
<1>7. CASE tool = "FetchMcpResource"
  <2> DEFINE kept == IF HasContent(a) THEN truncateReplayText(Body(a.len), Keeps["mcp"]) ELSE Named(a)
  <2>1. /\ IsText(kept) /\ kept.len > 0
        /\ a.case # "success" => kept.says \notin Boasts /\ kept.len = 1
        /\ HasContent(a) => kept.own > 0
    BY <1>0, KeptContent
  <2>2. kept \notin {NoCall, NoResult} BY <2>1, LongEnough
  <2>3. CASE a.case \in {"nil", "unset"}
    <3>1. o = [text |-> kept, stored |-> Encoded(AsSent(a))]
      BY <1>7, <2>3 DEF ApplyExecClientMessage, summarizeResourceResult, buildResourceCompletedToolCall
    <3>2. buildStartedToolCall(tool) BY <1>7 DEF buildStartedToolCall
    <3> HIDE DEF kept, o
    <3> QED BY <1>0, <1>h, <1>F, <2>1, <3>1, <3>2, AsSentPair
  <2>4. CASE a.case \notin {"nil", "unset"}
    <3>1. o = [text |-> kept, stored |-> Encoded(kept)]
      BY <1>7, <2>4 DEF ApplyExecClientMessage, summarizeResourceResult, buildResourceCompletedToolCall,
                        truncateMcpResourceForReplay
    <3> HIDE DEF kept, o
    <3> QED BY <1>F, <2>1, <2>2, <3>1, PairTells
  <2> QED BY <2>3, <2>4
<1>8. CASE tool = "Task"
  <2> DEFINE s == summarizeWorkspaceResult(tool, a)
  <2>1. o = [text |-> s, stored |-> Encoded(s)]
    BY <1>8 DEF ApplyExecClientMessage, summarizeWorkspaceResult, buildTaskCompletedToolCall,
                convertSubagentResultToTaskResult
  <2>2. CASE a.case \in {"success", "background"} /\ a.len > 0
    <3>1. s = Body(a.len) BY <1>8, <2>2 DEF summarizeWorkspaceResult
    <3> HIDE DEF o, s
    <3> QED BY <1>F, <1>B, <2>1, <2>2, <3>1, PairTells
  <2>3. CASE ~(a.case \in {"success", "background"} /\ a.len > 0)
    <3>1. s = Line("empty") \/ s = Named(a)
      BY <1>8, <2>3 DEF summarizeWorkspaceResult, HasContent
    <3>2. IsText(s) /\ s \notin {NoCall, NoResult} /\ (a.case # "success" => s.says \notin Boasts)
      BY <1>N, <1>L, <3>1 DEF Line, IsText, Boasts, NoCall, NoResult, Absent
    <3> HIDE DEF o, s
    <3> QED BY <1>F, <2>1, <2>3, <3>2, PairTells
  <2> QED BY <2>2, <2>3
<1>9. CASE tool = "ForceBackgroundShell"
  <2> DEFINE t == summarizeShellInput(a)
  <2>1. o.text = t /\ o.stored = NoCall
    BY <1>9 DEF ApplyExecClientMessage
  <2>2. IsText(t) /\ (a.case # "success" => t.says \notin Boasts)
    BY <1>N DEF summarizeShellInput, Line, IsText, Boasts
  <2>3. a.len = 0 BY <1>0, <1>9 DEF WithContent, InteractionTools, EditTools
  <2>4. IsText(NoCall) /\ NoCall # NoResult BY DEF IsText, NoCall, NoResult, Absent
  <2> HIDE DEF o, t
  <2> QED BY <1>F, <2>1, <2>2, <2>3, <2>4 DEF OutcomeTells, NoStored
<1>10. CASE tool = "Shell"
  <2>0. a.case \notin {"nil", "unset", "output"} /\ IsShellEnd(a)
    BY <1>10 DEF IsShellEnd
  <2>1. CASE a.case \in {"success", "failure"}
    <3> DEFINE b == truncateReplayText(Body(a.len), Keeps["stream"])
               s == [says |-> a.case, own |-> b.own, len |-> b.len + 1]
               t == summarizeShellTerminalPayload(a)
    <3>1. o = [text |-> t, stored |-> s]
      BY <1>10, <2>1 DEF ApplyExecClientMessage, buildShellCompletedToolCall
    <3>2. /\ IsText(b) /\ b.len <= Keeps["stream"] /\ (a.len > 0 => b.own > 0)
      BY <1>B, TruncateType, KeepsType
    <3>3. b.len \in Nat /\ b.own \in Nat /\ Keeps["stream"] \in Nat BY <3>2, KeepsType DEF IsText
    <3> HIDE DEF b
    <3>4. s.says = a.case /\ s.own = b.own /\ s.len = b.len + 1 /\ IsText(s)
      BY <1>0, <3>3 DEF IsText
    <3>5. s \notin {NoCall, NoResult}
      BY <3>3, <3>4, LongEnough
    <3>6. IsText(t) /\ (a.len > 0 => t.own > 0)
      <4>1. CASE a.len > 0
        <5>1. t = [says |-> "output", own |-> a.len, len |-> a.len]
          BY <4>1 DEF summarizeShellTerminalPayload, Body
        <5> QED BY <1>0, <4>1, <5>1 DEF IsText
      <4>2. CASE ~(a.len > 0)
        BY <1>N, <4>2 DEF summarizeShellTerminalPayload
      <4> QED BY <4>1, <4>2
    <3>7. o.text = t /\ o.stored = s BY <3>1
    <3> HIDE DEF o, s, t
    <3>8. a.case = "failure" => s.says \notin Boasts BY <3>4 DEF Boasts
    <3>9. s.len <= Keeps["stream"] + 1 BY <3>2, <3>3, <3>4
    <3>10. NoStored(o) <=> FALSE BY <3>5, <3>7 DEF NoStored
    <3>11. Small(tool, s) BY <1>10, <3>9 DEF Small
    <3>12. Fails(h) => /\ NoStored(o) \/ o.stored.says \notin Boasts
                       /\ o.text.says \notin Boasts \/ (~NoStored(o) /\ Small(tool, o.stored))
      BY <1>F, <2>1, <3>7, <3>8, <3>10, <3>11
    <3>13. Yields(h) => o.stored.own > 0 /\ o.text.own > 0
      BY <1>F, <3>2, <3>4, <3>6, <3>7
    <3> QED BY <3>4, <3>5, <3>6, <3>7, <3>10, <3>12, <3>13 DEF OutcomeTells
  <2>2. CASE a.case \notin {"success", "failure"}
    <3>1. o = [text |-> Named(a), stored |-> Encoded(Named(a))]
      BY <1>10, <2>2 DEF ApplyExecClientMessage, buildShellEndedToolCall
    <3> HIDE DEF o
    <3> QED BY <1>F, <1>N, <1>L, <2>2, <3>1, PairTells
  <2> QED BY <2>1, <2>2
<1> QED BY <1>1, <1>2, <1>3, <1>4, <1>5, <1>6, <1>7, <1>8, <1>9, <1>10 DEF ExecTools

-----------------------------------------------------------------------------
(* The interaction bridge *)

\* What was fetched before is a page.
CachedOK == cached = NoText \/ (IsText(cached) /\ cached.says = "success")

\* A free engine is found for a query exactly if one of them finds something.
LEMMA FreeChain ==
  ASSUME NEW finds, finds \subseteq {"duckduckgo", "bing", "baidu"}, NEW head
  PROVE  executeFreeSearchChain(head, finds) = "" <=> finds = {}
<1> DEFINE chain == freeWebSearchChain(head)
           hits  == {i \in 1..Len(chain) : chain[i] \in finds}
<1>1. /\ Len(chain) = 3
      /\ \A i \in 1..3 : chain[i] # ""
      /\ \A e \in {"duckduckgo", "bing", "baidu"} : \E i \in 1..3 : chain[i] = e
  <2>1. chain \in {<<"bing", "duckduckgo", "baidu">>, <<"baidu", "duckduckgo", "bing">>,
                   <<"duckduckgo", "bing", "baidu">>}
    BY DEF freeWebSearchChain
  <2>2. CASE chain = <<"bing", "duckduckgo", "baidu">>
    BY <2>2
  <2>3. CASE chain = <<"baidu", "duckduckgo", "bing">>
    BY <2>3
  <2>4. CASE chain = <<"duckduckgo", "bing", "baidu">>
    BY <2>4
  <2> QED BY <2>1, <2>2, <2>3, <2>4
<1>2. executeFreeSearchChain(head, finds)
        = IF hits = {} THEN "" ELSE chain[CHOOSE i \in hits : \A j \in hits : i <= j]
  BY DEF executeFreeSearchChain
<1> HIDE DEF chain
<1>3. hits \subseteq 1..3 BY <1>1
<1>4. CASE finds = {}
  <2>1. hits = {} BY <1>4
  <2> QED BY <1>2, <1>4, <2>1
<1>5. CASE finds # {}
  <2>1. PICK e \in finds : e \in {"duckduckgo", "bing", "baidu"} BY <1>5
  <2>2. PICK i \in 1..3 : chain[i] = e BY <1>1, <2>1
  <2>3. i \in hits BY <1>1, <2>1, <2>2
  <2>4. \E k \in hits : \A j \in hits : k <= j
    <3> HIDE DEF hits
    <3>1. CASE 1 \in hits BY <1>3, <3>1
    <3>2. CASE 1 \notin hits /\ 2 \in hits BY <1>3, <3>2
    <3>3. CASE 1 \notin hits /\ 2 \notin hits
      <4>1. i = 3 BY <1>3, <2>3, <3>3
      <4> QED BY <1>3, <2>3, <3>3, <4>1
    <3> QED BY <3>1, <3>2, <3>3
  <2>5. (CHOOSE k \in hits : \A j \in hits : k <= j) \in 1..3
    <3> HIDE DEF hits
    <3> QED BY <1>3, <2>4
  <2>6. hits # {} BY <2>3
  <2> HIDE DEF hits
  <2> QED BY <1>1, <1>2, <1>5, <2>5, <2>6
<1> QED BY <1>4, <1>5

\* A search, a fetch and a question are stored in a form that tells what
\* came of them: ApplyInteractionResponse.
LEMMA InteractionTells ==
  ASSUME NEW tool \in InteractionTools, NEW a \in AnswersTo(tool), CachedOK
  PROVE  /\ OutcomeTells(tool, ApplyInteractionResponse(tool, a, cached), Heard(tool, a))
         /\ IsText(ApplyInteractionResponse(tool, a, cached).text)
<1> DEFINE o == ApplyInteractionResponse(tool, a, cached)
           h == Heard(tool, a)
<1> SUFFICES OutcomeTells(tool, o, h)
  BY DEF OutcomeTells
<1>0. /\ a.len \in Nat /\ a.case # "not_told" /\ a.case \notin {"output", "no_matches"}
      /\ a.case \in CasesOf(tool)
      /\ a.case \notin {"success", "failure", "background"} => a.len = 0
      /\ tool \notin WithContent => a.len = 0
      /\ a.finds \subseteq {"duckduckgo", "bing", "baidu"}
  BY AnswerType
<1>N. /\ IsText(Named(a)) /\ Named(a).own = 0 /\ Named(a).len = 1
      /\ a.case # "success" => Named(a).says \notin Boasts
      /\ Named(a) \notin {NoCall, NoResult}
  BY <1>0, NamedType, LongEnough
<1>B. /\ IsText(Body(a.len)) /\ Body(a.len).own = a.len /\ Body(a.len).says = "success"
      /\ Body(a.len) \notin {NoCall, NoResult}
  BY <1>0, BodyType DEF Body, NoCall, NoResult, Absent
<1>P. ASSUME NEW r, IsText(r), r \notin {NoCall, NoResult}, Fails(h) => r.says \notin Boasts,
             Yields(h) => r.own > 0, o = [text |-> r, stored |-> Encoded(r)]
      PROVE  OutcomeTells(tool, o, h)
  <2> HIDE DEF o, h
  <2> QED BY <1>P, PairTells
<1>1. CASE tool = "AskQuestion"
  <2>1. o = [text |-> Named(a), stored |-> Encoded(AsSent(a))]
    BY <1>1 DEF ApplyInteractionResponse, summarizeAskQuestionResponse
  <2>2. h = [case |-> a.case, len |-> a.len] BY <1>1 DEF Heard
  <2>3. tool \notin LimitedTools /\ buildStartedToolCall(tool)
    BY <1>1 DEF LimitedTools, EditTools, buildStartedToolCall
  <2>4. h.case = a.case /\ h.len = a.len BY <2>2
  <2> HIDE DEF o, h
  <2> QED BY <1>0, <1>N, <2>1, <2>3, <2>4, AsSentPair
<1>2. CASE tool = "CreatePlan"
  <2> DEFINE b == normalizeCreatePlanResult(a)
  <2>1. o = [text |-> Named(b), stored |-> Encoded(AsSent(b))]
    BY <1>2 DEF ApplyInteractionResponse, summarizeCreatePlanResult
  <2>2. h.case = b.case /\ h.len = b.len /\ b.len \in Nat
        /\ b.case # "not_told" /\ b.case \notin {"output", "no_matches"}
    <3>0. a = [case |-> a.case, len |-> a.len, finds |-> a.finds]
      <4> DEFINE sized == IF tool \in WithContent THEN Lengths \ (IF tool = "WebFetch" THEN {0} ELSE {}) ELSE {0}
      <4>1. \E C1, C2, L : a \in [case : C1, len : {0}, finds : {{}}] \cup [case : C2, len : L, finds : {{}}]
        BY <1>2 DEF AnswersTo
      <4> QED BY <4>1
    <3>1. CASE a.case = "success" /\ a.len = 0
      <4>1. b = [a EXCEPT !.case = "no_uri"] BY <3>1 DEF normalizeCreatePlanResult
      <4>2. b.case = "no_uri" /\ b.len = a.len BY <3>0, <4>1
      <4>3. h = Nothing("no_uri") BY <1>2, <3>1 DEF Heard
      <4>4. h.case = "no_uri" /\ h.len = 0 BY <4>3 DEF Nothing
      <4> HIDE DEF b, h
      <4> QED BY <1>0, <3>1, <4>2, <4>4
    <3>2. CASE ~(a.case = "success" /\ a.len = 0)
      <4>1. b = a BY <3>2 DEF normalizeCreatePlanResult
      <4>2. h = [case |-> a.case, len |-> a.len] BY <1>2, <3>2 DEF Heard
      <4>3. h.case = a.case /\ h.len = a.len BY <4>2
      <4> HIDE DEF b, h
      <4> QED BY <1>0, <4>1, <4>3
    <3> QED BY <3>1, <3>2
  <2>3. tool \notin LimitedTools /\ buildStartedToolCall(tool)
    BY <1>2 DEF LimitedTools, EditTools, buildStartedToolCall
  <2> HIDE DEF o, h, b
  <2>4. IsText(Named(b)) /\ (b.case # "success" => Named(b).says \notin Boasts)
    BY <2>2, NamedType
  <2> QED BY <2>1, <2>2, <2>3, <2>4, AsSentPair
<1>3. CASE tool = "WebSearch"
  <2> DEFINE r == applyWebSearchResponse(a)
             d == dispatchWebSearch(a)
  <2>1. o = [text |-> r, stored |-> Encoded(r)]
    BY <1>3 DEF ApplyInteractionResponse
  <2>2. CASE a.case # "success"
    <3>1. r = Named(a) BY <2>2 DEF applyWebSearchResponse
    <3>2. h = [case |-> a.case, len |-> a.len] BY <1>3, <2>2 DEF Heard
    <3>3. ~Yields(h) BY <2>2, <3>2 DEF Yields
    <3> HIDE DEF o, h, r
    <3> QED BY <1>N, <1>P, <2>1, <2>2, <3>1, <3>3
  <2>3. CASE a.case = "success"
    <3>1. r = truncateReplayText(d, Keeps["search"])
      BY <2>3 DEF applyWebSearchResponse, truncateWebSearchReplay
    <3>2. ASSUME IsText(d), Fails(h) => d.says \notin Boasts, Yields(h) => d.own > 0,
                 d.says \notin {"no_call", "no_result"}
          PROVE  OutcomeTells(tool, o, h)
      <4> HIDE DEF o, h, r, d
      <4>1. IsText(r) /\ r.says = d.says /\ (d.own > 0 => r.own > 0)
        BY <3>1, <3>2, TruncateType, KeepsType
      <4>2. r \notin {NoCall, NoResult} BY <3>2, <4>1 DEF NoCall, NoResult, Absent
      <4> QED BY <1>P, <2>1, <3>2, <4>1, <4>2
    <3>3. CASE KeyMissing
      <4>1. d = Line("key_missing") BY <3>3 DEF dispatchWebSearch
      <4>2. h = Nothing("key_missing") BY <1>3, <2>3, <3>3 DEF Heard
      <4>3. ~Yields(h) BY <4>2 DEF Yields, Nothing
      <4>4. IsText(d) /\ d.says = "key_missing" /\ d.says \notin Boasts
        BY <4>1, LineType DEF Line, Boasts
      <4> HIDE DEF o, h, r, d
      <4> QED BY <3>2, <4>3, <4>4
    <3>4. CASE ~KeyMissing /\ a.finds = {}
      <4>1. d = Line("no_engine") BY <1>0, <3>4, FreeChain DEF dispatchWebSearch
      <4>2. h = Nothing("no_engine") BY <1>3, <2>3, <3>4 DEF Heard
      <4>3. ~Yields(h) BY <4>2 DEF Yields, Nothing
      <4>4. IsText(d) /\ d.says = "no_engine" /\ d.says \notin Boasts
        BY <4>1, LineType DEF Line, Boasts
      <4> HIDE DEF o, h, r, d
      <4> QED BY <3>2, <4>3, <4>4
    <3>5. CASE ~KeyMissing /\ a.finds # {}
      <4>1. d = Body(a.len) BY <1>0, <3>5, FreeChain DEF dispatchWebSearch
      <4>2. h = [case |-> a.case, len |-> a.len] BY <1>3, <2>3, <3>5 DEF Heard
      <4>3. ~Fails(h) /\ (Yields(h) => a.len > 0) BY <2>3, <4>2 DEF Yields, Fails
      <4>4. d.says \notin {"no_call", "no_result"} BY <1>B, <4>1
      <4> HIDE DEF o, h, r, d
      <4> QED BY <1>B, <3>2, <4>1, <4>3, <4>4
    <3> QED BY <3>3, <3>4, <3>5
  <2> QED BY <2>2, <2>3
<1>4. CASE tool = "WebFetch"
  <2> DEFINE r == applyWebFetchResponse(a, cached)
  <2>1. o = [text |-> r, stored |-> Encoded(r)]
    BY <1>4 DEF ApplyInteractionResponse
  <2>2. CASE a.case \in {"success"} \cup FetchFailures /\ cached # NoText
    <3>1. r = cached BY <2>2 DEF applyWebFetchResponse, executeWebFetch
    <3>2. h = [case |-> "success", len |-> cached.own] BY <1>4, <2>2 DEF Heard
    <3>3. IsText(cached) /\ cached.says = "success" BY <2>2 DEF CachedOK
    <3>4. cached \notin {NoCall, NoResult} BY <3>3 DEF NoCall, NoResult, Absent
    <3>5. ~Fails(h) /\ (Yields(h) => cached.own > 0) BY <3>2 DEF Yields, Fails
    <3> HIDE DEF o, h, r
    <3> QED BY <1>P, <2>1, <3>1, <3>3, <3>4, <3>5
  <2>3. CASE ~(a.case \in {"success"} \cup FetchFailures /\ cached # NoText)
    <3>1. h = [case |-> a.case, len |-> a.len] BY <1>4, <2>3 DEF Heard
    <3>2. h.case = a.case /\ h.len = a.len BY <3>1
    <3>3. CASE a.case = "success"
      <4>1. r = truncateReplayText(Body(a.len), Keeps["fetch"])
        BY <2>3, <3>3 DEF applyWebFetchResponse, executeWebFetch, validateWebFetchURL,
                          truncateWebFetchMarkdown, renderWebFetchMarkdown
      <4>2. IsText(r) /\ r.says = "success" /\ (a.len > 0 => r.own > 0)
        BY <1>B, <4>1, TruncateType, KeepsType
      <4>3. r \notin {NoCall, NoResult} BY <4>2 DEF NoCall, NoResult, Absent
      <4>4. ~Fails(h) /\ (Yields(h) => a.len > 0) BY <3>2, <3>3 DEF Yields, Fails
      <4> HIDE DEF o, h, r
      <4> QED BY <1>P, <2>1, <4>2, <4>3, <4>4
    <3>4. CASE a.case # "success"
      <4>1. r = Named(a)
        <5>1. Keeps["fetch"] \in Nat \ {0, 1} BY KeepsType
        <5>2. truncateReplayText(Named(a), Keeps["fetch"]) = Named(a)
          BY <1>N, <5>1 DEF truncateReplayText
        <5> QED BY <2>3, <3>4, <5>2 DEF applyWebFetchResponse, executeWebFetch, validateWebFetchURL,
                                        truncateWebFetchMarkdown, renderWebFetchMarkdown
      <4>2. ~Yields(h) BY <3>2, <3>4 DEF Yields
      <4> HIDE DEF o, h, r
      <4> QED BY <1>P, <1>N, <2>1, <3>4, <4>1, <4>2
    <3> QED BY <3>3, <3>4
  <2> QED BY <2>2, <2>3
<1>5. CASE tool = "SwitchMode"
  <2>1. o = [text |-> Named(a), stored |-> Encoded(Named(a))]
    BY <1>5 DEF ApplyInteractionResponse, buildSwitchModeResult
  <2>2. h = [case |-> a.case, len |-> a.len] BY <1>5 DEF Heard
  <2>3. a.len = 0 BY <1>0, <1>5 DEF WithContent, ExecTools, EditTools
  <2>4. ~Yields(h) /\ (Fails(h) => a.case # "success") BY <2>2, <2>3 DEF Yields, Fails
  <2> HIDE DEF o, h
  <2> QED BY <1>N, <1>P, <2>1, <2>4
<1> QED BY <1>1, <1>2, <1>3, <1>4, <1>5 DEF InteractionTools

-----------------------------------------------------------------------------
(* The message of a stored result *)

LEMMA ReplaysType ==
  /\ DOMAIN Replays = LimitedTools
  /\ \A tool \in LimitedTools : Replays[tool] \in Nat \ {0, 1}
  /\ Replays["Shell"] > Keeps["stream"]
  /\ EditTools \subseteq LimitedTools /\ "Shell" \in LimitedTools
BY ReplaysAssumption DEF LimitedTools

\* What a limit may make of a text, and of the one it falls back to.
WithinLimit(tool, text, fallback, fromStored, m) ==
    /\ IsText(m)
    /\ tool \in LimitedTools => m.len <= Replays[tool]
    /\ m.says = text.says \/ (m.says = fallback.says /\ fromStored)
    /\ m.says # text.says => /\ tool \in LimitedTools
                             /\ text.len > Replays[tool]
                             /\ ~(tool = "Shell" /\ text.own > Keeps["stream"])
    /\ text.own > 0 /\ ~(tool \in EditTools /\ text.says = "error")
       /\ (\/ fallback.own > 0 \/ tool \notin LimitedTools \/ ~fromStored
           \/ tool \in EditTools /\ text.says = "success") => m.own > 0

LEMMA LimitTells ==
  ASSUME NEW tool, NEW text, IsText(text), NEW fallback, IsText(fallback),
         NEW fromStored \in BOOLEAN, NEW historical \in BOOLEAN
  PROVE  WithinLimit(tool, text, fallback, fromStored,
                     limitProjectedToolResultReplay(tool, text, fallback, fromStored, historical))
<1> DEFINE dropsError == historical /\ tool \in EditTools /\ fromStored /\ text.says = "error"
           dropsFile  == tool \in EditTools /\ fromStored /\ text.says = "success"
           dropsLines == tool = "Shell" /\ fromStored /\ text.own > Keeps["stream"]
           compact    == CASE dropsError -> compactHistoricalEditErrorReplay
                           [] dropsFile  -> compactProjectedEditToolResultReplay(tool, text)
                           [] dropsLines -> compactProjectedShellToolResultReplay(text)
                           [] OTHER      -> text
           limit      == projectedToolReplayLimit(tool)
           m          == limitProjectedToolResultReplay(tool, text, fallback, fromStored, historical)
<1>1. m = IF limit = 0 \/ compact.len <= limit THEN compact
          ELSE IF fromStored /\ ~dropsError /\ ~dropsFile /\ ~dropsLines
               THEN truncateProjectedReplayText([fallback EXCEPT !.len = @ + 1], limit)
               ELSE truncateProjectedReplayText(compact, limit)
  BY DEF limitProjectedToolResultReplay
<1>2. /\ tool \in LimitedTools => limit = Replays[tool] /\ limit \in Nat \ {0, 1}
      /\ tool \notin LimitedTools => limit = 0
  BY ReplaysType DEF projectedToolReplayLimit
<1>3. text.own \in Nat /\ text.len \in Nat /\ fallback.len \in Nat /\ fallback.own \in Nat
  BY DEF IsText
<1>4. "error" # "success" /\ "Shell" \notin EditTools /\ EditTools \subseteq LimitedTools
  BY DEF EditTools, LimitedTools
<1>5. /\ IsText(compact) /\ compact.says = text.says
      /\ text.own > 0 /\ ~dropsError => compact.own > 0
      /\ ~dropsError /\ ~dropsFile /\ ~dropsLines => compact = text
  <2>1. CASE dropsError
    <3>1. compact = Line("error")
      BY <1>4, <2>1 DEF compactHistoricalEditErrorReplay
    <3>2. text.says = "error" BY <2>1
    <3>3. IsText(Line("error")) /\ Line("error").says = "error" BY LineType DEF Line
    <3> HIDE DEF compact
    <3> QED BY <2>1, <3>1, <3>2, <3>3
  <2>2. CASE dropsFile
    <3> DEFINE b == truncateReplayText(Body(text.own), Replays[tool])
    <3>1. IsText(Body(text.own)) /\ Body(text.own).says = "success" /\ Body(text.own).own = text.own
      BY <1>3, BodyType DEF Body
    <3>2. IsText(b) /\ b.says = "success" /\ (text.own > 0 => b.own > 0)
      BY <1>4, <2>2, <3>1, ReplaysType, TruncateType
    <3>3. compact = [b EXCEPT !.len = @ + 1]
      BY <1>4, <2>2 DEF compactProjectedEditToolResultReplay
    <3>4. text.says = "success" BY <2>2
    <3> HIDE DEF b, compact
    <3>5. compact = [says |-> "success", own |-> b.own, len |-> b.len + 1] /\ b.own \in Nat /\ b.len \in Nat
      BY <3>2, <3>3 DEF IsText
    <3>6. IsText(compact) /\ compact.own = b.own /\ compact.says = "success"
      BY <3>5 DEF IsText
    <3> QED BY <2>2, <3>2, <3>4, <3>6
  <2>3. CASE dropsLines
    <3> DEFINE b == truncateReplayText(Body(text.own), Keeps["stream"])
    <3>1. IsText(Body(text.own)) /\ Body(text.own).own = text.own
      BY <1>3, BodyType DEF Body
    <3>2. IsText(b) /\ (text.own > 0 => b.own > 0)
      BY <3>1, KeepsType, TruncateType
    <3>3. compact = [b EXCEPT !.says = text.says, !.len = @ + 1]
      BY <1>4, <2>3 DEF compactProjectedShellToolResultReplay
    <3>4. text.says # "not_told" BY DEF IsText
    <3> HIDE DEF b, compact
    <3>5. compact = [says |-> text.says, own |-> b.own, len |-> b.len + 1] /\ b.own \in Nat /\ b.len \in Nat
      BY <3>2, <3>3 DEF IsText
    <3>6. IsText(compact) /\ compact.own = b.own /\ compact.says = text.says
      BY <3>4, <3>5 DEF IsText
    <3> QED BY <2>3, <3>2, <3>6
  <2>4. CASE ~dropsError /\ ~dropsFile /\ ~dropsLines
    <3>1. compact = text BY <2>4
    <3> HIDE DEF compact
    <3> QED BY <2>4, <3>1
  <2> QED BY <2>1, <2>2, <2>3, <2>4
<1>6. /\ dropsError => tool \in EditTools /\ text.says = "error"
      /\ dropsFile => tool \in EditTools /\ fromStored /\ text.says = "success"
      /\ dropsLines <=> tool = "Shell" /\ fromStored /\ text.own > Keeps["stream"]
  OBVIOUS
<1>7. tool \in EditTools /\ text.says = "success" /\ fromStored => dropsFile
  OBVIOUS
<1> HIDE DEF compact, m, limit, dropsError, dropsFile, dropsLines
<1>8. CASE limit = 0 \/ compact.len <= limit
  <2>1. m = compact BY <1>1, <1>8
  <2>2. tool \in LimitedTools => m.len <= Replays[tool] BY <1>2, <1>8, <2>1
  <2> QED BY <1>5, <1>6, <2>1, <2>2 DEF m, WithinLimit
<1>9. CASE ~(limit = 0 \/ compact.len <= limit)
  <2>1. tool \in LimitedTools /\ limit = Replays[tool] /\ limit \in Nat \ {0, 1} BY <1>2, <1>9
  <2>2. \A t : truncateProjectedReplayText(t, limit) = truncateReplayText(t, limit)
    BY <2>1 DEF truncateProjectedReplayText
  <2>3. CASE fromStored /\ ~dropsError /\ ~dropsFile /\ ~dropsLines
    <3> DEFINE f == [fallback EXCEPT !.len = @ + 1]
    <3>1. f = [says |-> fallback.says, own |-> fallback.own, len |-> fallback.len + 1]
      BY DEF IsText
    <3>2. IsText(f) /\ f.says = fallback.says /\ f.own = fallback.own
      BY <1>3, <3>1 DEF IsText
    <3>3. m = truncateReplayText(f, limit) BY <1>1, <1>9, <2>2, <2>3
    <3> HIDE DEF f
    <3>4. IsText(m) /\ m.len <= limit /\ m.says = fallback.says /\ (fallback.own > 0 => m.own > 0)
      BY <2>1, <3>2, <3>3, TruncateType
    <3>5. compact = text BY <1>5, <2>3
    <3>6. text.len > Replays[tool] BY <1>3, <1>9, <2>1, <3>5
    <3> QED BY <1>6, <1>7, <2>1, <2>3, <3>4, <3>6 DEF m, WithinLimit
  <2>4. CASE ~(fromStored /\ ~dropsError /\ ~dropsFile /\ ~dropsLines)
    <3>1. m = truncateReplayText(compact, limit) BY <1>1, <1>9, <2>2, <2>4
    <3>2. IsText(m) /\ m.len <= limit /\ m.says = compact.says /\ (compact.own > 0 => m.own > 0)
      BY <1>5, <2>1, <3>1, TruncateType
    <3> QED BY <1>5, <1>6, <2>1, <3>2 DEF m, WithinLimit
  <2> QED BY <2>3, <2>4
<1> QED BY <1>8, <1>9

-----------------------------------------------------------------------------
(* Good results *)

\* The text and the structured result of an edit: the file is replayed, or
\* that the edit failed.
EditTells(outcome, heard) ==
    /\ IsText(outcome.text) /\ IsText(outcome.stored)
    /\ outcome.stored \notin {NoCall, NoResult}
    /\ Fails(heard) => outcome.text.says = "error" /\ outcome.stored.says = "error"
    /\ Yields(heard) => outcome.stored.own > 0 /\ outcome.stored.says = "success"

\* A result of the history that every later prompt can tell.
GoodResult(r) ==
    /\ r.started = buildStartedToolCall(r.tool)
    /\ r.tool = "GenerateImage" => ~Yields(r.heard)
    /\ \/ r.tool \notin EditTools /\ OutcomeTells(r.tool, r, r.heard)
       \/ r.tool \in EditTools /\ EditTells(r, r.heard)
       \/ /\ r.stored = NoCall /\ IsText(r.text) /\ r.text.says \notin Boasts
          /\ ~Yields(r.heard)

OpenOK == \A call \in open : call.tool \in ExecTools \cup InteractionTools \cup EditTools \cup {"GenerateImage"}

HistoryOK ==
    /\ history \in Seq({history[i] : i \in DOMAIN history})
    /\ \A i \in DOMAIN history : GoodResult(history[i])

\* What every prompt is projected from: each stored result tells what was heard.
ResultsTell == OpenOK /\ HistoryOK /\ CachedOK

\* The message of one result, as it is projected now or in a later turn.
Told(r, historical) ==
    projectToolResult([tool |-> r.tool, text |-> r.text, stored |-> r.stored,
                       started |-> r.started, reasoning |-> r.reasoning, historical |-> historical])

\* No result of the history, told, misleads or is empty or too long.
LEMMA GoodIsTold ==
  ASSUME NEW r, GoodResult(r), NEW historical \in BOOLEAN
  PROVE  LET m == Told(r, historical)
             out == \/ r.tool = "GenerateImage"
                    \/ /\ r.stored = NoCall
                       /\ r.tool = "Write" \/ (~r.started /\ ~r.reasoning)
         IN  /\ ~out => m # NotTold /\ (Fails(r.heard) => m.says \notin Boasts)
             /\ m # NotTold /\ r.tool \in LimitedTools => m.len <= Replays[r.tool]
             /\ Yields(r.heard) /\ r.tool \notin {"Grep", "CallMcpTool"} => m # NotTold /\ m.own > 0
<1> DEFINE m == Told(r, historical)
           s == limitProjectedToolResultReplay(r.tool, r.stored, r.text, TRUE, historical)
           t == limitProjectedToolResultReplay(r.tool, r.text, NoText, FALSE, historical)
           out == \/ r.tool = "GenerateImage"
                  \/ /\ r.stored = NoCall
                     /\ r.tool = "Write" \/ (~r.started /\ ~r.reasoning)
           R == [tool |-> r.tool, text |-> r.text, stored |-> r.stored,
                 started |-> r.started, reasoning |-> r.reasoning, historical |-> historical]
<1>1. IsText(r.text) /\ r.started = buildStartedToolCall(r.tool)
  BY DEF GoodResult, OutcomeTells, EditTells
<1>2. IsText(r.stored)
  <2>1. IsText(NoCall) BY DEF NoCall, Absent, IsText
  <2> QED BY <2>1 DEF GoodResult, OutcomeTells, EditTells
<1>3. IsText(NoText) /\ NotTold.says = "not_told"
  BY DEF NoText, Absent, IsText, NotTold
<1>4. /\ R.tool = r.tool /\ R.text = r.text /\ R.stored = r.stored
      /\ R.started = r.started /\ R.reasoning = r.reasoning /\ R.historical = historical
      /\ m = projectToolResult(R)
  BY DEF Told
<1>5. ~r.started => r.stored # NoResult
  <2>1. NoCall # NoResult BY DEF NoCall, NoResult, Absent
  <2> QED BY <2>1 DEF GoodResult, OutcomeTells, EditTells
<1>6. Yields(r.heard) /\ r.tool \notin {"Grep", "CallMcpTool"} => ~out
  <2>1. ~buildStartedToolCall("Write") \/ "Write" \in EditTools BY DEF EditTools
  <2> QED BY <1>1, <2>1 DEF GoodResult, OutcomeTells, EditTells, EditTools
<1>7. Fails(r.heard) => ~Yields(r.heard)
  BY DEF Fails, Yields
<1> HIDE DEF R
<1>8. CASE r.tool # "GenerateImage" /\ r.stored \notin {NoCall, NoResult}
  <2>1. m = s
    BY <1>4, <1>8 DEF projectToolResult, isProviderPromptReplaySuppressedToolName, isLegacyPlainWriteReplay,
                      BuildToolResultReplayMessage, BuildToolCallReplayMessages, AsResult
  <2>2. /\ IsText(s)
        /\ r.tool \in LimitedTools => s.len <= Replays[r.tool]
        /\ s.says = r.stored.says \/ s.says = r.text.says
        /\ s.says # r.stored.says => /\ r.tool \in LimitedTools
                                     /\ r.stored.len > Replays[r.tool]
                                     /\ ~(r.tool = "Shell" /\ r.stored.own > Keeps["stream"])
        /\ r.stored.own > 0 /\ ~(r.tool \in EditTools /\ r.stored.says = "error")
           /\ (\/ r.text.own > 0 \/ r.tool \notin LimitedTools
               \/ r.tool \in EditTools /\ r.stored.says = "success") => s.own > 0
    <3>1. WithinLimit(r.tool, r.stored, r.text, TRUE, s) BY <1>1, <1>2, LimitTells
    <3> HIDE DEF s
    <3> QED BY <3>1 DEF WithinLimit
  <2> HIDE DEF s, t, m
  <2>3. m # NotTold BY <1>3, <2>1, <2>2 DEF IsText
  <2>4. r.tool \in LimitedTools => Replays[r.tool] \in Nat \ {0, 1} BY ReplaysType
  <2>5. CASE r.tool \notin EditTools
    <3>1. OutcomeTells(r.tool, r, r.heard) BY <1>8, <2>5 DEF GoodResult
    <3>2. ~NoStored(r) BY <1>8 DEF NoStored
    <3>3. ASSUME Fails(r.heard) PROVE s.says \notin Boasts
      <4>1. r.stored.says \notin Boasts BY <3>1, <3>2, <3>3 DEF OutcomeTells
      <4>2. SUFFICES ASSUME s.says # r.stored.says PROVE r.text.says \notin Boasts
        BY <2>2, <4>1
      <4>3. ~Small(r.tool, r.stored)
        <5>1. r.stored.len > Replays[r.tool] /\ Replays[r.tool] \in Nat \ {0, 1}
          BY <2>2, <2>4, <4>2
        <5>2. r.stored.len \in Nat /\ Keeps["stream"] \in Nat BY <1>2, KeepsType DEF IsText
        <5>3. Replays["Shell"] > Keeps["stream"] /\ Replays["Shell"] \in Nat BY ReplaysType
        <5> QED BY <5>1, <5>2, <5>3 DEF Small
      <4> QED BY <3>1, <3>3, <4>3 DEF OutcomeTells
    <3>4. Yields(r.heard) /\ r.tool \notin {"Grep", "CallMcpTool"} => s.own > 0
      BY <2>2, <2>5, <3>1, <3>2 DEF OutcomeTells
    <3> QED BY <2>1, <2>2, <2>3, <3>3, <3>4 DEF m
  <2>6. CASE r.tool \in EditTools
    <3>1. EditTells(r, r.heard)
      BY <1>8, <2>6 DEF GoodResult
    <3>2. Fails(r.heard) => s.says \notin Boasts
      BY <2>2, <3>1 DEF EditTells, Boasts
    <3>3. Yields(r.heard) => s.own > 0
      BY <2>2, <2>6, <3>1 DEF EditTells
    <3> QED BY <2>1, <2>2, <2>3, <3>2, <3>3 DEF m
  <2> QED BY <2>5, <2>6
<1>9. CASE r.tool # "GenerateImage" /\ r.stored \in {NoCall, NoResult}
  <2>1. m \in {NotTold, t} /\ (~out => m = t)
    <3>1. NoCall # NoResult BY DEF NoCall, NoResult, Absent
    <3> QED
      BY <1>4, <1>5, <1>9, <3>1
      DEF projectToolResult, isProviderPromptReplaySuppressedToolName, isLegacyPlainWriteReplay,
          BuildToolResultReplayMessage, BuildToolCallReplayMessages, AsText
  <2>2. /\ IsText(t)
        /\ r.tool \in LimitedTools => t.len <= Replays[r.tool]
        /\ t.says = r.text.says
        /\ r.text.own > 0 /\ ~(r.tool \in EditTools /\ r.text.says = "error") => t.own > 0
    <3>1. WithinLimit(r.tool, r.text, NoText, FALSE, t) BY <1>1, <1>3, LimitTells
    <3> HIDE DEF t
    <3> QED BY <3>1 DEF WithinLimit
  <2> HIDE DEF s, t, m, out
  <2>3. ~out => m # NotTold BY <1>3, <2>1, <2>2 DEF IsText
  <2>4. NoStored(r) BY <1>9 DEF NoStored
  <2>5. Fails(r.heard) => r.text.says \notin Boasts
    BY <1>9, <2>4 DEF GoodResult, OutcomeTells, EditTells
  <2>6. Yields(r.heard) /\ r.tool \notin {"Grep", "CallMcpTool"} => r.text.own > 0 /\ r.tool \notin EditTools
    BY <1>9, <2>4 DEF GoodResult, OutcomeTells, EditTells
  <2>7. m # NotTold /\ r.tool \in LimitedTools => m.len <= Replays[r.tool]
    BY <2>1, <2>2
  <2>8. ~out /\ Fails(r.heard) => m.says \notin Boasts
    BY <2>1, <2>2, <2>5
  <2>9. Yields(r.heard) /\ r.tool \notin {"Grep", "CallMcpTool"} => m # NotTold /\ m.own > 0
    BY <1>6, <2>1, <2>2, <2>3, <2>6
  <2> QED BY <2>3, <2>7, <2>8, <2>9 DEF out, m
<1>10. CASE r.tool = "GenerateImage"
  <2>1. m = NotTold
    BY <1>4, <1>10 DEF projectToolResult, isProviderPromptReplaySuppressedToolName
  <2>2. ~Yields(r.heard) BY <1>10 DEF GoodResult
  <2> HIDE DEF m
  <2> QED BY <1>10, <2>1, <2>2 DEF m
<1> QED BY <1>8, <1>9, <1>10

-----------------------------------------------------------------------------
(* The results stored at each step *)

\* A sequence of anything is one of its own entries.
LEMMA SeqOfEntries ==
  ASSUME NEW T, NEW s \in Seq(T)
  PROVE  s \in Seq({s[i] : i \in DOMAIN s})
<1> DEFINE U == {s[i] : i \in DOMAIN s}
<1>1. s = [i \in 1..Len(s) |-> s[i]] /\ Len(s) \in Nat /\ DOMAIN s = 1..Len(s)
  OBVIOUS
<1>2. \A i \in 1..Len(s) : s[i] \in U BY <1>1
<1> HIDE DEF U
<1>3. s \in [1..Len(s) -> U] BY <1>1, <1>2
<1>4. s \in Seq(U) BY <1>1, <1>3
<1> QED BY <1>4 DEF U

\* A history with one more result, entry by entry.
LEMMA AppendedTo ==
  ASSUME history \in Seq({history[i] : i \in DOMAIN history}), NEW r, history' = Append(history, r)
  PROVE  /\ Len(history) \in Nat /\ Len(history') = Len(history) + 1
         /\ DOMAIN history = 1..Len(history) /\ DOMAIN history' = 1..(Len(history) + 1)
         /\ history'[Len(history) + 1] = r
         /\ \A i \in 1..Len(history) : history'[i] = history[i]
         /\ history' \in Seq({history'[i] : i \in DOMAIN history'})
<1> DEFINE S == {history[i] : i \in DOMAIN history}
           T == S \cup {r}
<1>1. history \in Seq(T) /\ r \in T
  <2>1. history \in Seq(S) OBVIOUS
  <2> HIDE DEF S
  <2> QED BY <2>1
<1> HIDE DEF T
<1>2. history' \in Seq(T) /\ Len(history') = Len(history) + 1
      /\ history'[Len(history) + 1] = r /\ \A i \in 1..Len(history) : history'[i] = history[i]
  BY <1>1
<1>3. Len(history) \in Nat /\ DOMAIN history = 1..Len(history) /\ DOMAIN history' = 1..(Len(history) + 1)
  BY <1>1, <1>2
<1>4. history' \in Seq({history'[i] : i \in DOMAIN history'})
  BY <1>2, SeqOfEntries
<1> QED BY <1>2, <1>3, <1>4

\* One more result keeps a history of good ones.
LEMMA AppendGood ==
  ASSUME HistoryOK, NEW r, GoodResult(r), appendToolResult(r)
  PROVE  HistoryOK'
<1>1. history' = Append(history, r) /\ history \in Seq({history[i] : i \in DOMAIN history})
  BY DEF appendToolResult, HistoryOK
<1>2. \A i \in DOMAIN history' : GoodResult(history'[i])
  <2>1. \A i \in DOMAIN history : GoodResult(history[i]) BY DEF HistoryOK
  <2>2. /\ DOMAIN history = 1..Len(history) /\ DOMAIN history' = 1..(Len(history) + 1) /\ Len(history) \in Nat
        /\ history'[Len(history) + 1] = r
        /\ \A i \in 1..Len(history) : history'[i] = history[i]
    BY <1>1, AppendedTo
  <2> TAKE i \in DOMAIN history'
  <2>3. CASE i = Len(history) + 1 BY <2>2, <2>3
  <2>4. CASE i \in 1..Len(history)
    <3>1. history'[i] = history[i] BY <2>2, <2>4
    <3> QED BY <2>1, <2>2, <2>4, <3>1
  <2> QED BY <2>2, <2>3, <2>4
<1> QED BY <1>1, <1>2, AppendedTo DEF HistoryOK

\* What is stored of a call, but for the list of things to do.
LEMMA ResultGood ==
  ASSUME NEW call, NEW outcome, NEW heard, NEW d, NEW e,
         call.tool = "GenerateImage" => ~Yields(heard),
         \/ call.tool \notin EditTools /\ OutcomeTells(call.tool, outcome, heard)
         \/ call.tool \in EditTools /\ EditTells(outcome, heard)
         \/ /\ outcome.stored = NoCall /\ IsText(outcome.text) /\ outcome.text.says \notin Boasts
            /\ ~Yields(heard)
  PROVE  /\ GoodResult(Result(call, outcome, heard))
         /\ GoodResult([Result(call, outcome, heard) EXCEPT !.todos = d])
         /\ GoodResult([Result(call, outcome, heard) EXCEPT !.todos = d, !.merged = e])
<1> SUFFICES ASSUME NEW r, r.tool = call.tool, r.started = buildStartedToolCall(call.tool),
                    r.text = outcome.text, r.stored = outcome.stored, r.heard = heard
             PROVE  GoodResult(r)
  BY DEF Result
<1> QED BY DEF GoodResult, OutcomeTells, EditTells, NoStored

\* Nothing that only names an outcome is a success with content.
LEMMA NothingHeard ==
  ASSUME NEW case
  PROVE  Nothing(case).case = case /\ Nothing(case).len = 0 /\ ~Yields(Nothing(case))
BY DEF Nothing, Yields

\* An outcome that is named both in the text and in the structured result.
LEMMA NamedTells ==
  ASSUME NEW tool, NEW case, case \notin {"not_told", "output", "no_matches", "no_call", "no_result"}
  PROVE  OutcomeTells(tool, [text |-> Line(case), stored |-> Encoded(Line(case))], Nothing(case))
<1>1. IsText(Line(case)) /\ Line(case).says = case BY LineType DEF Line
<1>2. Line(case) \notin {NoCall, NoResult} BY DEF Line, NoCall, NoResult, Absent
<1>3. Fails(Nothing(case)) => case \notin Boasts BY NothingHeard DEF Fails, Boasts
<1> QED BY <1>1, <1>2, <1>3, NothingHeard, PairTells

LEMMA EditOutcomeTells ==
  ASSUME NEW tool \in EditTools, NEW a \in AnswersTo(tool)
  PROVE  EditTells(editOutcome(a), Heard(tool, a))
<1> DEFINE o == editOutcome(a)
           h == Heard(tool, a)
<1>1. a.len \in Nat /\ a.case \in {"success", "error"} BY AnswerType
<1>2. h = [case |-> a.case, len |-> a.len] BY DEF Heard, EditTools
<1>3. h.case = a.case /\ h.len = a.len BY <1>2
<1>4. IsText(Line(a.case)) /\ Line(a.case).says = a.case /\ Line(a.case) \notin {NoCall, NoResult}
  BY <1>1, LineType DEF Line, NoCall, NoResult, Absent
<1>5. o.text = Line(a.case) BY DEF editOutcome
<1>6. CASE HasContent(a)
  <2>1. o.stored = [says |-> "success", own |-> a.len, len |-> 3 * a.len + 1]
    BY <1>6 DEF editOutcome, Body
  <2>2. IsText(o.stored) /\ o.stored.says = "success" /\ o.stored.own = a.len
    BY <1>1, <2>1 DEF IsText
  <2>3. o.stored \notin {NoCall, NoResult} BY <2>2 DEF NoCall, NoResult, Absent
  <2>4. ~Fails(h) /\ a.len > 0 BY <1>3, <1>6 DEF Fails, HasContent
  <2> HIDE DEF o, h
  <2>5. EditTells(o, h) BY <1>4, <1>5, <2>2, <2>3, <2>4 DEF EditTells
  <2> QED BY <2>5 DEF o, h
<1>7. CASE ~HasContent(a)
  <2>1. o.stored = Encoded(Line(a.case)) BY <1>7 DEF editOutcome
  <2>2. IsText(o.stored) /\ o.stored.says = a.case /\ o.stored \notin {NoCall, NoResult}
    BY <1>4, <2>1, EncodedType
  <2>3. ~Yields(h) /\ (Fails(h) => a.case = "error") BY <1>1, <1>3, <1>7 DEF Fails, Yields, HasContent
  <2> HIDE DEF o, h
  <2>4. EditTells(o, h) BY <1>4, <1>5, <2>2, <2>3 DEF EditTells
  <2> QED BY <2>4 DEF o, h
<1> QED BY <1>6, <1>7

-----------------------------------------------------------------------------
(* The invariant *)

LEMMA ResultsTellInit == Init => ResultsTell
<1> SUFFICES ASSUME Init PROVE ResultsTell OBVIOUS
<1>1. open = {} /\ history = <<>> /\ cached = NoText BY DEF Init
<1>2. HistoryOK
  <2>1. DOMAIN history = {} BY <1>1
  <2>2. history \in Seq({history[i] : i \in DOMAIN history}) BY <1>1
  <2> QED BY <2>1, <2>2 DEF HistoryOK
<1> QED BY <1>1, <1>2 DEF ResultsTell, OpenOK, CachedOK

LEMMA ResultsTellStep == ResultsTell /\ [Next]_vars => ResultsTell'
<1> SUFFICES ASSUME ResultsTell, [Next]_vars PROVE ResultsTell' OBVIOUS
<1> USE DEF ResultsTell
<1>O. ASSUME open' \subseteq open PROVE OpenOK' BY <1>O DEF OpenOK
<1>C. ASSUME cached' = cached PROVE CachedOK' BY <1>C DEF CachedOK
<1>H. ASSUME history' = history PROVE HistoryOK' BY <1>H DEF HistoryOK
<1>1. ASSUME NEW call, NEW outside, NEW overrides, RefuseCall(call, outside, overrides) PROVE ResultsTell'
  <2> DEFINE o == [text |-> Line("refused"), stored |-> NoCall]
  <2>1. open' = open /\ cached' = cached /\ appendToolResult(Result(call, o, Nothing("refused")))
    BY <1>1 DEF RefuseCall, completePreDispatchToolError
  <2>2. o.stored = NoCall /\ IsText(o.text) /\ o.text.says \notin Boasts
    BY LineType DEF Line, Boasts
  <2>3. GoodResult(Result(call, o, Nothing("refused")))
    <3> HIDE DEF o
    <3> QED BY <2>2, NothingHeard, ResultGood
  <2> HIDE DEF o
  <2> QED BY <1>O, <1>C, <2>1, <2>3, AppendGood
<1>2. ASSUME NEW call, NEW outside, NEW overrides, NEW plan, SendCall(call, outside, overrides, plan) PROVE ResultsTell'
  <2>1. history' = history /\ cached' = cached BY <1>2 DEF SendCall
  <2>2. call.tool \in ExecTools \cup InteractionTools \cup EditTools
    BY <1>2 DEF SendCall, Sendable
  <2>3. OpenOK' BY <1>2, <2>2 DEF SendCall, OpenOK
  <2> QED BY <1>C, <1>H, <2>1, <2>3
<1>3. ASSUME NEW call, NEW merge, NEW items, WriteTodos(call, merge, items), call.tool \in LocalTools PROVE ResultsTell'
  <2> DEFINE write == IF call.args = "complete" THEN handleTodoWrite(merge, todos, items) ELSE Failure
             o == [text |-> Line(write.case), stored |-> Encoded(Line(write.case))]
             r == [Result(call, o, Nothing(write.case)) EXCEPT !.todos = write.todos, !.merged = write.merged]
  <2>1. open' = open /\ cached' = cached /\ appendToolResult(r)
    BY <1>3 DEF WriteTodos
  <2>2. write.case \in {"success", "error"}
    BY DEF handleTodoWrite, Failure
  <2>3. call.tool = "TodoWrite" BY <1>3 DEF LocalTools
  <2> HIDE DEF write
  <2>4. OutcomeTells(call.tool, o, Nothing(write.case)) BY <2>2, NamedTells
  <2> HIDE DEF o
  <2>5. GoodResult(r) BY <2>3, <2>4, NothingHeard, ResultGood DEF EditTools
  <2> HIDE DEF r
  <2> QED BY <1>O, <1>C, <2>1, <2>5, AppendGood
<1>I. ASSUME NEW call, call.tool = "GenerateImage", NEW case \in ImageAnswers \cup {"error"},
             open' \subseteq open, cached' = cached,
             appendToolResult(Result(call, buildGenerateImageResult(case), Nothing(case)))
      PROVE  ResultsTell'
  <2> DEFINE o == buildGenerateImageResult(case)
  <2>1. OutcomeTells(call.tool, o, Nothing(case))
    BY NamedTells DEF buildGenerateImageResult, ImageAnswers
  <2> HIDE DEF o
  <2>2. GoodResult(Result(call, o, Nothing(case))) BY <1>I, <2>1, NothingHeard, ResultGood DEF EditTools
  <2> QED BY <1>I, <1>O, <1>C, <2>2, AppendGood DEF o
<1>4. ASSUME NEW call, NEW a, call \in open, a \in AnswersTo(call.tool), HandleExecResult(call, a) PROVE ResultsTell'
  <2> DEFINE o == Outcome(call.tool, a)
             h == Heard(call.tool, a)
  <2>1. open' \subseteq open /\ cached' = cached /\ appendToolResult(Result(call, o, h))
    BY <1>4 DEF HandleExecResult
  <2>2. call.tool # "GenerateImage" BY <1>4 DEF HandleExecResult, ExecTools, EditTools
  <2>3. CASE call.tool \in ExecTools
    <3>1. call.tool \notin InteractionTools \cup EditTools
      BY <2>3 DEF ExecTools, InteractionTools, EditTools
    <3>2. o = ApplyExecClientMessage(call.tool, a) BY <2>3, <3>1 DEF Outcome
    <3>3. OutcomeTells(call.tool, o, h) BY <1>4, <2>3, <3>2, ExecTells DEF HandleExecResult
    <3> HIDE DEF o, h
    <3>4. GoodResult(Result(call, o, h)) BY <2>2, <3>1, <3>3, ResultGood
    <3> QED BY <1>O, <1>C, <2>1, <3>4, AppendGood
  <2>4. CASE call.tool \in EditTools
    <3>1. call.tool \notin InteractionTools \cup ExecTools
      BY <2>4 DEF ExecTools, InteractionTools, EditTools
    <3>2. o = editOutcome(a) BY <2>4, <3>1 DEF Outcome
    <3>3. EditTells(o, h) BY <1>4, <2>4, <3>2, EditOutcomeTells
    <3> HIDE DEF o, h
    <3>4. GoodResult(Result(call, o, h)) BY <2>2, <2>4, <3>3, ResultGood
    <3> QED BY <1>O, <1>C, <2>1, <3>4, AppendGood
  <2> QED BY <1>4, <2>3, <2>4 DEF HandleExecResult
<1>5. ASSUME NEW call, HandleExecThrow(call) PROVE ResultsTell'
  <2> DEFINE o == ApplyExecClientControl
  <2>1. open' \subseteq open /\ cached' = cached /\ appendToolResult(Result(call, o, Nothing("thrown")))
    BY <1>5 DEF HandleExecThrow
  <2>2. o.stored = NoCall /\ IsText(o.text) /\ o.text.says \notin Boasts
    BY LineType DEF ApplyExecClientControl, Line, Boasts
  <2> HIDE DEF o
  <2>3. GoodResult(Result(call, o, Nothing("thrown"))) BY <2>2, NothingHeard, ResultGood
  <2> QED BY <1>O, <1>C, <2>1, <2>3, AppendGood
<1>6. ASSUME NEW call, NEW a, NEW target, a \in AnswersTo(call.tool), HandleInteractionResult(call, a, target)
      PROVE  ResultsTell'
  <2> DEFINE o == Outcome(call.tool, a)
             h == Heard(call.tool, a)
             d == IF h.case = "success" THEN call.plan ELSE <<>>
             r == [Result(call, o, h) EXCEPT !.todos = d]
  <2>1. open' \subseteq open /\ appendToolResult(r) /\ call.tool \in InteractionTools
        /\ cached' = IF call.tool = "WebFetch" THEN cachePut(cached, o.text) ELSE cached
    BY <1>6 DEF HandleInteractionResult
  <2>2. call.tool \notin ExecTools \cup EditTools \cup {"GenerateImage"}
    BY <2>1 DEF ExecTools, InteractionTools, EditTools
  <2>3. o = ApplyInteractionResponse(call.tool, a, cached) BY <2>1, <2>2 DEF Outcome
  <2>4. OutcomeTells(call.tool, o, h) /\ IsText(o.text)
    BY <1>6, <2>1, <2>3, InteractionTells
  <2> HIDE DEF o, h
  <2>5. GoodResult(r) BY <2>2, <2>4, ResultGood
  <2>6. CachedOK' BY <2>1, <2>4 DEF CachedOK, cachePut
  <2> HIDE DEF r
  <2> QED BY <1>O, <2>1, <2>5, <2>6, AppendGood
<1>7. ASSUME NEW call, NEW references, NEW ofModel, NEW ofImages, call.tool \in NativeTools,
             GenerateImage(call, references, ofModel, ofImages)
      PROVE  ResultsTell'
  <2>1. call.tool = "GenerateImage" /\ cached' = cached BY <1>7 DEF GenerateImage, NativeTools
  <2>2. CASE ImageReady(call, references, ofModel, ofImages)
    <3>1. history' = history BY <1>7, <2>2 DEF GenerateImage
    <3>2. OpenOK' BY <1>7, <2>1, <2>2 DEF GenerateImage, OpenOK
    <3> QED BY <1>C, <1>H, <2>1, <3>1, <3>2
  <2>3. CASE ~ImageReady(call, references, ofModel, ofImages)
    <3>1. open' = open /\ appendToolResult(Result(call, buildGenerateImageResult("error"), Nothing("error")))
      BY <1>7, <2>3 DEF GenerateImage
    <3> QED BY <1>I, <2>1, <3>1
  <2> QED BY <2>2, <2>3
<1>8. ASSUME NEW call, NEW case \in ImageAnswers, HandleImageResult(call, case) PROVE ResultsTell'
  <2>1. /\ call.tool = "GenerateImage" /\ open' \subseteq open /\ cached' = cached
        /\ appendToolResult(Result(call, buildGenerateImageResult(case), Nothing(case)))
    BY <1>8 DEF HandleImageResult
  <2> QED BY <1>I, <2>1
<1>9. CASE NextTurn
  BY <1>9, <1>O, <1>C, <1>H DEF NextTurn
<1>10. CASE CancelTurn
  BY <1>10, <1>O, <1>C, <1>H DEF CancelTurn
<1>11. CASE UNCHANGED vars
  BY <1>11, <1>O, <1>C, <1>H DEF vars
<1>12. ASSUME NEW tool, NEW call \in NewCalls(tool) PROVE call.tool = tool
  BY <1>12 DEF NewCalls
<1> QED
  BY <1>1, <1>2, <1>3, <1>4, <1>5, <1>6, <1>7, <1>8, <1>9, <1>10, <1>11, <1>12 DEF Next

\* Each stored result tells what was heard, in every history: what the exec
\* and the interaction bridge, the image provider and the edits store.
THEOREM ResultsAlwaysTell == Spec => []ResultsTell
BY ResultsTellInit, ResultsTellStep, PTL DEF Spec

\* No prompt leaves a finished call out or tells a failure as a success,
\* whatever the tools, limits, answers and turns: AnswersAreTold of the
\* projection (projector.go:137) over what both bridges store.
THEOREM AnswersAreAlwaysTold == Spec => []AnswersAreTold
<1>1. ResultsTell => AnswersAreTold
  <2> SUFFICES ASSUME ResultsTell, NEW i \in DOMAIN history, ~LeftOut(i)
               PROVE  /\ Message(i) # NotTold
                      /\ history[i].heard.case \notin {"success", "background"} =>
                             Message(i).says \notin {"success", "output", "no_matches"}
    BY DEF AnswersAreTold, KeptResults
  <2> DEFINE r == history[i]
             before == r.turn < turn
  <2>1. GoodResult(r) BY DEF ResultsTell, HistoryOK
  <2>2. before \in BOOLEAN OBVIOUS
  <2>3. Message(i) = Told(r, before) BY DEF Message, Told
  <2>4. ~(\/ r.tool = "GenerateImage"
          \/ /\ r.stored = NoCall
             /\ r.tool = "Write" \/ (~r.started /\ ~r.reasoning))
    BY DEF LeftOut
  <2> HIDE DEF r, before
  <2>5. Told(r, before) # NotTold /\ (Fails(r.heard) => Told(r, before).says \notin Boasts)
    BY <2>1, <2>2, <2>4, GoodIsTold
  <2> QED BY <2>3, <2>5 DEF Fails, Boasts, r
<1> QED BY <1>1, ResultsAlwaysTell, PTL

\* A replayed result is within the limit of its tool, and of a successful one
\* something is left to read, however large the answer was and whichever of
\* the two forms is replayed, in its own turn and in every later one.
THEOREM ReplayAlwaysFitsAndTells == Spec => []ReplayFitsAndTells
<1>1. ResultsTell => ReplayFitsAndTells
  <2> SUFFICES ASSUME ResultsTell, NEW i \in DOMAIN history
               PROVE  /\ Message(i) # NotTold /\ history[i].tool \in DOMAIN Replays =>
                             Message(i).len <= Replays[history[i].tool]
                      /\ history[i].heard.case = "success" /\ history[i].heard.len > 0
                             /\ history[i].tool \notin {"Grep", "CallMcpTool"} =>
                         Message(i) # NotTold /\ Message(i).own > 0
    BY DEF ReplayFitsAndTells, ReplayFits, ContentSurvives, KeptResults
  <2> DEFINE r == history[i]
             before == r.turn < turn
  <2>1. GoodResult(r) BY DEF ResultsTell, HistoryOK
  <2>2. before \in BOOLEAN OBVIOUS
  <2>3. Message(i) = Told(r, before) BY DEF Message, Told
  <2>4. DOMAIN Replays = LimitedTools BY ReplaysType
  <2> HIDE DEF r, before
  <2>5. /\ Told(r, before) # NotTold /\ r.tool \in LimitedTools => Told(r, before).len <= Replays[r.tool]
        /\ Yields(r.heard) /\ r.tool \notin {"Grep", "CallMcpTool"} =>
              Told(r, before) # NotTold /\ Told(r, before).own > 0
    BY <2>1, <2>2, GoodIsTold
  <2> QED BY <2>3, <2>4, <2>5 DEF Yields, r
<1> QED BY <1>1, ResultsAlwaysTell, PTL

-----------------------------------------------------------------------------
(* The list of things to do.  A set of numbers that holds 0 and with each  *)
(* number the next one holds them all: induction over the lists.           *)

LEMMA NatSetInduction ==
  ASSUME NEW S, 0 \in S, \A n \in Nat : n \in S => n + 1 \in S
  PROVE  Nat \subseteq S
<1> DEFINE T    == {n \in Nat : n \notin S}
           Less == {ss \in Nat \X Nat : ss[1] < ss[2]}
<1>1. SUFFICES ASSUME T # {} PROVE FALSE
  OBVIOUS
<1>2. IsWellFoundedOn(Less, Nat)
  BY NatLessThanWellFounded DEF OpToRel
<1>3. PICK x \in T : \A y \in T : ~(<<y, x>> \in Less)
  <2>1. T \subseteq Nat OBVIOUS
  <2> HIDE DEF T, Less
  <2> QED BY <1>1, <1>2, <2>1, WFMin
<1>4. x # 0 OBVIOUS
<1>5. x - 1 \in Nat /\ x - 1 < x BY <1>4
<1>6. x - 1 \notin T BY <1>3, <1>5
<1> QED BY <1>5, <1>6

TodoItems == Seq(Items(Nat))

LEMMA IndexOfIs ==
  ASSUME NEW items \in TodoItems, NEW id \in IdsOf(items)
  PROVE  IndexOf(items, id) \in 1..Len(items) /\ items[IndexOf(items, id)].id = id
<1> DEFINE S == {i \in 1..Len(items) : items[i].id = id}
           T == {Len(items) - i : i \in S}
           Less == {ss \in Nat \X Nat : ss[1] < ss[2]}
<1>1. DOMAIN items = 1..Len(items) /\ Len(items) \in Nat BY DEF TodoItems
<1>2. S # {} BY <1>1 DEF IdsOf
<1>3. \E i \in S : \A j \in S : j <= i
  <2>1. T \subseteq Nat BY <1>1
  <2>2. T # {} BY <1>2
  <2>3. IsWellFoundedOn(Less, Nat) BY NatLessThanWellFounded DEF OpToRel
  <2>4. PICK x \in T : \A y \in T : ~(<<y, x>> \in Less)
    <3> HIDE DEF T, Less
    <3> QED BY <2>1, <2>2, <2>3, WFMin
  <2>5. \A y \in T : x <= y
    <3> TAKE y \in T
    <3>1. x \in Nat /\ y \in Nat BY <2>1
    <3>2. y < x => <<y, x>> \in Less BY <3>1
    <3>3. ~(<<y, x>> \in Less) BY <2>4
    <3> HIDE DEF T, Less
    <3> QED BY <3>1, <3>2, <3>3
  <2>6. PICK i \in S : x = Len(items) - i OBVIOUS
  <2>7. \A j \in S : j <= i
    <3> TAKE j \in S
    <3>1. x <= Len(items) - j BY <2>5
    <3> QED BY <1>1, <2>6, <3>1
  <2> QED BY <2>7
<1>4. \E i \in DOMAIN items : items[i].id = id /\ \A j \in DOMAIN items : items[j].id = id => j <= i
  BY <1>1, <1>3
<1> QED BY <1>1, <1>4 DEF IndexOf

LEMMA NormalizedType ==
  ASSUME NEW items \in TodoItems
  PROVE  normalizeTodoItems(items) \in TodoItems /\ IdsOf(normalizeTodoItems(items)) = IdsOf(items)
<1>1. DOMAIN items = 1..Len(items) /\ Len(items) \in Nat /\ \A i \in 1..Len(items) : items[i] \in Items(Nat)
  BY DEF TodoItems
<1>2. \A item \in Items(Nat) : withStatus(item) \in Items(Nat) /\ withStatus(item).id = item.id
  BY DEF Items, withStatus
<1>3. normalizeTodoItems(items) = [i \in 1..Len(items) |-> withStatus(items[i])]
  BY <1>1 DEF normalizeTodoItems
<1>4. normalizeTodoItems(items) \in TodoItems
  BY <1>1, <1>2, <1>3 DEF TodoItems
<1>5. IdsOf(normalizeTodoItems(items)) = IdsOf(items)
  BY <1>1, <1>2, <1>3 DEF IdsOf
<1> QED BY <1>4, <1>5

\* A merge under way: its list has the items there were.
Merging(existing, m) ==
    m.ok \in BOOLEAN /\ m.items \in TodoItems /\ IdsOf(existing) \subseteq IdsOf(m.items)

\* No update takes an item away.
LEMMA MergeItemKeeps ==
  ASSUME NEW existing, NEW m, Merging(existing, m), NEW update \in Items(Nat)
  PROVE  Merging(existing, mergeItem(m, update))
<1> DEFINE items == m.items
           known == update.id \in IdsOf(items)
           at    == IndexOf(items, update.id)
           next  == IF known
                    THEN [items[at] EXCEPT
                              !.content = @ \/ update.content,
                              !.status  = IF update.status = "" THEN @ ELSE update.status]
                    ELSE withStatus(update)
<1>1. items \in TodoItems /\ m.ok \in BOOLEAN /\ IdsOf(existing) \subseteq IdsOf(items)
  BY DEF Merging
<1>2. DOMAIN items = 1..Len(items) /\ Len(items) \in Nat /\ \A i \in 1..Len(items) : items[i] \in Items(Nat)
  BY <1>1 DEF TodoItems
<1>3. mergeItem(m, update) =
        [ok    |-> m.ok /\ update.id # 0 /\ next.content,
         items |-> IF known THEN [items EXCEPT ![at] = next] ELSE Append(items, next)]
  BY DEF mergeItem
<1>4. CASE known
  <2>1. at \in 1..Len(items) /\ items[at].id = update.id BY <1>1, <1>4, IndexOfIs
  <2>2. items[at] \in Items(Nat) BY <1>2, <2>1
  <2>3. next \in Items(Nat) /\ next.id = items[at].id
    <3> HIDE DEF items, at
    <3> QED BY <1>4, <2>2 DEF Items
  <2> DEFINE new == [items EXCEPT ![at] = next]
  <2> HIDE DEF items, known, at, next
  <2>4. new \in TodoItems BY <1>1, <2>1, <2>3 DEF TodoItems
  <2>5. DOMAIN new = DOMAIN items /\ \A i \in DOMAIN items : new[i].id = items[i].id
    BY <1>2, <2>1, <2>3
  <2>6. IdsOf(new) = IdsOf(items) BY <2>5 DEF IdsOf
  <2>7. mergeItem(m, update).ok \in BOOLEAN
    <3>1. mergeItem(m, update).ok = (m.ok /\ update.id # 0 /\ next.content) BY <1>3
    <3> QED BY <3>1
  <2>8. mergeItem(m, update).items = new BY <1>3, <1>4
  <2> QED BY <1>1, <2>4, <2>6, <2>7, <2>8 DEF Merging
<1>5. CASE ~known
  <2>1. next \in Items(Nat) BY <1>5 DEF withStatus, Items
  <2> DEFINE new == Append(items, next)
  <2> HIDE DEF items, known, at, next
  <2>2. new \in TodoItems BY <1>1, <2>1 DEF TodoItems
  <2>3. DOMAIN new = 1..(Len(items) + 1) /\ \A i \in 1..Len(items) : new[i] = items[i]
    BY <1>1, <2>1 DEF TodoItems
  <2>4. IdsOf(items) \subseteq IdsOf(new) BY <1>2, <2>3 DEF IdsOf
  <2>5. mergeItem(m, update).ok \in BOOLEAN
    <3>1. mergeItem(m, update).ok = (m.ok /\ update.id # 0 /\ next.content) BY <1>3
    <3> QED BY <3>1
  <2>6. mergeItem(m, update).items = new BY <1>3, <1>5
  <2> QED BY <1>1, <2>2, <2>4, <2>5, <2>6 DEF Merging
<1> QED BY <1>4, <1>5

\* A merge takes nothing away.
LEMMA MergeKeeps ==
  ASSUME NEW existing \in TodoItems, NEW updates \in TodoItems
  PROVE  Merging(existing, mergeTodoItems(existing, updates))
<1> DEFINE base == [ok |-> TRUE, items |-> normalizeTodoItems(existing)]
           L    == Len(updates)
           Is(f, n) == f = [i \in 0..n |-> IF i = 0 THEN base ELSE mergeItem(f[i - 1], updates[i])]
           S    == {n \in Nat : \E f : Is(f, n)}
<1>1. L \in Nat /\ \A i \in 1..L : updates[i] \in Items(Nat) BY DEF TodoItems
<1> HIDE DEF base, L
<1>2. Nat \subseteq S
  <2>1. 0 \in S
    <3>1. Is([i \in 0..0 |-> base], 0) OBVIOUS
    <3> QED BY <3>1
  <2>2. ASSUME NEW n \in Nat, n \in S PROVE n + 1 \in S
    <3>1. PICK f : Is(f, n) BY <2>2
    <3> DEFINE g == [i \in 0..(n + 1) |-> IF i = n + 1 THEN mergeItem(f[n], updates[n + 1]) ELSE f[i]]
    <3>2. \A i \in 0..(n + 1) : g[i] = IF i = 0 THEN base ELSE mergeItem(g[i - 1], updates[i])
      <4> TAKE i \in 0..(n + 1)
      <4>1. CASE i = n + 1
        <5>1. g[i] = mergeItem(f[n], updates[n + 1]) /\ g[i - 1] = f[n] BY <4>1
        <5> QED BY <4>1, <5>1
      <4>2. CASE i # n + 1
        <5>1. i \in 0..n BY <4>2
        <5>2. g[i] = f[i] /\ (i # 0 => g[i - 1] = f[i - 1]) BY <5>1
        <5>3. f[i] = IF i = 0 THEN base ELSE mergeItem(f[i - 1], updates[i])
          BY <3>1, <5>1
        <5> HIDE DEF g
        <5> QED BY <5>2, <5>3
      <4> QED BY <4>1, <4>2
    <3>3. DOMAIN g = 0..(n + 1) /\ g = [i \in 0..(n + 1) |-> g[i]] OBVIOUS
    <3> HIDE DEF g
    <3>4. Is(g, n + 1) BY <3>2, <3>3
    <3> QED BY <3>4
  <2> HIDE DEF S
  <2> QED BY <2>1, <2>2, NatSetInduction
<1>3. \E f : Is(f, L) BY <1>1, <1>2
<1> DEFINE merged == CHOOSE f : Is(f, L)
<1>4. Is(merged, L)
  <2> HIDE DEF Is
  <2> QED BY <1>3
<1>5. mergeTodoItems(existing, updates) = merged[L]
  BY DEF mergeTodoItems, base, L
<1> HIDE DEF merged
<1>6. merged[0] = base /\ \A i \in 1..L : merged[i] = mergeItem(merged[i - 1], updates[i])
  BY <1>1, <1>4
<1> DEFINE T == {n \in Nat : n <= L => Merging(existing, merged[n])}
<1>7. Nat \subseteq T
  <2>1. 0 \in T
    <3>1. base.ok = TRUE /\ base.items = normalizeTodoItems(existing) BY DEF base
    <3> QED BY <1>6, <3>1, NormalizedType DEF Merging
  <2>2. ASSUME NEW n \in Nat, n \in T PROVE n + 1 \in T
    <3> SUFFICES ASSUME n + 1 <= L PROVE Merging(existing, merged[n + 1])
      OBVIOUS
    <3>1. Merging(existing, merged[n]) BY <1>1, <2>2
    <3>2. merged[n + 1] = mergeItem(merged[n], updates[n + 1]) BY <1>1, <1>6
    <3>3. updates[n + 1] \in Items(Nat) BY <1>1
    <3> QED BY <3>1, <3>2, <3>3, MergeItemKeeps
  <2> HIDE DEF T
  <2> QED BY <2>1, <2>2, NatSetInduction
<1> QED BY <1>1, <1>5, <1>7

\* Without what is missing of it, a list is replaced, else it is merged: the
\* active items are in the new list.
LEMMA WriteKeeps ==
  ASSUME NEW existing \in TodoItems, NEW items \in TodoItems, NEW merge,
         NEW write, write = handleTodoWrite(merge, existing, items)
  PROVE  /\ write.case \in {"success", "error"}
         /\ write.todos \in TodoItems
         /\ write.case = "success" => /\ ActiveIds(existing) \subseteq IdsOf(write.todos)
                                      /\ write.merged \/ missingActiveTodoReplacementIDs(existing, write.todos) = {}
<1>0. Failure.case = "error" /\ Failure.todos \in TodoItems BY DEF Failure, TodoItems
<1>1. CASE shouldMergeTodoUpdate(merge, existing, items)
  <2> DEFINE next == mergeTodoItems(existing, items)
  <2>1. Merging(existing, next) BY MergeKeeps
  <2>2. ActiveIds(existing) \subseteq IdsOf(existing) BY DEF ActiveIds, IdsOf
  <2>3. write = IF next.ok THEN [case |-> "success", todos |-> next.items, merged |-> TRUE] ELSE Failure
    BY <1>1 DEF handleTodoWrite
  <2> HIDE DEF next
  <2> QED BY <1>0, <2>1, <2>2, <2>3 DEF Merging
<1>2. CASE ~shouldMergeTodoUpdate(merge, existing, items)
  <2> DEFINE next == normalizeTodoItems(items)
  <2>1. next \in TodoItems BY NormalizedType
  <2>2. write = IF ~ValidItems(items) \/ missingActiveTodoReplacementIDs(existing, next) # {}
                THEN Failure ELSE [case |-> "success", todos |-> next, merged |-> FALSE]
    BY <1>2 DEF handleTodoWrite
  <2> HIDE DEF next
  <2> QED BY <1>0, <2>1, <2>2 DEF missingActiveTodoReplacementIDs
<1> QED BY <1>1, <1>2

LEMMA StepType ==
  ASSUME NEW list \in TodoItems, NEW r, r.todos \in TodoItems
  PROVE  projectStep(list, r) \in TodoItems
<1>1. Merging(list, mergeTodoItems(list, r.todos)) BY MergeKeeps
<1>2. normalizeTodoItems(r.todos) \in TodoItems BY NormalizedType
<1> QED BY <1>1, <1>2 DEF projectStep, Merging

\* The list after each of the results, as projectConversationStructuredState
\* goes through them.
Projected(results, dropped, f, n) ==
    f = [i \in 0..n |-> IF i = 0 THEN <<>>
                        ELSE IF HoldsTodos(results[i], dropped) THEN projectStep(f[i - 1], results[i])
                        ELSE f[i - 1]]

LEMMA ProjectionExists ==
  ASSUME NEW results, NEW dropped, Len(results) \in Nat
  PROVE  \E f : /\ Projected(results, dropped, f, Len(results))
               /\ projectConversationStructuredState(results, dropped) = f[Len(results)]
<1> DEFINE L == Len(results)
           S == {n \in Nat : \E f : Projected(results, dropped, f, n)}
<1>1. Nat \subseteq S
  <2>1. 0 \in S
    <3>1. Projected(results, dropped, [i \in 0..0 |-> <<>>], 0) BY DEF Projected
    <3> QED BY <3>1
  <2>2. ASSUME NEW n \in Nat, n \in S PROVE n + 1 \in S
    <3>1. PICK f : Projected(results, dropped, f, n) BY <2>2
    <3>2. f = [i \in 0..n |-> IF i = 0 THEN <<>>
                              ELSE IF HoldsTodos(results[i], dropped) THEN projectStep(f[i - 1], results[i])
                              ELSE f[i - 1]]
      BY <3>1 DEF Projected
    <3> DEFINE last == IF HoldsTodos(results[n + 1], dropped) THEN projectStep(f[n], results[n + 1]) ELSE f[n]
               g == [i \in 0..(n + 1) |-> IF i = n + 1 THEN last ELSE f[i]]
    <3>3. \A i \in 0..(n + 1) : g[i] = IF i = 0 THEN <<>>
                                      ELSE IF HoldsTodos(results[i], dropped) THEN projectStep(g[i - 1], results[i])
                                      ELSE g[i - 1]
      <4> TAKE i \in 0..(n + 1)
      <4>1. CASE i = n + 1
        <5>1. g[i] = last /\ g[i - 1] = f[n] BY <4>1
        <5>2. i # 0 BY <4>1
        <5> HIDE DEF g
        <5> QED BY <4>1, <5>1, <5>2
      <4>2. CASE i # n + 1
        <5>1. i \in 0..n BY <4>2
        <5>2. g[i] = f[i] /\ (i # 0 => g[i - 1] = f[i - 1]) BY <5>1
        <5>3. f[i] = IF i = 0 THEN <<>>
                     ELSE IF HoldsTodos(results[i], dropped) THEN projectStep(f[i - 1], results[i])
                     ELSE f[i - 1]
          BY <3>2, <5>1
        <5> HIDE DEF g
        <5> QED BY <5>2, <5>3
      <4> QED BY <4>1, <4>2
    <3>4. g = [i \in 0..(n + 1) |-> g[i]] OBVIOUS
    <3> HIDE DEF g
    <3>5. Projected(results, dropped, g, n + 1) BY <3>3, <3>4 DEF Projected
    <3> QED BY <3>5
  <2> HIDE DEF S
  <2> QED BY <2>1, <2>2, NatSetInduction
<1>2. \E f : Projected(results, dropped, f, L) BY <1>1
<1> DEFINE after == CHOOSE f : Projected(results, dropped, f, L)
<1>3. Projected(results, dropped, after, L) BY <1>2
<1>4. projectConversationStructuredState(results, dropped) = after[L]
  BY DEF projectConversationStructuredState, Projected
<1> QED BY <1>3, <1>4

LEMMA ProjectedAt ==
  ASSUME NEW results, NEW dropped, NEW f, NEW n \in Nat, Projected(results, dropped, f, n)
  PROVE  /\ f[0] = <<>>
         /\ \A i \in 1..n : f[i] = IF HoldsTodos(results[i], dropped) THEN projectStep(f[i - 1], results[i])
                                  ELSE f[i - 1]
BY DEF Projected

LEMMA ProjectionType ==
  ASSUME NEW results, NEW dropped, Len(results) \in Nat,
         \A i \in 1..Len(results) : results[i].todos \in TodoItems
  PROVE  projectConversationStructuredState(results, dropped) \in TodoItems
<1>1. PICK f : /\ Projected(results, dropped, f, Len(results))
               /\ projectConversationStructuredState(results, dropped) = f[Len(results)]
  BY ProjectionExists
<1> DEFINE T == {n \in Nat : n <= Len(results) => f[n] \in TodoItems}
<1>2. 0 \in T
  <2>1. f[0] = <<>> BY <1>1, ProjectedAt
  <2>2. <<>> \in TodoItems BY DEF TodoItems
  <2> QED BY <2>1, <2>2
<1>3. ASSUME NEW n \in Nat, n \in T PROVE n + 1 \in T
  <2> SUFFICES ASSUME n + 1 <= Len(results) PROVE f[n + 1] \in TodoItems OBVIOUS
  <2>1. n + 1 \in 1..Len(results) /\ f[n] \in TodoItems BY <1>3
  <2>2. f[n + 1] = IF HoldsTodos(results[n + 1], dropped) THEN projectStep(f[(n + 1) - 1], results[n + 1])
                   ELSE f[(n + 1) - 1]
    BY <1>1, <2>1, ProjectedAt
  <2>3. (n + 1) - 1 = n OBVIOUS
  <2> QED BY <2>1, <2>2, <2>3, StepType
<1> HIDE DEF T
<1>4. Nat \subseteq T BY <1>2, <1>3, NatSetInduction
<1> QED BY <1>1, <1>4 DEF T

\* One more result changes the list by one step, or not at all.
LEMMA ProjectionOfAppend ==
  ASSUME NEW results, NEW more, NEW dropped, Len(results) \in Nat, Len(more) = Len(results) + 1,
         \A i \in 1..Len(results) : more[i] = results[i]
  PROVE  LET before == projectConversationStructuredState(results, dropped)
             r      == more[Len(more)]
         IN  projectConversationStructuredState(more, dropped)
               = IF HoldsTodos(r, dropped) THEN projectStep(before, r) ELSE before
<1> DEFINE L == Len(results)
<1>1. PICK f : /\ Projected(results, dropped, f, L)
               /\ projectConversationStructuredState(results, dropped) = f[L]
  BY ProjectionExists
<1>2. PICK g : /\ Projected(more, dropped, g, L + 1)
               /\ projectConversationStructuredState(more, dropped) = g[L + 1]
  <2>1. Len(more) \in Nat OBVIOUS
  <2> QED BY <2>1, ProjectionExists
<1> DEFINE T == {n \in Nat : n <= L => g[n] = f[n]}
<1>3. 0 \in T
  <2>1. f[0] = <<>> BY <1>1, ProjectedAt
  <2>2. g[0] = <<>> BY <1>2, ProjectedAt
  <2> QED BY <2>1, <2>2
<1>4. ASSUME NEW n \in Nat, n \in T PROVE n + 1 \in T
  <2> SUFFICES ASSUME n + 1 <= L PROVE g[n + 1] = f[n + 1] OBVIOUS
  <2>1. n + 1 \in 1..L /\ n + 1 \in 1..(L + 1) /\ g[n] = f[n] /\ (n + 1) - 1 = n BY <1>4
  <2>2. f[n + 1] = IF HoldsTodos(results[n + 1], dropped) THEN projectStep(f[(n + 1) - 1], results[n + 1])
                   ELSE f[(n + 1) - 1]
    BY <1>1, <2>1, ProjectedAt
  <2>3. g[n + 1] = IF HoldsTodos(more[n + 1], dropped) THEN projectStep(g[(n + 1) - 1], more[n + 1])
                   ELSE g[(n + 1) - 1]
    BY <1>2, <2>1, ProjectedAt
  <2> QED BY <2>1, <2>2, <2>3
<1> HIDE DEF T
<1>5. Nat \subseteq T BY <1>3, <1>4, NatSetInduction
<1>6. g[L] = f[L] BY <1>5 DEF T
<1>7. L + 1 \in 1..(L + 1) /\ (L + 1) - 1 = L OBVIOUS
<1>8. g[L + 1] = IF HoldsTodos(more[L + 1], dropped) THEN projectStep(g[(L + 1) - 1], more[L + 1])
                 ELSE g[(L + 1) - 1]
  BY <1>2, <1>7, ProjectedAt
<1> QED BY <1>1, <1>2, <1>6, <1>7, <1>8

-----------------------------------------------------------------------------
(* The lists in the history *)

ListsOK ==
    /\ history \in Seq({history[i] : i \in DOMAIN history})
    /\ \A i \in DOMAIN history : history[i].todos \in TodoItems
    /\ \A call \in open : call.plan \in TodoItems

\* What a step does to the history: nothing, or one more result, whose list
\* is well-formed and, if it is TodoWrite's, one that was written over the
\* list of the time.
Written(r) ==
    /\ r.todos \in TodoItems
    /\ r.tool = "TodoWrite" /\ r.heard.case = "success" =>
           /\ r.turn \notin cancelled /\ ActiveIds(todos) \subseteq IdsOf(r.todos)
           /\ r.merged \/ missingActiveTodoReplacementIDs(todos, r.todos) = {}

TodosStep ==
    /\ \/ history' = history
       \/ cancelled' = cancelled /\ \E r : history' = Append(history, r) /\ Written(r)
    /\ \A call \in open' : call \in open \/ call.plan \in TodoItems

LEMMA TodosType ==
  ASSUME ListsOK
  PROVE  todos \in TodoItems /\ Len(history) \in Nat
<1>1. Len(history) \in Nat /\ DOMAIN history = 1..Len(history)
  BY DEF ListsOK
<1> QED BY <1>1, ProjectionType DEF todos, ListsOK

\* Nothing is written but by WriteTodos and by the success of a plan.
LEMMA TodosStepOf ==
  ASSUME ListsOK, OpenOK, [Next]_vars
  PROVE  TodosStep
<1>E. <<>> \in TodoItems BY DEF TodoItems
<1>R. ASSUME NEW call, NEW outcome, NEW heard, NEW plan \in TodoItems, call.tool # "TodoWrite" \/ heard.case # "success"
      PROVE  /\ Written(Result(call, outcome, heard))
             /\ Written([Result(call, outcome, heard) EXCEPT !.todos = plan])
  BY <1>E, <1>R DEF Written, Result
<1>S. ASSUME history' = history, open' \subseteq open PROVE TodosStep
  BY <1>S DEF TodosStep
<1>A. ASSUME NEW r, appendToolResult(r), Written(r), cancelled' = cancelled, open' \subseteq open PROVE TodosStep
  BY <1>A DEF TodosStep, appendToolResult
<1>1. ASSUME NEW call, NEW outside, NEW overrides, RefuseCall(call, outside, overrides) PROVE TodosStep
  <2> DEFINE o == [text |-> Line("refused"), stored |-> NoCall]
  <2>1. open' = open /\ cancelled' = cancelled /\ appendToolResult(Result(call, o, Nothing("refused")))
    BY <1>1 DEF RefuseCall, completePreDispatchToolError
  <2>2. Nothing("refused").case # "success" BY NothingHeard
  <2> HIDE DEF o
  <2> QED BY <1>A, <1>E, <1>R, <2>1, <2>2
<1>2. ASSUME NEW tool, NEW call \in NewCalls(tool), NEW outside, NEW overrides,
             NEW plan \in (IF tool = "CreatePlan" THEN Lists ELSE {<<>>}), SendCall(call, outside, overrides, plan)
      PROVE  TodosStep
  <2>1. plan \in TodoItems BY <1>E, BoundsAssumption DEF TodoItems
  <2>2. history' = history BY <1>2 DEF SendCall
  <2>3. \A c \in open' : c \in open \/ c.plan = plan BY <1>2 DEF SendCall
  <2> QED BY <2>1, <2>2, <2>3 DEF TodosStep
<1>3. ASSUME NEW call, NEW merge, NEW items \in Lists, WriteTodos(call, merge, items) PROVE TodosStep
  <2> DEFINE write == IF call.args = "complete" THEN handleTodoWrite(merge, todos, items) ELSE Failure
             o == [text |-> Line(write.case), stored |-> Encoded(Line(write.case))]
             r == [Result(call, o, Nothing(write.case)) EXCEPT !.todos = write.todos, !.merged = write.merged]
  <2>1. open' = open /\ cancelled' = cancelled /\ appendToolResult(r) /\ turn \notin cancelled
    BY <1>3 DEF WriteTodos, Makes
  <2>2. items \in TodoItems BY BoundsAssumption DEF TodoItems
  <2>3. /\ write.todos \in TodoItems
        /\ write.case = "success" => /\ ActiveIds(todos) \subseteq IdsOf(write.todos)
                                     /\ write.merged \/ missingActiveTodoReplacementIDs(todos, write.todos) = {}
    <3>1. CASE call.args = "complete" BY <2>2, <3>1, TodosType, WriteKeeps
    <3>2. CASE call.args # "complete" BY <1>E, <3>2 DEF Failure
    <3> QED BY <3>1, <3>2
  <2> HIDE DEF write
  <2>4. /\ r.todos = write.todos /\ r.merged = write.merged /\ r.turn = turn /\ r.heard = Nothing(write.case)
    BY DEF Result
  <2>5. Nothing(write.case).case = write.case BY NothingHeard
  <2> HIDE DEF r, o
  <2>6. Written(r)
    <3>1. r.heard.case = write.case BY <2>4, <2>5
    <3>2. r.turn \notin cancelled BY <2>1, <2>4
    <3>3. ASSUME write.case = "success"
          PROVE  /\ ActiveIds(todos) \subseteq IdsOf(r.todos)
                 /\ r.merged \/ missingActiveTodoReplacementIDs(todos, r.todos) = {}
      BY <2>3, <2>4, <3>3
    <3>4. r.todos \in TodoItems BY <2>3, <2>4
    <3> QED BY <3>1, <3>2, <3>3, <3>4 DEF Written
  <2> QED BY <1>A, <2>1, <2>6
<1>4. ASSUME NEW call, NEW a, HandleExecResult(call, a) PROVE TodosStep
  <2>1. /\ open' \subseteq open /\ cancelled' = cancelled
        /\ appendToolResult(Result(call, Outcome(call.tool, a), Heard(call.tool, a)))
        /\ call.tool # "TodoWrite"
    BY <1>4 DEF HandleExecResult, ExecTools, EditTools
  <2> QED BY <1>A, <1>E, <1>R, <2>1
<1>5. ASSUME NEW call, HandleExecThrow(call) PROVE TodosStep
  <2>1. /\ open' \subseteq open /\ cancelled' = cancelled
        /\ appendToolResult(Result(call, ApplyExecClientControl, Nothing("thrown")))
    BY <1>5 DEF HandleExecThrow
  <2>2. Nothing("thrown").case # "success" BY NothingHeard
  <2> QED BY <1>A, <1>E, <1>R, <2>1, <2>2
<1>6. ASSUME NEW call, NEW a, NEW target, HandleInteractionResult(call, a, target) PROVE TodosStep
  <2> DEFINE o == Outcome(call.tool, a)
             h == Heard(call.tool, a)
             plan == IF h.case = "success" THEN call.plan ELSE <<>>
  <2>1. /\ call \in open /\ open' \subseteq open /\ cancelled' = cancelled
        /\ appendToolResult([Result(call, o, h) EXCEPT !.todos = plan])
        /\ call.tool # "TodoWrite"
    BY <1>6 DEF HandleInteractionResult, InteractionTools
  <2>2. plan \in TodoItems BY <1>E, <2>1 DEF ListsOK
  <2> HIDE DEF o, h, plan
  <2> QED BY <1>A, <1>R, <2>1, <2>2
<1>I. ASSUME NEW call, call.tool # "TodoWrite", NEW case, open' \subseteq open, cancelled' = cancelled,
             appendToolResult(Result(call, buildGenerateImageResult(case), Nothing(case)))
      PROVE  TodosStep
  BY <1>A, <1>E, <1>I, <1>R
<1>7. ASSUME NEW call, NEW references, NEW ofModel, NEW ofImages, call.tool \in NativeTools,
             GenerateImage(call, references, ofModel, ofImages)
      PROVE  TodosStep
  <2>1. call.tool # "TodoWrite" /\ cancelled' = cancelled BY <1>7 DEF GenerateImage, NativeTools
  <2>2. CASE ImageReady(call, references, ofModel, ofImages)
    <3>1. history' = history /\ \A c \in open' : c \in open \/ c.plan = <<>>
      BY <1>7, <2>2 DEF GenerateImage
    <3> QED BY <1>E, <3>1 DEF TodosStep
  <2>3. CASE ~ImageReady(call, references, ofModel, ofImages)
    <3>1. open' = open /\ appendToolResult(Result(call, buildGenerateImageResult("error"), Nothing("error")))
      BY <1>7, <2>3 DEF GenerateImage
    <3> QED BY <1>I, <2>1, <3>1
  <2> QED BY <2>2, <2>3
<1>8. ASSUME NEW call, NEW case \in ImageAnswers, HandleImageResult(call, case) PROVE TodosStep
  <2>1. /\ call.tool # "TodoWrite" /\ open' \subseteq open /\ cancelled' = cancelled
        /\ appendToolResult(Result(call, buildGenerateImageResult(case), Nothing(case)))
    BY <1>8 DEF HandleImageResult
  <2> QED BY <1>I, <2>1
<1>9. CASE NextTurn
  BY <1>9, <1>S DEF NextTurn
<1>10. CASE CancelTurn
  BY <1>10, <1>S DEF CancelTurn
<1>11. CASE UNCHANGED vars
  BY <1>11, <1>S DEF vars
<1>12. ASSUME NEW tool, NEW call \in NewCalls(tool) PROVE call.tool = tool
  BY <1>12 DEF NewCalls
<1>13. ASSUME NEW tool, \E call \in NewCalls(tool), plan \in (IF tool = "CreatePlan" THEN Lists ELSE {<<>>}) :
                            SendCall(call, FALSE, "none", plan)
       PROVE  TodosStep
  BY <1>2, <1>13
<1>14. ASSUME NEW tool, \E call \in NewCalls(tool), merge \in {"", "yes", "no"}, items \in Lists :
                            WriteTodos(call, merge, items)
       PROVE  TodosStep
  BY <1>3, <1>14
<1> QED
  BY <1>1, <1>4, <1>5, <1>6, <1>7, <1>8, <1>9, <1>10, <1>11, <1>12, <1>13, <1>14 DEF Next

LEMMA ListsOKStep == ListsOK /\ TodosStep => ListsOK'
<1> SUFFICES ASSUME ListsOK, TodosStep PROVE ListsOK' OBVIOUS
<1>1. \A call \in open' : call.plan \in TodoItems BY DEF TodosStep, ListsOK
<1>2. CASE history' = history BY <1>1, <1>2 DEF ListsOK
<1>3. ASSUME NEW r, history' = Append(history, r), Written(r) PROVE ListsOK'
  <2>1. \A i \in DOMAIN history' : history'[i].todos \in TodoItems
    BY <1>3, AppendedTo DEF ListsOK, Written
  <2> QED BY <1>1, <1>3, <2>1, AppendedTo DEF ListsOK
<1> QED BY <1>2, <1>3 DEF TodosStep

\* Whatever lists the provider writes, an item that is not done leaves the list
\* only with a new plan, or with the turn that wrote it when that is stopped:
\* missingActiveTodoReplacementIDs, mergeTodoItems and the projection of the
\* stored results, over any history.
THEOREM ActiveTodosAreKept == Spec => ActiveTodosKept
<1> DEFINE Kept == ActiveIds(todos) \subseteq IdsOf(todos') \/ cancelled' # cancelled
                   \/ (Len(history') > Len(history) /\ history'[Len(history')].tool = "CreatePlan")
<1>1. ListsOK /\ TodosStep => [Kept]_vars
  <2> SUFFICES ASSUME ListsOK, TodosStep, cancelled' = cancelled PROVE Kept OBVIOUS
  <2>1. \A list : ActiveIds(list) \subseteq IdsOf(list) BY DEF ActiveIds, IdsOf
  <2>2. CASE history' = history
    <3>1. todos' = todos BY <2>2 DEF todos
    <3> QED BY <2>1, <3>1
  <2>3. ASSUME NEW r, history' = Append(history, r), Written(r) PROVE Kept
    <3>1. /\ Len(history) \in Nat /\ Len(history') = Len(history) + 1
          /\ \A i \in 1..Len(history) : history'[i] = history[i]
          /\ history'[Len(history')] = r
      BY <2>3, AppendedTo DEF ListsOK
    <3>2. todos' = IF HoldsTodos(r, cancelled) THEN projectStep(todos, r) ELSE todos
      BY <3>1, ProjectionOfAppend DEF todos
    <3>3. CASE HoldsTodos(r, cancelled) /\ r.tool # "CreatePlan"
      <4>1. r.tool = "TodoWrite" /\ r.heard.case = "success" BY <3>3 DEF HoldsTodos
      <4>2. todos' = r.todos BY <2>3, <3>2, <3>3, <4>1 DEF projectStep, Written
      <4> QED BY <2>3, <4>1, <4>2 DEF Written
    <3>4. CASE HoldsTodos(r, cancelled) /\ r.tool = "CreatePlan"
      BY <3>1, <3>4
    <3>5. CASE ~HoldsTodos(r, cancelled)
      BY <2>1, <3>2, <3>5
    <3> QED BY <3>3, <3>4, <3>5
  <2> QED BY <2>2, <2>3 DEF TodosStep
<1>2. Init => ListsOK
  <2> SUFFICES ASSUME Init PROVE ListsOK OBVIOUS
  <2>1. open = {} /\ history = <<>> BY DEF Init
  <2>2. DOMAIN history = {} BY <2>1
  <2>3. history \in Seq({history[i] : i \in DOMAIN history}) BY <2>1
  <2> QED BY <2>1, <2>2, <2>3 DEF ListsOK
<1>3. ListsOK /\ ResultsTell /\ [Next]_vars => TodosStep
  BY TodosStepOf DEF ResultsTell
<1>4. Spec => []ListsOK
  BY <1>2, <1>3, ListsOKStep, ResultsAlwaysTell, PTL DEF Spec
<1>5. Spec => [][Kept]_vars
  <2> HIDE DEF Kept
  <2> QED BY <1>1, <1>3, <1>4, ResultsAlwaysTell, PTL DEF Spec
<1> QED BY <1>5 DEF ActiveTodosKept
=============================================================================
