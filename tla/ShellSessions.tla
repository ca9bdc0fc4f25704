---------------------------- MODULE ShellSessions ----------------------------
(***************************************************************************)
(* Shell commands.  The client runs the command and streams its output; it *)
(* may move a long command to the background, which ends the tool call but *)
(* not the command.  The actor records what the stream says twice, for the *)
(* call that is pending and for the background shell, and two timers end a *)
(* call whose stream stops without a terminal event.  AwaitShell looks at  *)
(* a background shell later: it waits inside the actor's handler, and what *)
(* it shows of the output is not shown again.                              *)
(*                                                                         *)
(* Output is numbered chunks, of one stream (stderr is treated alike); the *)
(* byte limits are numbers of chunks.  Patterns, the stream's own end and  *)
(* what follows a result are left out (StreamActor has the latter two).    *)
(***************************************************************************)
EXTENDS Integers, Sequences, FiniteSets

CONSTANTS
    Shells,     \* the shell calls; a background shell's id is that of its call
    MaxChunks,  \* bound on the chunks a command prints
    MaxInbox,   \* bound on the messages that wait for the actor
    BufferCap,  \* awaitShellBufferCap
    OutputLimit,\* awaitShellOutputLimit
    Vias        \* how the output of a background command may reach the server

ASSUME ChunksAssumption == MaxChunks \in Nat /\ MaxInbox \in Nat \ {0}
ASSUME LimitsAssumption == BufferCap \in Nat \ {0} /\ OutputLimit \in Nat \ {0}
ASSUME ViasAssumption == Vias \subseteq {"stream", "file", "both"} /\ Vias # {}

VARIABLES
    proc,       \* the client's command: state, chunks printed, its stream's state
    via,        \* per command, where its output goes once it is in the background
    file,       \* the terminal file of the command: output, and whether it ended
    inbox,      \* the actor's mailbox
    pending,    \* PendingExecs, as far as shells go
    timers,     \* the timers that are set
    result,     \* the results written for each call, in order
    bg,         \* BackgroundShells
    known,      \* BackgroundShellsByExecID: calls whose events find their shell
    waiting,    \* the shells the actor waits for in AwaitShell: none or one
    seen        \* history: what AwaitShell showed of each shell's output

vars == <<proc, via, file, inbox, pending, timers, result, bg, known, waiting, seen>>

Terminal   == {"completed", "rejected", "permission_denied", "transport_closed"}
Open       == {"opened", "started", "streaming", "transport_closed"}
NoExec     == [state |-> "none", out |-> <<>>, scheduled |-> FALSE]
NoShell    == [status |-> "none", out |-> <<>>, offset |-> 0]
Exists(s)  == bg[s].status # "none"
Pending(s) == pending[s].state \in Open

Init ==
    /\ proc = [s \in Shells |-> [state |-> "off", printed |-> 0, stream |-> "open"]]
    /\ via \in [Shells -> Vias]
    /\ file = [s \in Shells |-> [out |-> <<>>, ended |-> FALSE]]
    /\ inbox = <<>> /\ timers = {} /\ known = {} /\ waiting = {}
    /\ pending = [s \in Shells |-> NoExec]
    /\ result = [s \in Shells |-> <<>>]
    /\ bg = [s \in Shells |-> NoShell]
    /\ seen = [s \in Shells |-> <<>>]

-----------------------------------------------------------------------------
(* The client *)

client == <<proc, file, inbox>>
server == <<pending, timers, result, bg, known, waiting, seen>>

Event(s, ev) == [shell |-> s, ev |-> ev, chunk |-> proc[s].printed + 1]

Send(s, events) ==
    /\ Len(inbox) < MaxInbox
    /\ inbox' = inbox \o [i \in DOMAIN events |-> Event(s, events[i])]
    /\ UNCHANGED <<via, server>>

\* The events of a background command reach the server over its stream or not at all.
Streams(s) ==
    /\ proc[s].stream = "open"
    /\ proc[s].state = "background" => via[s] # "file"

\* The client asks the user, and starts the command or refuses to.
ClientStarts(s) ==
    /\ proc[s].state = "asked"
    /\ \E ev \in {"start", "rejected", "permission_denied", "throw"} :
          /\ Send(s, <<ev>>)
          /\ proc' = [proc EXCEPT ![s].state = IF ev = "start" THEN "running" ELSE "ended"]
    /\ UNCHANGED file

ClientPrints(s) ==
    /\ proc[s].state \in {"running", "background"}
    /\ proc[s].printed < MaxChunks
    /\ Send(s, IF Streams(s) THEN <<"out">> ELSE <<>>)
    /\ proc' = [proc EXCEPT ![s].printed = @ + 1]
    /\ file' = IF via[s] = "stream" THEN file
               ELSE [file EXCEPT ![s].out = Append(@, proc[s].printed + 1)]

\* At the timeout of the call, or because a ForceBackgroundShell asked for it.
ClientBackgrounds(s) ==
    /\ proc[s].state = "running" /\ proc[s].stream = "open"
    /\ \E events \in {<<"backgrounded">>, <<"backgrounded", "forced">>, <<"forced", "backgrounded">>} :
          Send(s, events)
    /\ proc' = [proc EXCEPT ![s].state = "background"]
    /\ UNCHANGED file

\* The command ends.  The end of a background command may be told, or told once
\* more, as the completion of a task.
ClientEnds(s) ==
    /\ proc[s].state \in {"running", "background"}
    /\ \E told \in {<<>>, <<"task_done">>} :
          /\ told # <<>> => proc[s].state = "background"
          /\ (told = <<>> /\ proc[s].state = "background") => via[s] # "file"
          /\ Send(s, (IF Streams(s) THEN <<"exit">> ELSE <<>>) \o told)
    /\ proc' = [proc EXCEPT ![s].state = "ended"]
    /\ file' = IF via[s] = "stream" THEN file ELSE [file EXCEPT ![s].ended = TRUE]

\* The stream closes or fails, after its terminal event or without one.
ClientCloses(s) ==
    /\ proc[s].state \in {"running", "ended"} /\ proc[s].stream = "open"
    /\ \E ev \in {"close", "throw"} : Send(s, <<ev>>)
    /\ proc' = [proc EXCEPT ![s].stream = "closed"]
    /\ UNCHANGED file

-----------------------------------------------------------------------------
(* The records of a call and of a background shell *)

clampShellBuffer(out) ==
    IF Len(out) <= BufferCap THEN out ELSE SubSeq(out, Len(out) - BufferCap + 1, Len(out))

appendShellStreamBuffer(out, chunk) == clampShellBuffer(Append(out, chunk))

ensureBackgroundShellState(b) == IF b.status = "none" THEN [b EXCEPT !.status = "running"] ELSE b

\* observeShellStream, for an event that finds its shell.
observeShellStream(b, e) ==
    CASE e.ev = "backgrounded" -> [b EXCEPT !.status = "backgrounded"]
      [] e.ev = "out"  -> [b EXCEPT !.out = appendShellStreamBuffer(@, e.chunk), !.status = "running"]
      [] e.ev = "exit" -> [b EXCEPT !.status = "completed"]
      [] e.ev \in {"rejected", "permission_denied"} -> [b EXCEPT !.status = e.ev]
      [] OTHER -> b

\* Slip: only the event of a pending call finds its shell.
findsWhilePending(s, e) == e.ev = "backgrounded" \/ (s \in known /\ Pending(s))

\* backgroundShellIDForMessage: the shell an event of the call belongs to is known.
findsBackgroundShell(s, e) ==
    (e.ev = "backgrounded" /\ Pending(s)) \/ s \in known

applyExecProgress(p, e) ==
    CASE e.ev = "out"   -> [p EXCEPT !.state = "streaming", !.out = appendShellStreamBuffer(@, e.chunk)]
      [] e.ev = "start" -> [p EXCEPT !.state = "started"]
      [] OTHER -> p

markExecCompleted(p) == [p EXCEPT !.state = "done"]

\* Slip: only the close of the transport is watched.
timersWithoutDeadline(s) == {}

scheduleShellForegroundRecovery(s) == {<<"deadline", s>>}

-----------------------------------------------------------------------------
(* The actor *)

openShell(s) ==
    /\ waiting = {}
    /\ proc[s].state = "off"
    /\ proc' = [proc EXCEPT ![s].state = "asked"]
    /\ pending' = [pending EXCEPT ![s].state = "opened"]
    /\ timers' = timers \cup scheduleShellForegroundRecovery(s)
    /\ UNCHANGED <<via, file, inbox, result, bg, known, waiting, seen>>

Complete(s, verdict) ==
    /\ pending' = [pending EXCEPT ![s] = markExecCompleted(@)]
    /\ result' = [result EXCEPT ![s] = Append(@, [verdict |-> verdict, out |-> pending[s].out])]

Verdicts == {"exit", "rejected", "permission_denied", "backgrounded", "throw"}

\* handleExecResult: the background shell hears of the event first, then the
\* pending call; an event without a pending call is for the background shell only.
handleExecResult(e) ==
    LET s == e.shell
    IN  /\ e.ev \in {"start", "out", "exit", "rejected", "permission_denied", "backgrounded"}
        /\ IF findsBackgroundShell(s, e)
           THEN /\ bg' = [bg EXCEPT ![s] = observeShellStream(ensureBackgroundShellState(@), e)]
                /\ known' = known \cup {s}
           ELSE UNCHANGED <<bg, known>>
        /\ IF ~Pending(s) THEN UNCHANGED <<pending, result>>
           ELSE IF e.ev \in Verdicts THEN Complete(s, e.ev)
           ELSE /\ pending' = [pending EXCEPT ![s] = applyExecProgress(@, e)]
                /\ UNCHANGED result
        /\ UNCHANGED timers

\* handleExecControl: a throw ends the call, a close starts the timer that may.
handleExecControl(e) ==
    LET s == e.shell
    IN  /\ e.ev \in {"throw", "close"}
        /\ UNCHANGED <<bg, known>>
        /\ IF ~Pending(s) THEN UNCHANGED <<pending, result, timers>>
           ELSE IF e.ev = "throw" THEN Complete(s, "throw") /\ UNCHANGED timers
           ELSE /\ pending' = [pending EXCEPT ![s].state = "transport_closed", ![s].scheduled = TRUE]
                /\ timers' = IF pending[s].state = "transport_closed" \/ pending[s].scheduled THEN timers
                             ELSE timers \cup {<<"close", s>>}
                /\ UNCHANGED result

\* The result of a ForceBackgroundShell, and the end of a background task.  Both
\* name the shell by its id, not by the call.
observeBackgroundShell(e) ==
    LET s == e.shell
    IN  /\ e.ev \in {"forced", "task_done"}
        /\ bg' = [bg EXCEPT ![s].status = IF e.ev = "forced" THEN "backgrounded" ELSE "completed"]
        /\ UNCHANGED <<pending, result, timers, known>>

\* The two timers end a call that is still pending with what it printed so far.
recoverShellWithoutTerminal(e) ==
    LET s == e.shell
    IN  /\ e.ev \in {"deadline_fired", "close_fired"}
        /\ IF Pending(s) /\ (e.ev = "close_fired" => pending[s].state = "transport_closed")
           THEN Complete(s, "incomplete")
           ELSE UNCHANGED <<pending, result>>
        /\ UNCHANGED <<bg, known, timers>>

TimerFires(t) ==
    /\ Len(inbox) < MaxInbox
    /\ timers' = timers \ {t}
    /\ inbox' = Append(inbox, Event(t[2], IF t[1] = "close" THEN "close_fired"
                                                         ELSE "deadline_fired"))
    /\ UNCHANGED <<proc, via, file, pending, result, bg, known, waiting, seen>>

\* runStreamActor: the next message, once the handler before it has returned.
ActorHandles ==
    /\ waiting = {} /\ inbox # <<>>
    /\ inbox' = Tail(inbox)
    /\ LET e == Head(inbox)
       IN  \/ handleExecResult(e)
           \/ handleExecControl(e)
           \/ observeBackgroundShell(e)
           \/ recoverShellWithoutTerminal(e)
    /\ UNCHANGED <<proc, via, file, waiting, seen>>

-----------------------------------------------------------------------------
(* AwaitShell *)

refreshBackgroundShellFromTerminalFile(b, f) ==
    IF f = [out |-> <<>>, ended |-> FALSE] THEN b
    ELSE LET known1 == ensureBackgroundShellState(b)
             output == IF known1.out = <<>> /\ f.out # <<>>
                       THEN [known1 EXCEPT !.out = clampShellBuffer(f.out),
                                           !.status = IF @ \in Terminal THEN @ ELSE "running"]
                       ELSE known1
         IN  [output EXCEPT !.status = IF f.ended /\ @ \notin Terminal THEN "completed" ELSE @]

truncateAwaitShellOutput(out) ==
    IF Len(out) <= OutputLimit THEN out ELSE SubSeq(out, Len(out) - OutputLimit + 1, Len(out))

clampOffset(offset, length) == IF offset > length THEN length ELSE offset

\* Slip: a look does not count as shown.
offsetKept(b) == b.offset

offsetAfterSnapshot(b) == Len(b.out)

\* handleAwaitShellToolInvocation: the wait begins.
AwaitShell(s) ==
    /\ waiting = {}
    /\ result[s] # <<>>
    /\ waiting' = {s}
    /\ UNCHANGED <<proc, via, file, inbox, pending, timers, result, bg, known, seen>>

\* awaitShellBlockUntilMatched returns, because the shell is unknown or at its
\* end or the time is up, and awaitShellSnapshot shows what it has.
AwaitShellReturns(s) ==
    LET b     == refreshBackgroundShellFromTerminalFile(bg[s], file[s])
        start == clampOffset(b.offset, Len(b.out))
        shown == truncateAwaitShellOutput(SubSeq(b.out, start + 1, Len(b.out)))
    IN  /\ s \in waiting
        /\ waiting' = {}
        /\ bg' = [bg EXCEPT ![s] = [b EXCEPT !.offset = offsetAfterSnapshot(b)]]
        /\ seen' = [seen EXCEPT ![s] = @ \o shown]
        /\ UNCHANGED <<client, via, pending, timers, result, known>>

-----------------------------------------------------------------------------
Next ==
    \/ \E s \in Shells : \/ ClientStarts(s) \/ ClientPrints(s) \/ ClientBackgrounds(s)
                         \/ ClientEnds(s) \/ ClientCloses(s)
                         \/ openShell(s) \/ AwaitShell(s) \/ AwaitShellReturns(s)
    \/ \E t \in timers : TimerFires(t)
    \/ ActorHandles

\* The server's own steps: timers fire, a wait ends at its deadline, the actor
\* goes on.  Of the client nothing is assumed.
Fairness ==
    /\ \A s \in Shells : WF_vars(<<"deadline", s>> \in timers /\ TimerFires(<<"deadline", s>>))
    /\ \A s \in Shells : WF_vars(AwaitShellReturns(s))
    /\ SF_vars(ActorHandles)

Spec == Init /\ [][Next]_vars /\ Fairness

-----------------------------------------------------------------------------
(* Properties *)

\* A shell call has one result at most: the exit, the two timers and a late event
\* after one of them do not answer it twice, and a call that is done has one.
OneResultPerShell ==
    \A s \in Shells :
        /\ Len(result[s]) <= 1
        /\ pending[s].state = "done" <=> result[s] # <<>>

\* AwaitShell shows each chunk of output once at most, and in the order in which
\* the command printed them, whatever was cut from the buffer in between.
ShownOnceInOrder ==
    \A s \in Shells : \A i, j \in DOMAIN seen[s] : i < j => seen[s][i] < seen[s][j]

\* The end of a command the model was told is in the background is not lost: once
\* the actor has handled what the client sent, the shell is at its end too.  The
\* exit arrives after the call is done, and must find the shell by the call.
BackgroundEndIsKnown ==
    \A s \in Shells :
        ( /\ \E i \in DOMAIN result[s] : result[s][i].verdict = "backgrounded"
          /\ proc[s].state = "ended"
          /\ \A i \in DOMAIN inbox : inbox[i].shell # s )
        => bg[s].status \in Terminal

\* A shell ends once for the provider, and once for AwaitShell.
EndIsKnownOnce == OneResultPerShell /\ BackgroundEndIsKnown

\* Every shell call is answered, even if the client never says another word.
ShellsAreAnswered ==
    \A s \in Shells : Pending(s) ~> result[s] # <<>>

\* "The poll does not block the actor's mailbox": no AwaitShell returns with the
\* shell still running while the message of its end waits for the actor.
AwaitSeesTheEnd ==
    [][\A s \in Shells :
         (AwaitShellReturns(s) /\ \E i \in DOMAIN inbox : inbox[i].shell = s /\ inbox[i].ev = "exit")
         => bg'[s].status \in Terminal]_vars

=============================================================================
