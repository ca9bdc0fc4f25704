---------------------------- MODULE StreamBroker ----------------------------
(***************************************************************************)
(* The broker entry of one request id (internal/backend/forwarder,         *)
(* broker.go) and the loop of RunSSE that reads it: the actor publishes    *)
(* events and the endstream, readers subscribe, follow the backlog with a  *)
(* cursor, disconnect, and the stream is removed once nobody needs it.     *)
(*                                                                         *)
(* The broker's lock and a stream's lock are taken per call: every step    *)
(* below is one critical section. A reader that has nothing to read wakes  *)
(* up by its signal or, at the latest, by its 5 s ticker, so reading is    *)
(* enabled whenever its cursor lies inside the backlog.                    *)
(***************************************************************************)
EXTENDS Integers, Sequences, FiniteSets

CONSTANTS
    Readers,            \* RunSSE calls for the request id
    BacklogCap,         \* backlogCap
    MaxEvents,          \* bound: events published before the endstream
    MaxStreams,         \* bound: streams made for the request id
    MaxVerdicts         \* bound: Complete, Cancel and Fail calls

ASSUME BrokerAssumption ==
    /\ IsFiniteSet(Readers)
    /\ {BacklogCap, MaxEvents, MaxStreams, MaxVerdicts} \subseteq Nat \ {0}

VARIABLES
    streams,            \* every stream object made for the request id
    entry,              \* the one the broker's map holds, 0: none
    run,                \* the one the run intent opened, 0: none yet
    actor,              \* what the actor is doing
    verdicts,           \* Complete, Cancel and Fail calls so far
    counted,            \* subscribers it counted when it closed the stream
    cleanups,           \* terminal cleanup timers, armed or running
    reader,             \* where each RunSSE call stands
    found,              \* the stream its Subscribe found
    cursor,             \* how many backlog events it has passed
    got,                \* history: the events it was sent
    published,          \* history: events published on the run's stream
    pruned              \* history: the backlog was cut

vars == <<streams, entry, run, actor, verdicts, counted, cleanups, reader,
          found, cursor, got, published, pruned>>

Ids == 1..MaxStreams
Event == [number : Nat, end : BOOLEAN]
Stream == [closed : BOOLEAN, known : BOOLEAN, backlog : Seq(Event),
           subscribers : SUBSET Readers, cleanupSeq : Nat]
Cleanup == [stream : Ids, seq : Nat, pc : {"armed", "fired", "checked"}]

NoStream == [closed |-> FALSE, known |-> FALSE, backlog |-> <<>>,
             subscribers |-> {}, cleanupSeq |-> 0]

TypeOK ==
    /\ streams \in Seq(Stream)
    /\ Len(streams) <= MaxStreams
    /\ entry \in 0..Len(streams)
    /\ run \in 0..Len(streams)
    /\ actor \in {"idle", "serving", "ending", "scheduling", "over"}
    /\ verdicts \in 0..MaxVerdicts
    /\ counted \in 0..Cardinality(Readers)
    /\ cleanups \subseteq Cleanup
    /\ \A i, j \in cleanups :
          i.pc = "armed" /\ j.pc = "armed" /\ i.stream = j.stream => i = j
    /\ reader \in [Readers -> {"away", "found", "reading", "leaving",
                               "removing", "done"}]
    /\ found \in [Readers -> 0..Len(streams)]
    /\ cursor \in [Readers -> Nat]
    /\ got \in [Readers -> Seq(Event)]
    /\ published \in Seq(Event)
    /\ pruned \in BOOLEAN

Init ==
    /\ streams = <<>>
    /\ entry = 0
    /\ run = 0
    /\ actor = "idle"
    /\ verdicts = 0
    /\ counted = 0
    /\ cleanups = {}
    /\ reader = [r \in Readers |-> "away"]
    /\ found = [r \in Readers |-> 0]
    /\ cursor = [r \in Readers |-> 0]
    /\ got = [r \in Readers |-> <<>>]
    /\ published = <<>>
    /\ pruned = FALSE

-----------------------------------------------------------------------------
(* OpenStream: the entry of the request id, made when there is none. *)
OpenStream(known) ==
    IF entry = 0
    THEN /\ Len(streams) < MaxStreams
         /\ streams' = Append(streams, [NoStream EXCEPT !.known = known])
         /\ entry' = Len(streams) + 1
    ELSE /\ streams' = [streams EXCEPT ![entry].known = @ \/ known]
         /\ UNCHANGED entry

(* stopTerminalCleanupTimerLocked, on the stream and on its timers. A      *)
(* timer that has fired cannot be stopped; its sequence number is stale.   *)
StopCleanup(s) == [s EXCEPT !.cleanupSeq = @ + 1]
WithoutArmed(id) == {c \in cleanups : ~(c.stream = id /\ c.pc = "armed")}

(* The run intent opens the stream. *)
OpenRun ==
    /\ actor = "idle"
    /\ OpenStream(TRUE)
    /\ run' = entry'
    /\ actor' = "serving"
    /\ UNCHANGED <<verdicts, counted, cleanups, reader, found, cursor, got,
                   published, pruned>>

(* Over the cap the oldest events go, but never an endstream.              *)
DropOldest(log) ==
    LET i == CHOOSE k \in DOMAIN log :
                /\ ~log[k].end
                /\ \A j \in 1..(k - 1) : log[j].end
    IN  SubSeq(log, 1, i - 1) \o SubSeq(log, i + 1, Len(log))

Cut(log) ==
    IF Len(log) > BacklogCap /\ \E k \in DOMAIN log : ~log[k].end
    THEN DropOldest(log) ELSE log

(* Wrong: a closed stream takes no event at all, its endstream included. *)
PublishOnOpen(id, event) ==
    IF streams[id].closed
    THEN UNCHANGED <<streams, pruned, published>>
    ELSE /\ streams' = [streams EXCEPT ![id].backlog = Cut(Append(@, event))]
         /\ pruned' = (pruned \/ Len(streams[id].backlog) >= BacklogCap)
         /\ published' = IF id = run THEN Append(published, event)
                                    ELSE published

(* Publish on the entry of the request id. *)
PublishOn(id, event) ==
    LET log == Append(streams[id].backlog, event)
    IN  /\ streams' = [streams EXCEPT ![id].backlog = Cut(log)]
        /\ pruned' = (pruned \/ Cut(log) # log)
        /\ published' = IF id = run THEN Append(published, event)
                                   ELSE published

Publish ==
    /\ actor = "serving"
    /\ Len(published) < MaxEvents
    /\ PublishOn(entry, [number |-> Len(published) + 1, end |-> FALSE])
    /\ UNCHANGED <<entry, run, actor, verdicts, counted, cleanups, reader,
                   found, cursor, got>>

(* Complete, Cancel or Fail marks the stream. Fail comes a second time     *)
(* when the handler that failed the stream returns an error to the actor.  *)
CloseStream ==
    /\ actor = "serving" \/ (actor = "over" /\ entry # 0)
    /\ verdicts < MaxVerdicts
    /\ streams' = [streams EXCEPT ![entry] =
                     [StopCleanup(@) EXCEPT !.closed = TRUE]]
    /\ cleanups' = WithoutArmed(entry)
    /\ counted' = Cardinality(streams[entry].subscribers)
    /\ verdicts' = verdicts + 1
    /\ actor' = "ending"
    /\ UNCHANGED <<entry, run, reader, found, cursor, got, published, pruned>>

(* Its endstream; when the stream is gone by then, the call gives up. *)
PublishEnd ==
    /\ actor = "ending"
    /\ IF entry = 0
       THEN actor' = "over" /\ UNCHANGED <<streams, published, pruned>>
       ELSE /\ PublishOn(entry, [number |-> Len(published) + 1, end |-> TRUE])
            /\ actor' = IF counted = 0 THEN "scheduling" ELSE "over"
    /\ UNCHANGED <<entry, run, verdicts, counted, cleanups, reader, found,
                   cursor, got>>

(* scheduleTerminalCleanup; a subscriber or an open status disarms. *)
ScheduleCleanup ==
    /\ actor = "scheduling"
    /\ actor' = "over"
    /\ IF entry = 0 THEN UNCHANGED <<streams, cleanups>>
       ELSE LET s == StopCleanup(streams[entry])
            IN  /\ streams' = [streams EXCEPT ![entry] = s]
                /\ cleanups' = WithoutArmed(entry) \cup
                      IF s.closed /\ s.subscribers = {}
                      THEN {[stream |-> entry, seq |-> s.cleanupSeq,
                             pc |-> "armed"]}
                      ELSE {}
    /\ UNCHANGED <<entry, run, verdicts, counted, reader, found, cursor, got,
                   published, pruned>>

-----------------------------------------------------------------------------
(* RemoveIfIdle: a closed stream without subscribers, or an empty shell,   *)
(* leaves the map; "gone" is the cleanup that asked for it. A stream that  *)
(* is closed has its timer stopped in any case.                            *)
Removable(s) ==
    /\ s.subscribers = {}
    /\ s.closed \/ (s.backlog = <<>> /\ ~s.known)

(* Wrong: nothing is ever removed. *)
RemoveNothing(gone) ==
    /\ cleanups' = cleanups \ gone
    /\ UNCHANGED <<entry, streams>>

RemoveIfIdle(gone) ==
    /\ entry' = IF entry # 0 /\ Removable(streams[entry]) THEN 0 ELSE entry
    /\ IF entry # 0 /\ streams[entry].closed
       THEN /\ streams' = [streams EXCEPT ![entry] = StopCleanup(@)]
            /\ cleanups' = WithoutArmed(entry) \ gone
       ELSE /\ cleanups' = cleanups \ gone
            /\ UNCHANGED streams

(* The retention period is over: the timer's goroutine starts. *)
CleanupFires(c) ==
    /\ c.pc = "armed"
    /\ cleanups' = (cleanups \ {c}) \cup {[c EXCEPT !.pc = "fired"]}
    /\ UNCHANGED <<streams, entry, run, actor, verdicts, counted, reader,
                   found, cursor, got, published, pruned>>

(* It looks the request id up again and gives up when it is out of date. *)
CleanupChecks(c) ==
    /\ c.pc = "fired"
    /\ LET live == /\ entry # 0
                   /\ streams[entry].cleanupSeq = c.seq
                   /\ streams[entry].closed
                   /\ streams[entry].subscribers = {}
       IN  cleanups' = (cleanups \ {c}) \cup
                       IF live THEN {[c EXCEPT !.pc = "checked"]} ELSE {}
    /\ UNCHANGED <<streams, entry, run, actor, verdicts, counted, reader,
                   found, cursor, got, published, pruned>>

CleanupRemoves(c) ==
    /\ c.pc = "checked"
    /\ RemoveIfIdle({c})
    /\ UNCHANGED <<run, actor, verdicts, counted, reader, found, cursor, got,
                   published, pruned>>

-----------------------------------------------------------------------------
(* Subscribe finds the stream, or makes a placeholder ... *)
Find(r) ==
    /\ reader[r] = "away"
    /\ OpenStream(FALSE)
    /\ found' = [found EXCEPT ![r] = entry']
    /\ reader' = [reader EXCEPT ![r] = "found"]
    /\ UNCHANGED <<run, actor, verdicts, counted, cleanups, cursor, got,
                   published, pruned>>

(* ... and registers with it, which may have left the map meanwhile. *)
Register(r) ==
    /\ reader[r] = "found"
    /\ LET s == streams[found[r]]
       IN  streams' = [streams EXCEPT ![found[r]] =
              [StopCleanup(s) EXCEPT !.subscribers = s.subscribers \cup {r}]]
    /\ cleanups' = WithoutArmed(found[r])
    /\ reader' = [reader EXCEPT ![r] = "reading"]
    /\ UNCHANGED <<entry, run, actor, verdicts, counted, found, cursor, got,
                   published, pruned>>

(* What lies beyond the cursor, up to the first endstream; and the same    *)
(* with a cursor that counts one event too many.                           *)
BatchSkippingOne(log, n) == SubSeq(log, n + 2, Len(log))

Batch(log, n) ==
    LET ends == {k \in (n + 1)..Len(log) : log[k].end}
        last == IF ends = {} THEN Len(log)
                ELSE CHOOSE k \in ends : \A j \in ends : k <= j
    IN  SubSeq(log, n + 1, last)

Read(r) ==
    /\ reader[r] = "reading"
    /\ entry # 0
    /\ cursor[r] < Len(streams[entry].backlog)
    /\ LET batch == Batch(streams[entry].backlog, cursor[r])
       IN  /\ got' = [got EXCEPT ![r] = @ \o batch]
           /\ cursor' = [cursor EXCEPT ![r] = @ + Len(batch)]
           /\ reader' = [reader EXCEPT
                ![r] = IF \E k \in DOMAIN batch : batch[k].end
                      THEN "leaving" ELSE @]
    /\ UNCHANGED <<streams, entry, run, actor, verdicts, counted, cleanups,
                   found, published, pruned>>

(* ReadFromCursor knows no such request, or the client is gone. *)
ReadError(r) ==
    /\ reader[r] = "reading"
    /\ entry = 0
    /\ reader' = [reader EXCEPT ![r] = "leaving"]
    /\ UNCHANGED <<streams, entry, run, actor, verdicts, counted, cleanups,
                   found, cursor, got, published, pruned>>

ClientGone(r) ==
    /\ reader[r] = "reading"
    /\ entry # 0
    /\ reader' = [reader EXCEPT ![r] = "leaving"]
    /\ UNCHANGED <<streams, entry, run, actor, verdicts, counted, cleanups,
                   found, cursor, got, published, pruned>>

Unsubscribe(r) ==
    /\ reader[r] = "leaving"
    /\ LET left == IF entry = 0 THEN {}
                   ELSE streams[entry].subscribers \ {r}
       IN  /\ streams' = IF entry = 0 THEN streams
                         ELSE [streams EXCEPT ![entry].subscribers = left]
           /\ reader' = [reader EXCEPT
                ![r] = IF left = {} THEN "removing" ELSE "done"]
    /\ UNCHANGED <<entry, run, actor, verdicts, counted, cleanups, found,
                   cursor, got, published, pruned>>

(* The last one tidies up: an active stream is left to the actor's orphan  *)
(* timer, see StreamActor.                                                 *)
TidyUp(r) ==
    /\ reader[r] = "removing"
    /\ reader' = [reader EXCEPT ![r] = "done"]
    /\ RemoveIfIdle({})
    /\ UNCHANGED <<run, actor, verdicts, counted, found, cursor, got,
                   published, pruned>>

-----------------------------------------------------------------------------
ActorSteps == OpenRun \/ Publish \/ CloseStream \/ PublishEnd \/ ScheduleCleanup

CleanupSteps ==
    \E c \in cleanups : CleanupFires(c) \/ CleanupChecks(c) \/ CleanupRemoves(c)

ReaderSteps(r) ==
    \/ Find(r) \/ Register(r) \/ Read(r) \/ ReadError(r) \/ ClientGone(r)
    \/ Unsubscribe(r) \/ TidyUp(r)

Next == ActorSteps \/ CleanupSteps \/ \E r \in Readers : ReaderSteps(r)

Spec == Init /\ [][Next]_vars

(* The actor reaches its verdict (StreamActor) and carries the calls out,  *)
(* timers fire and RunSSE runs; a client need not connect or disconnect.   *)
Fairness ==
    /\ WF_vars(CloseStream /\ actor = "serving")
    /\ WF_vars(PublishEnd \/ ScheduleCleanup)
    /\ WF_vars(CleanupSteps)
    /\ \A r \in Readers :
          /\ WF_vars(Register(r))
          /\ WF_vars(Read(r) \/ ReadError(r))
          /\ WF_vars(Unsubscribe(r) \/ TidyUp(r))

FairSpec == Spec /\ Fairness

-----------------------------------------------------------------------------
(* Properties *)

Subscribed(r) ==
    /\ reader[r] = "reading"
    /\ entry = run
    /\ entry # 0
    /\ r \in streams[entry].subscribers

(* Until the backlog is cut, a reader is sent the run's events in order    *)
(* and without a gap, whenever it connected, and nothing after the         *)
(* endstream; one that is subscribed to the run's stream is never moved    *)
(* to another.                                                             *)
NoEventSkipped ==
    ~pruned =>
        \A r \in Readers : Subscribed(r) =>
            /\ got[r] = SubSeq(published, 1, cursor[r])
            /\ \A k \in 1..Len(got[r]) : ~got[r][k].end

(* The cap never costs the run its endstream, nor lets the backlog grow    *)
(* past it by more than the endstreams.                                    *)
EndSurvivesCap ==
    run # 0 =>
        LET log == streams[run].backlog
            ends == {k \in DOMAIN log : log[k].end}
        IN  /\ (\E k \in DOMAIN published : published[k].end) => ends # {}
            /\ Len(log) <= BacklogCap + Cardinality(ends)

(* What a reader can be sent, it is sent.                                  *)
NothingSkipped == NoEventSkipped /\ EndSurvivesCap

(* A stream that has its verdict leaves the map once its actor is through  *)
(* and nobody reads it, whoever was connecting, leaving or cleaning up     *)
(* meanwhile.                                                              *)
Abandoned ==
    /\ run # 0
    /\ entry = run
    /\ streams[run].closed
    /\ streams[run].subscribers = {}

ClosedStreamsAreRemoved == Abandoned ~> ~Abandoned

(* Until the backlog is cut, a reader that stays subscribed to the run's   *)
(* stream gets its endstream.                                              *)
ReaderHearsTheEnd ==
    \A r \in Readers :
        (Subscribed(r) /\ ~pruned) ~> (~Subscribed(r) \/ pruned)

(* The comment of maxStreamBacklogEvents: the terminal event is never      *)
(* lost, the latest events are kept for the reader to catch up with.       *)
EndIsNeverLost == \A r \in Readers : Subscribed(r) ~> ~Subscribed(r)
=============================================================================
