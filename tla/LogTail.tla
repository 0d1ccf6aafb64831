------------------------------- MODULE LogTail -------------------------------
(***************************************************************************)
(* The log viewers of one run: a log that grows, the service's stateless   *)
(* incremental reads of it, and the browser pages that carry the cursor    *)
(* from one answer to the next request.                                    *)
(*                                                                         *)
(* Two sources have the same page and the same arithmetic.  "ssh" is the   *)
(* run log of a command, read by two remote commands, stat and then tail.  *)
(* "gitlab" is the trace of a job, read whole and kept in a cache once the *)
(* job is over.                                                            *)
(***************************************************************************)
EXTENDS Integers, FiniteSets, Sequences

CONSTANTS
    Viewers,      \* open pages of the log
    Sources,      \* subset of SourceKinds
    Characters,   \* subset of CharacterKinds the run writes
    MaxLog,       \* bound on the length of the log, in bytes
    HardCap,      \* COMMAND_LOG_ / GITLAB_TRACE_HARD_CAP_BYTES
    MaxFailures,  \* MAX_FAILURES of the page
    Faults        \* subset of FaultKinds

SourceKinds == {"ssh", "gitlab"}
FaultKinds == {"poll", "session", "early"}

\* The log is a sequence of bytes: a plain one, the two of a wide character,
\* a newline.
CharacterKinds == {<<"a">>, <<"w1", "w2">>, <<"nl">>}
Bytes == {"a", "w1", "w2", "nl"}

ASSUME SourcesAssumption == Sources \subseteq SourceKinds
ASSUME CharactersAssumption == Characters \subseteq CharacterKinds
ASSUME BoundsAssumption == MaxLog \in Nat /\ HardCap \in Nat /\ MaxFailures \in Nat \ {0}

VARIABLES
    source,
    log, ended,    \* what has been written; the writer is done
    status,        \* status of the record or of the job
    cache,         \* cached trace, with whether there is one
    pc,            \* [Viewers -> ...]: where the request of a page is
    seen, size,    \* [Viewers -> ...]: status and size the request has read
    offset,        \* [Viewers -> Int]: currentByteOffset of the page
    failures,      \* [Viewers -> Nat]: consecutiveFailures
    shown,         \* [Viewers -> Seq(Nat)]: positions of the bytes rendered
    stopped        \* [Viewers -> ...]: why the page no longer polls

runVars == <<source, log, ended, status>>
viewerVars == <<pc, seen, size, offset, failures, shown, stopped>>
vars == <<runVars, cache, viewerVars>>

\* "failed": the task lost its connection and recorded FAILED, the script may
\* still be writing.
Finished == {"done", "failed"}
NoCache == [on |-> FALSE, log |-> <<>>]

TypeOK ==
    /\ source \in Sources
    /\ log \in Seq(Bytes) /\ ended \in BOOLEAN
    /\ status \in {"running"} \cup Finished
    /\ cache \in [on: BOOLEAN, log: Seq(Bytes)]
    /\ pc \in [Viewers -> {"idle", "stat", "tail", "trace"}]
    /\ seen \in [Viewers -> {"running"} \cup Finished]
    /\ size \in [Viewers -> Nat]
    /\ offset \in [Viewers -> Int]
    /\ failures \in [Viewers -> 0..MaxFailures]
    /\ shown \in [Viewers -> Seq(1..Len(log))]
    /\ stopped \in [Viewers -> {"no", "finished", "too_large", "poll_failed",
                                "login"}]

Init ==
    /\ source \in Sources
    /\ log = <<>> /\ ended = FALSE /\ status = "running"
    /\ cache = NoCache
    /\ pc = [v \in Viewers |-> "idle"]
    /\ seen = [v \in Viewers |-> "running"]
    /\ size = [v \in Viewers |-> 0]
    /\ offset = [v \in Viewers |-> 0]
    /\ failures = [v \in Viewers |-> 0]
    /\ shown = [v \in Viewers |-> <<>>]
    /\ stopped = [v \in Viewers |-> "no"]

---------------------------------------------------------------------------
(* The run.                                                                *)

Write ==
    /\ ~ended
    /\ \E c \in Characters : Len(log) + Len(c) <= MaxLog /\ log' = log \o c
    /\ UNCHANGED <<source, ended, status, cache, viewerVars>>

WriterEnds ==
    /\ ~ended /\ ended' = TRUE
    /\ UNCHANGED <<source, log, status, cache, viewerVars>>

\* The status turns terminal when the output is complete, or before: the task
\* lost its connection to a script that goes on, or a kill was recorded.
StatusTerminal ==
    /\ status = "running"
    /\ \/ ended /\ status' = "done"
       \/ source = "ssh" /\ "early" \in Faults /\ status' = "failed"
    /\ UNCHANGED <<source, log, ended, cache, viewerVars>>

---------------------------------------------------------------------------
(* The arithmetic of an answer, the same in both services: from the text   *)
(* after the cursor and the total size, the lines to render and the next   *)
(* cursor.                                                                 *)

From(bytes, first) == SubSeq(bytes, first, Len(bytes))

\* Decoding: a wide character is one character, and so is a stray half.
Chars(text) == Cardinality({i \in DOMAIN text : text[i] # "w2" \/ i = 1})

\* Position of the last newline, 0 if there is none.
LastNewline(text) ==
    CHOOSE n \in 0..Len(text) :
        /\ n # 0 => text[n] = "nl"
        /\ \A i \in n + 1..Len(text) : text[i] # "nl"

Held(text) == Chars(From(text, LastNewline(text) + 1))

\* Variant: the partial line is dropped from the answer, not held back.
NextCursorDropsPartial(cursor, text, total) ==
    IF text # <<>> /\ LastNewline(text) = 0 THEN cursor ELSE total

NextCursor(cursor, text, total) ==
    IF text # <<>> /\ LastNewline(text) = 0 THEN cursor ELSE total - Held(text)

\* Variant: partial lines are rendered, too.
RenderedWithPartial(v, text) ==
    shown[v] \o [i \in 1..Len(text) |-> offset[v] + i]

\* The page renders the lines of an answer, then moves its cursor.
Rendered(v, text) ==
    shown[v] \o [i \in 1..LastNewline(text) |-> offset[v] + i]

Stop(v, reason) == stopped' = [stopped EXCEPT ![v] = reason]
Settle(v) ==
    /\ pc' = [pc EXCEPT ![v] = "idle"]
    /\ seen' = [seen EXCEPT ![v] = "running"]
    /\ size' = [size EXCEPT ![v] = 0]

\* Variant: a page that learns the final status stops before it renders.
AnswerStopsFirst(v, read, text, total) ==
    /\ Settle(v)
    /\ failures' = [failures EXCEPT ![v] = 0]
    /\ IF total > HardCap \/ read \in Finished
       THEN /\ Stop(v, IF total > HardCap THEN "too_large" ELSE "finished")
            /\ UNCHANGED <<offset, shown>>
       ELSE /\ offset' = [offset EXCEPT ![v] = NextCursor(@, text, total)]
            /\ shown' = [shown EXCEPT ![v] = Rendered(v, text)]
            /\ UNCHANGED stopped

Answer(v, read, text, total) ==
    /\ Settle(v)
    /\ failures' = [failures EXCEPT ![v] = 0]
    /\ IF total > HardCap
       THEN Stop(v, "too_large") /\ UNCHANGED <<offset, shown>>
       ELSE /\ offset' = [offset EXCEPT ![v] = NextCursor(@, text, total)]
            /\ shown' = [shown EXCEPT ![v] = Rendered(v, text)]
            /\ IF read \in Finished THEN Stop(v, "finished") ELSE UNCHANGED stopped

---------------------------------------------------------------------------
(* A request: the status first, then the log.                              *)

Polling(v) == stopped[v] = "no" /\ pc[v] = "idle"

\* Variant: the page asks for a run that is not over, only.
ReadStatusWhileRunning(v) ==
    /\ Polling(v) /\ offset[v] >= 0 /\ ~cache.on
    /\ status = "running"
    /\ seen' = [seen EXCEPT ![v] = status]
    /\ pc' = [pc EXCEPT ![v] = IF source = "ssh" THEN "stat" ELSE "trace"]
    /\ UNCHANGED <<runVars, cache, size, offset, failures, shown, stopped>>

\* get_command_trace loads the record; get_job_trace_range finds no cached
\* trace and asks for the job.
ReadStatus(v) ==
    /\ Polling(v) /\ offset[v] >= 0 /\ ~cache.on
    /\ seen' = [seen EXCEPT ![v] = status]
    /\ pc' = [pc EXCEPT ![v] = IF source = "ssh" THEN "stat" ELSE "trace"]
    /\ UNCHANGED <<runVars, cache, size, offset, failures, shown, stopped>>

\* stat. While nothing is written the file may or may not exist; above the
\* hard cap the tail is not read.
StatSize(v) ==
    /\ pc[v] = "stat"
    /\ \/ /\ log = <<>> \/ Len(log) > HardCap
          /\ Answer(v, seen[v], <<>>, Len(log))
       \/ /\ Len(log) <= HardCap
          /\ size' = [size EXCEPT ![v] = Len(log)]
          /\ pc' = [pc EXCEPT ![v] = "tail"]
          /\ UNCHANGED <<seen, offset, failures, shown, stopped>>
    /\ UNCHANGED <<runVars, cache>>

\* tail, over the same connection but later: the text may be longer than
\* the size allows for.
ReadTail(v) ==
    /\ pc[v] = "tail"
    /\ Answer(v, seen[v], From(log, offset[v] + 1), size[v])
    /\ UNCHANGED <<runVars, cache>>

\* Variant: the trace is cached whatever the job's status was.
FetchTraceCachesAny(v) ==
    /\ pc[v] = "trace"
    /\ Answer(v, seen[v], From(log, offset[v] + 1), Len(log))
    /\ \/ cache' = cache
       \/ log # <<>> /\ cache' = [on |-> TRUE, log |-> log]
    /\ UNCHANGED runVars

\* The whole trace in one response; kept if the job had ended before and
\* the cache takes it.
FetchTrace(v) ==
    /\ pc[v] = "trace"
    /\ Answer(v, seen[v], From(log, offset[v] + 1), Len(log))
    /\ \/ cache' = cache
       \/ /\ seen[v] \in Finished /\ log # <<>>
          /\ cache' = [on |-> TRUE, log |-> log]
    /\ UNCHANGED runVars

\* The fast path: status and trace of a finished job.
ReadCache(v) ==
    /\ Polling(v) /\ offset[v] >= 0 /\ cache.on
    /\ Answer(v, "done", From(cache.log, offset[v] + 1), Len(cache.log))
    /\ UNCHANGED <<runVars, cache>>

CacheExpires ==
    /\ cache.on /\ cache' = NoCache
    /\ UNCHANGED <<runVars, viewerVars>>

\* Variant: the count is compared before it is raised.
FailedComparesFirst(v) ==
    /\ Settle(v)
    /\ failures' = [failures EXCEPT ![v] = @ + 1]
    /\ IF failures[v] = MaxFailures THEN Stop(v, "poll_failed") ELSE UNCHANGED stopped
    /\ UNCHANGED <<runVars, cache, offset, shown>>

\* MaxFailures requests in a row that end in an error end the polling.
Failed(v) ==
    /\ Settle(v)
    /\ failures' = [failures EXCEPT ![v] = @ + 1]
    /\ IF failures'[v] = MaxFailures THEN Stop(v, "poll_failed") ELSE UNCHANGED stopped
    /\ UNCHANGED <<runVars, cache, offset, shown>>

\* The endpoint refuses a negative byte_offset.
PollRejected(v) == Polling(v) /\ offset[v] < 0 /\ Failed(v)

\* SSH, Redis, GitLab or the network failed.
PollFails(v) == stopped[v] = "no" /\ "poll" \in Faults /\ Failed(v)

\* 401 or 403: the page goes to the login form.
SessionEnds(v) ==
    /\ "session" \in Faults /\ Polling(v)
    /\ Stop(v, "login")
    /\ UNCHANGED <<runVars, cache, pc, seen, size, offset, failures, shown>>

\* A page that has stopped is opened again, from the start.
Reopen(v) ==
    /\ stopped[v] # "no"
    /\ Stop(v, "no")
    /\ offset' = [offset EXCEPT ![v] = 0]
    /\ failures' = [failures EXCEPT ![v] = 0]
    /\ shown' = [shown EXCEPT ![v] = <<>>]
    /\ UNCHANGED <<runVars, cache, pc, seen, size>>

ViewerStep(v) ==
    \/ ReadStatus(v) \/ StatSize(v) \/ ReadTail(v) \/ FetchTrace(v) \/ ReadCache(v)
    \/ PollRejected(v)

Next ==
    \/ Write \/ WriterEnds \/ StatusTerminal \/ CacheExpires
    \/ \E v \in Viewers : ViewerStep(v) \/ PollFails(v) \/ SessionEnds(v) \/ Reopen(v)

Spec == Init /\ [][Next]_vars

\* Pages poll, and their requests are answered. The run need not end.
FairSpec == Spec /\ \A v \in Viewers : WF_vars(ViewerStep(v))

---------------------------------------------------------------------------
(* Properties that hold. Plain: no wide character, which the arithmetic    *)
(* miscounts (CursorAtLineStart).                                          *)

Plain == \A i \in DOMAIN log : log[i] \in {"a", "nl"}
Shown(v) == {shown[v][i] : i \in DOMAIN shown[v]}

\* A cursor never passes a byte that has not been rendered, whatever the log
\* does between the two reads of an answer.
NothingSkipped == Plain => \A v \in Viewers : 1..offset[v] \subseteq Shown(v)

\* Job traces, which are read in one piece: the page shows each byte up to
\* its cursor exactly once, in order, and whole lines only.
TraceShownExactly ==
    source = "gitlab" /\ Plain =>
        \A v \in Viewers :
            /\ shown[v] = [i \in 1..offset[v] |-> i]
            /\ offset[v] # 0 => log[offset[v]] = "nl"

\* A page that stops because the run is over has rendered every complete
\* line: the status is read before the log.
FinishedShowsAll ==
    Plain /\ status = "done" =>
        \A v \in Viewers :
            stopped[v] = "finished" => 1..LastNewline(log) \subseteq Shown(v)

\* "The trace is immutable from this point on": a cached trace is the final
\* one.
CacheIsFinal == cache.on => ended /\ cache.log = log

\* Every complete line is rendered in the end, or the page has told why not.
EveryLineShown ==
    \A v \in Viewers : \A n \in 1..MaxLog :
        Plain /\ n <= LastNewline(log) ~> n \in Shown(v) \/ stopped[v] # "no"

---------------------------------------------------------------------------
(* A claim of the documentation that the code does not keep.               *)

\* The cursor only moves up to the last newline, so that no half line is
\* shown and the next poll completes it (docs/arch/ansible-runner.md, 3.2).
CursorAtLineStart ==
    \A v \in Viewers :
        offset[v] # 0 => offset[v] \in DOMAIN log /\ log[offset[v]] = "nl"

=============================================================================
