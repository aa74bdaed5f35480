------------------------------- MODULE JobLogs -------------------------------
(***************************************************************************)
(* The private job logs of one account (bk/joblogs.py): the pump that      *)
(* drains a command into a rolling log of two segments, and the clean-up   *)
(* that applies retention and the quota, which the worker, `bk jobs        *)
(* --cleanup` and the MCP server run.                                      *)
(*                                                                         *)
(* Output is counted in chunks, numbered from 1 for each job; the header   *)
(* of a segment and a control event each count as one.  All data           *)
(* directories of an account share one log directory; a clean-up reads the *)
(* ledger of its own.                                                      *)
(***************************************************************************)
EXTENDS Integers, Sequences, FiniteSets

CONSTANTS
    Job,
    Home,           \* the data directory that each job is booked in
    Cleaners,       \* data directories whose clean-up is run
    Segment,        \* chunks per segment: job_log_max_mb / 2, without limit if 0
    Quota,          \* chunks in all: job_log_total_max_mb
    MaxChunks, MaxTries, MaxCleanups, MaxLogFaults      \* bounds

\* JobLogPump refuses a limit that does not leave room for the header and a chunk.
ASSUME JobLogsAssumption == Segment \in Nat \ {1}

VARIABLES
    job,            \* status of the job in its ledger
    ended,          \* jobs whose reservation has ended or was cancelled
    files,          \* the two segments of each log: [current, rotated], Absent if there is none
    aged,           \* logs not written to within job_log_retention_days
    pump,           \* the pump of each job
    cleaner,        \* the clean-up under way
    tries, cleanups, logFaults,
    written,        \* history: the last chunk of each job that was written
    begun,          \* history: new segments begun since then, counted up to 2
    unseen          \* history: jobs booked while a clean-up was under way

logs == <<job, ended, files, aged, pump, cleaner, tries, cleanups, logFaults, written, begun, unseen>>

Absent == <<-1>>
Control == 0            \* the header of a segment, or a control event
NoLog == [current |-> Absent, rotated |-> Absent]
NoPump == [at |-> "off", bytes |-> 0]
NoCleaner == [at |-> "off", home |-> "none", needed |-> {}, groups |-> {}]

JobLogsInit ==
    /\ job = [j \in Job |-> "absent"] /\ ended = {}
    /\ files = [j \in Job |-> NoLog] /\ aged = {}
    /\ pump = [j \in Job |-> NoPump]
    /\ cleaner = NoCleaner
    /\ tries = 0 /\ cleanups = 0 /\ logFaults = 0
    /\ written = [j \in Job |-> 0] /\ begun = [j \in Job |-> 0] /\ unseen = {}

Chunks == Cardinality({x \in Job \X (1 .. MaxChunks) : x[2] <= written[x[1]]})

Present(s) == s # Absent
Size(s) == IF Present(s) THEN Len(s) ELSE 0

Carries(seg, n) == Present(seg) /\ \E i \in DOMAIN seg : seg[i] = n

-----------------------------------------------------------------------------
(* Jobs, as the scheduler and the worker change them.                      *)

Book(j) ==
    /\ job[j] = "absent"
    /\ job' = [job EXCEPT ![j] = "pending"]
    /\ unseen' = IF cleaner.at = "off" THEN unseen ELSE unseen \cup {j}
    /\ UNCHANGED <<ended, files, aged, pump, cleaner, tries, cleanups, logFaults, written, begun>>

\* retry_job.
Retry(j) ==
    /\ job[j] \in {"failed", "interrupted"} /\ j \notin ended /\ pump[j] = NoPump
    /\ tries < MaxTries
    /\ tries' = tries + 1
    /\ job' = [job EXCEPT ![j] = "pending"]
    /\ UNCHANGED <<ended, files, aged, pump, cleaner, cleanups, logFaults, written, begun, unseen>>

\* The window ends or the owner cancels.
End(j) ==
    /\ job[j] # "absent" /\ j \notin ended
    /\ ended' = ended \cup {j}
    /\ job' = [job EXCEPT ![j] = IF @ = "pending" THEN "missed" ELSE @]
    /\ UNCHANGED <<files, aged, pump, cleaner, tries, cleanups, logFaults, written, begun, unseen>>

\* The retention period passes for the logs that nobody writes to.
Age ==
    /\ cleaner.at = "off"
    /\ aged' = {j \in Job : files[j] # NoLog /\ pump[j] = NoPump}
    /\ aged' # aged
    /\ UNCHANGED <<job, ended, files, pump, cleaner, tries, cleanups, logFaults, written, begun, unseen>>

-----------------------------------------------------------------------------
(* The pump: "unlink", "rename", "create" and "header" are the steps that  *)
(* begin a segment, and "write" the output that made a running command     *)
(* begin one.                                                              *)

Pumped(j, at, bytes, f) ==
    /\ pump' = [pump EXCEPT ![j] = [at |-> at, bytes |-> bytes]]
    /\ files' = [files EXCEPT ![j] = f]
    /\ UNCHANGED <<ended, cleaner, tries, cleanups, logFaults, unseen>>

Another(n) == IF n = 0 THEN 1 ELSE 2

\* _launch_job up to JobLogPump(): under a limit, a log that is not empty is rotated
\* first (_prepare_current_segment).
OpenPump(j) ==
    /\ job[j] = "pending" /\ pump[j] = NoPump
    /\ job' = [job EXCEPT ![j] = "claimed"]
    /\ Pumped(j, IF Segment # 0 /\ Size(files[j].current) > 0 THEN "unlink" ELSE "create",
              0, files[j])
    /\ begun' = [begun EXCEPT ![j] = Another(@)]
    /\ UNCHANGED <<aged, written>>

\* _rotate_file.
UnlinkRotated(j) ==
    /\ pump[j].at = "unlink"
    /\ Pumped(j, "rename", 0, [files[j] EXCEPT !.rotated = Absent])
    /\ UNCHANGED <<job, aged, written, begun>>

RenameCurrent(j) ==
    /\ pump[j].at = "rename"
    /\ Pumped(j, "create", 0, IF Present(files[j].current)
                              THEN [current |-> Absent, rotated |-> files[j].current]
                              ELSE files[j])
    /\ UNCHANGED <<job, aged, written, begun>>

\* _open_segment: the file is created, or opened at its end, and the header written.
CreateSegment(j) ==
    /\ pump[j].at = "create"
    /\ Pumped(j, "header", Size(files[j].current),
              IF Present(files[j].current) THEN files[j]
              ELSE [files[j] EXCEPT !.current = <<>>])
    /\ aged' = aged \ {j}
    /\ UNCHANGED <<job, written, begun>>

\* A segment that a clean-up has unlinked is still written to, for nobody.
Extended(j, n) ==
    IF Present(files[j].current)
    THEN [files[j] EXCEPT !.current = Append(@, n)] ELSE files[j]

WriteHeader(j) ==
    /\ pump[j].at = "header"
    /\ Pumped(j, IF job[j] = "running" THEN "write" ELSE "open", pump[j].bytes + 1,
              Extended(j, Control))
    /\ aged' = aged \ {j}
    /\ UNCHANGED <<job, written, begun>>

\* Popen and start: the command runs.
StartCommand(j) ==
    /\ pump[j].at = "open" /\ job[j] = "claimed"
    /\ job' = [job EXCEPT ![j] = "running"]
    /\ UNCHANGED <<ended, files, aged, pump, cleaner, tries, cleanups, logFaults, written, begun,
                   unseen>>

\* The claim is no longer active, or Popen fails: record_event and abort.
AbortLaunch(j) ==
    /\ pump[j].at = "open" /\ job[j] = "claimed"
    /\ pump' = [pump EXCEPT ![j] = NoPump]
    /\ files' = [files EXCEPT ![j] = Extended(j, Control)]
    /\ job' = [job EXCEPT ![j] = IF j \in ended THEN "missed" ELSE "failed"]
    /\ aged' = aged \ {j}
    /\ UNCHANGED <<ended, cleaner, tries, cleanups, logFaults, written, begun, unseen>>

\* _drain and _write_output: a chunk that does not fit begins a new segment first.
Output(j) ==
    LET n == pump[j].bytes + 1
    IN  /\ pump[j].at \in {"open", "write"} /\ job[j] = "running" /\ Chunks < MaxChunks
        /\ IF pump[j].at = "open" /\ Segment # 0 /\ n > Segment
           THEN /\ Pumped(j, "unlink", 0, files[j])
                /\ begun' = [begun EXCEPT ![j] = Another(@)]
                /\ UNCHANGED <<aged, written>>
           ELSE /\ Pumped(j, "open", n, Extended(j, written[j] + 1))
                /\ written' = [written EXCEPT ![j] = @ + 1]
                /\ begun' = [begun EXCEPT ![j] = 0]
                /\ aged' = aged \ {j}
        /\ UNCHANGED job

\* A step fails: before the command runs the launch fails; later the pump goes on
\* draining and drops what it reads.
PumpFails(j) ==
    /\ pump[j].at \in {"unlink", "rename", "create", "header", "open", "write"}
    /\ logFaults < MaxLogFaults
    /\ logFaults' = logFaults + 1
    /\ IF job[j] = "claimed"
       THEN pump' = [pump EXCEPT ![j] = NoPump] /\ job' = [job EXCEPT ![j] = "failed"]
       ELSE pump' = [pump EXCEPT ![j].at = "deaf"] /\ UNCHANGED job
    /\ UNCHANGED <<ended, files, aged, cleaner, tries, cleanups, written, begun, unseen>>

\* The command ends and the pump is joined (finish).
FinishPump(j) ==
    /\ pump[j].at \in {"open", "deaf"} /\ job[j] = "running"
    /\ pump' = [pump EXCEPT ![j] = NoPump]
    /\ \E status \in {"succeeded", "failed"} : job' = [job EXCEPT ![j] = status]
    /\ UNCHANGED <<ended, files, aged, cleaner, tries, cleanups, logFaults, written, begun, unseen>>

\* The worker is killed, and every pump with it; the next one finds the jobs interrupted.
WorkerKilled ==
    /\ \E j \in Job : pump[j] # NoPump
    /\ logFaults < MaxLogFaults
    /\ logFaults' = logFaults + 1
    /\ pump' = [j \in Job |-> NoPump]
    /\ job' = [j \in Job |-> IF job[j] \in {"claimed", "running"} THEN "interrupted" ELSE job[j]]
    /\ UNCHANGED <<ended, files, aged, cleaner, tries, cleanups, written, begun, unseen>>

-----------------------------------------------------------------------------
(* cleanup_job_logs.                                                       *)

\* A fault: only live jobs keep their logs.
NeededWhileLive(j) == job[j] \in {"pending", "claimed", "running"}

\* _job_log_is_needed.
Needed(j) ==
    \/ job[j] \in {"pending", "claimed", "running"}
    \/ job[j] \in {"failed", "interrupted"} /\ j \notin ended

\* The ledger is loaded, and _job_log_references derived from it.
LoadReferences(d) ==
    /\ cleaner.at = "off" /\ cleanups < MaxCleanups
    /\ cleanups' = cleanups + 1
    /\ cleaner' = [at |-> "scan", home |-> d, groups |-> {},
                   needed |-> {j \in Job : Home[j] = d /\ Needed(j)}]
    /\ UNCHANGED <<job, ended, files, aged, pump, tries, logFaults, written, begun, unseen>>

\* The directory is read, with the sizes and times of what is there.
ScanLogs ==
    /\ cleaner.at = "scan"
    /\ cleaner' = [cleaner EXCEPT !.at = "retention",
          !.groups = {[job |-> j, old |-> j \in aged,
                       size |-> Size(files[j].current) + Size(files[j].rotated)] :
                      j \in {i \in Job : files[i] # NoLog}}]
    /\ UNCHANGED <<job, ended, files, aged, pump, tries, cleanups, logFaults, written, begun, unseen>>

\* _remove_log_group: the group leaves the list, and its files the directory.
RemoveGroup(g) ==
    /\ cleaner' = [cleaner EXCEPT !.groups = @ \ {g}]
    /\ files' = [files EXCEPT ![g.job] = NoLog]
    /\ aged' = aged \ {g.job}

Removable == {g \in cleaner.groups : g.job \notin cleaner.needed}

\* Logs past retention.
Retention ==
    /\ cleaner.at = "retention"
    /\ IF \E g \in Removable : g.old
       THEN \E g \in Removable : g.old /\ RemoveGroup(g)
       ELSE cleaner' = [cleaner EXCEPT !.at = "quota"] /\ UNCHANGED <<files, aged>>
    /\ UNCHANGED <<job, ended, pump, tries, cleanups, logFaults, written, begun, unseen>>

Total(S) ==
    LET sum[T \in SUBSET S] ==
            IF T = {} THEN 0 ELSE LET g == CHOOSE x \in T : TRUE IN g.size + sum[T \ {g}]
    IN  sum[S]

\* Over the quota, logs that are not needed go; the code takes the oldest first, the
\* model any.
EnforceQuota ==
    /\ cleaner.at = "quota"
    /\ IF Total(cleaner.groups) > Quota /\ Removable # {}
       THEN \E g \in Removable : RemoveGroup(g)
       ELSE cleaner' = NoCleaner /\ UNCHANGED <<files, aged>>
    /\ UNCHANGED <<job, ended, pump, tries, cleanups, logFaults, written, begun, unseen>>

JobLogsNext ==
    \/ \E j \in Job : \/ Book(j) \/ Retry(j) \/ End(j) \/ OpenPump(j) \/ UnlinkRotated(j)
                      \/ RenameCurrent(j) \/ CreateSegment(j) \/ WriteHeader(j)
                      \/ StartCommand(j) \/ AbortLaunch(j) \/ Output(j) \/ PumpFails(j)
                      \/ FinishPump(j)
    \/ Age \/ WorkerKilled
    \/ (\E d \in Cleaners : LoadReferences(d)) \/ ScanLogs \/ Retention \/ EnforceQuota

-----------------------------------------------------------------------------
\* docs/GUIDE.md: output goes "through a two-segment rolling log", and "Active and
\* retryable jobs are retained."  As long as at most one segment has been begun since a
\* job wrote its newest output, by a retry or by output that no longer fitted, that output
\* is in one of the two segments, through failed and interrupted rotations, kills, failed
\* launches and clean-ups; without a limit it is there for good.  (A second segment takes
\* the place of the one with the output, even when nothing but headers was written since.
\* Exempt are jobs booked while a clean-up was under way.)
NewestOutputKept ==
    \A j \in Job \ unseen :
        Needed(j) /\ written[j] # 0 /\ (Segment = 0 \/ begun[j] <= 1)
            => Carries(files[j].rotated, written[j]) \/ Carries(files[j].current, written[j])
=============================================================================
