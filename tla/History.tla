------------------------------- MODULE History -------------------------------
(***************************************************************************)
(* The cluster history archive of one node (bk/cluster_history.py): `bk    *)
(* admin cluster history export` freezes complete UTC days of the node's   *)
(* public usage in immutable generations, which usage queries of the whole *)
(* cluster read without a lock.                                            *)
(*                                                                         *)
(* An export chooses its window before it takes the namespace lock, writes *)
(* two payloads a day into a temporary directory, and renames it.  Exports *)
(* run concurrently, by root and by the telemetry owner; each can fail or  *)
(* be killed at every step.                                                *)
(***************************************************************************)
EXTENDS Integers, Sequences, FiniteSets

CONSTANTS
    Exporters,      \* export commands
    Superusers,     \* those of them that root runs
    LastDay,        \* days 0 .. LastDay - 1 are complete
    Since,          \* windows of --since, in days
    Resolution,     \* labels of --resolution
    BatchDays,      \* days that one query asks for (30)
    MaxRecords,     \* records that a query may return
    Load,           \* records per day and resolution
    MaxGenerations, \* MAX_HISTORY_GENERATIONS
    MaxExports, MaxMishaps      \* bounds

ASSUME HistoryAssumption == LastDay \in Nat /\ BatchDays \in Nat \ {0} /\ Since \subseteq Nat

VARIABLES
    archive,        \* published generations
    leftovers,      \* accounts with a temporary directory that no export writes to
    exporter,       \* each command
    exports, mishaps

historyVars == <<archive, leftovers, exporter, exports, mishaps>>

Kinds == {"usage-users", "usage-samples"}
NoExport == [at |-> "idle", start |-> 0, end |-> 0, label |-> "none", pending |-> <<>>,
             batch |-> <<0, 0>>, files |-> {}, manifest |-> FALSE]

HistoryInit ==
    /\ archive = {} /\ leftovers = {}
    /\ exporter = [x \in Exporters |-> NoExport]
    /\ exports = 0 /\ mishaps = 0

Holds(x) == exporter[x].at \in {"query", "write", "manifest", "rename", "sync"}

-----------------------------------------------------------------------------
(* Reading the archive.                                                    *)

\* _validate_chunk_coverage, over daily chunks: both payloads of every day, no other.
CoversRange(g) == g.files = (g.start .. g.end - 1) \X Kinds

\* _read_manifest: the range is not empty and every payload is listed and present.
ValidManifest(g) == g.start < g.end /\ g.manifest /\ CoversRange(g)

\* _generation_name.
SameName(g, h) == g.start = h.start /\ g.end = h.end /\ g.label = h.label

\* latest_history_end; -1 for an empty namespace.
LatestEnd ==
    CHOOSE e \in {-1} \cup {g.end : g \in archive} : \A g \in archive : g.end <= e

\* A fault: only the first day is looked up.
OverlapsAtStart(g, h) == g.start <= h.start /\ h.start < g.end

\* The test of an export against each existing generation.
Overlaps(g, h) == h.start < g.end /\ g.start < h.end

\* _validate_non_overlapping.
NonOverlapping(S) == \A g \in S : \A h \in S \ {g} : g.start <= h.start => g.end <= h.start

\* _generation_manifests refuses a namespace with more generations than that.
Crowded(S) == Cardinality(S) > MaxGenerations

\* verify_cluster_history and load_archived_user_usage refuse nothing else about the
\* generations S.
Answered(S) == (\A g \in S : ValidManifest(g)) /\ NonOverlapping(S)

-----------------------------------------------------------------------------
(* An export.                                                              *)

\* resolve_history_window: an incremental export continues where the newest generation
\* ends; one with --start may ask for any days.
Resolve(x) ==
    /\ exporter[x].at = "idle" /\ exports < MaxExports
    /\ exports' = exports + 1
    /\ \E label \in Resolution, end \in 1 .. LastDay :
       \E start \in {IF LatestEnd >= 0 THEN LatestEnd ELSE end - n : n \in Since}
                        \cup (0 .. LastDay - 1) :
          /\ 0 <= start
          /\ IF end <= start THEN UNCHANGED exporter     \* up to date, or refused
             ELSE exporter' = [exporter EXCEPT ![x] =
                     [NoExport EXCEPT !.at = "lock", !.start = start, !.end = end,
                                      !.label = label]]
    /\ UNCHANGED <<archive, leftovers, mishaps>>

\* The batches of _query_sample_batches before any of them is split.
Batches(start, end) ==
    [i \in 1 .. (end - start + BatchDays - 1) \div BatchDays |->
        <<start + (i - 1) * BatchDays, IF start + i * BatchDays < end THEN start + i * BatchDays ELSE end>>]

Account(x) == IF x \in Superusers THEN "root" ELSE "owner"

\* _remove_temporary_generation: root removes its own and the owner's directories, the
\* owner only its own.
Clears(x) == IF x \in Superusers THEN {"root", "owner"} ELSE {"owner"}

\* _namespace_lock, _cleanup_stale_temporary_generations, and the checks against what is
\* there: a directory that may not be removed refuses the export, and so do a crowded
\* archive and an overlapping generation; the same generation is left as it is.
LockNamespace(x) ==
    LET me == exporter[x]
        cleared == leftovers \subseteq Clears(x)
    IN  /\ me.at = "lock" /\ \A y \in Exporters : ~Holds(y)
        /\ leftovers' \in IF cleared THEN {{}} ELSE {leftovers, leftovers \ Clears(x)}
        /\ exporter' = [exporter EXCEPT ![x] =
              IF ~cleared \/ Crowded(archive)
                 \/ \E g \in archive : SameName(g, me) \/ Overlaps(g, me) THEN NoExport
              ELSE [me EXCEPT !.at = "query", !.pending = Batches(me.start, me.end)]]
        /\ UNCHANGED <<archive, exports, mishaps>>

LockTimesOut(x) ==
    /\ exporter[x].at = "lock" /\ \E y \in Exporters : Holds(y)
    /\ exporter' = [exporter EXCEPT ![x] = NoExport]
    /\ UNCHANGED <<archive, leftovers, exports, mishaps>>

\* One query of _query_sample_batches: a truncated answer splits the batch in two, and
\* refuses the export when it was for a single day.
QueryBatch(x) ==
    LET me == exporter[x]
        b == Head(me.pending)
        days == b[2] - b[1]
        split == b[1] + days \div 2
    IN  /\ me.at = "query"
        /\ exporter' = [exporter EXCEPT ![x] =
              IF me.pending = <<>> THEN [me EXCEPT !.at = "manifest"]
              ELSE IF days * Load[me.label] <= MaxRecords
              THEN [me EXCEPT !.at = "write", !.batch = b, !.pending = Tail(@)]
              ELSE IF days <= 1 THEN NoExport
              ELSE [me EXCEPT !.pending = <<<<b[1], split>>, <<split, b[2]>>>> \o Tail(@)]]
        /\ UNCHANGED <<archive, leftovers, exports, mishaps>>

\* The two payloads of the batch's next day.
WriteDay(x) ==
    LET me == exporter[x]
        d == me.batch[1]
    IN  /\ me.at = "write"
        /\ exporter' = [exporter EXCEPT ![x] =
              IF d = me.batch[2] THEN [me EXCEPT !.at = "query"]
              ELSE IF <<d, "usage-users">> \in me.files
              THEN [me EXCEPT !.files = @ \cup {<<d, "usage-samples">>}, !.batch[1] = d + 1]
              ELSE [me EXCEPT !.files = @ \cup {<<d, "usage-users">>}]]
        /\ UNCHANGED <<archive, leftovers, exports, mishaps>>

WriteManifest(x) ==
    /\ exporter[x].at = "manifest"
    /\ exporter' = [exporter EXCEPT ![x].manifest = TRUE, ![x].at = "rename"]
    /\ UNCHANGED <<archive, leftovers, exports, mishaps>>

Generation(me) ==
    [start |-> me.start, end |-> me.end, label |-> me.label, files |-> me.files,
     manifest |-> me.manifest]

\* The rename that publishes it.
Publish(x) ==
    /\ exporter[x].at = "rename"
    /\ archive' = archive \cup {Generation(exporter[x])}
    /\ exporter' = [exporter EXCEPT ![x].at = "sync"]
    /\ UNCHANGED <<leftovers, exports, mishaps>>

SyncNamespace(x) ==
    /\ exporter[x].at = "sync"
    /\ exporter' = [exporter EXCEPT ![x] = NoExport]
    /\ UNCHANGED <<archive, leftovers, exports, mishaps>>

\* A step fails: the temporary directory is removed, or cannot be; after the rename there
\* is nothing to remove and the generation stays.
ExportFails(x) ==
    /\ Holds(x) /\ mishaps < MaxMishaps
    /\ mishaps' = mishaps + 1
    /\ leftovers' \in IF exporter[x].at = "sync" THEN {leftovers}
                  ELSE {leftovers, leftovers \cup {Account(x)}}
    /\ exporter' = [exporter EXCEPT ![x] = NoExport]
    /\ UNCHANGED <<archive, exports>>

\* The command is killed; the kernel drops its lock.
ExportKilled(x) ==
    /\ exporter[x].at # "idle" /\ mishaps < MaxMishaps
    /\ mishaps' = mishaps + 1
    /\ leftovers' = IF Holds(x) /\ exporter[x].at # "sync" THEN leftovers \cup {Account(x)}
                    ELSE leftovers
    /\ exporter' = [exporter EXCEPT ![x] = NoExport]
    /\ UNCHANGED <<archive, exports>>

HistoryNext ==
    \E x \in Exporters :
        \/ Resolve(x) \/ LockNamespace(x) \/ LockTimesOut(x) \/ QueryBatch(x) \/ WriteDay(x)
        \/ WriteManifest(x) \/ Publish(x) \/ SyncNamespace(x)
        \/ ExportFails(x) \/ ExportKilled(x)

-----------------------------------------------------------------------------
\* Whatever exports ran, failed or were killed, a usage query over the archive is answered
\* and counts no day twice: every published generation has both payloads of each of its
\* days, and no two of them overlap.  (Exempt is an archive with more generations than the
\* reader accepts, which the export that goes past the limit does not notice.)
HistoryAnswered == Crowded(archive) \/ Answered(archive)
=============================================================================
