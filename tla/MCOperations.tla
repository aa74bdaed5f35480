---------------------------- MODULE MCOperations ----------------------------
(***************************************************************************)
(* The parts of a node that share no state with one another, side by side: *)
(* an initial state chooses the part, and only that part moves.            *)
(***************************************************************************)
EXTENDS Telemetry, Admin, History, JobLogs, WorkerLease, LaunchGuard,
        Editor, Commands

VARIABLE chosen

MCKeepDays == (0 :> 1 @@ 1 :> 1 @@ 2 :> 2)
MCLoad == ("10m" :> 2 @@ "1d" :> 1)
MCHome == [j \in Job |-> "d"]
MCServes == ("w1" :> "d1" @@ "w2" :> "d2")
MCAsksFor == ("q1" :> "d1" @@ "q2" :> "d1")

Wish(u, mode, memory, count, from, to) ==
    [uid |-> u, mode |-> mode, units |-> 1, memory |-> memory, count |-> count,
     from |-> from, to |-> to]

MCWishes ==
    {Wish(1, "shared", 2, 1, 0, 2), Wish(2, "shared", 0, 1, 0, 1),
     Wish(1, "exclusive", 2, 2, 1, 2)}

MCStrangers ==
    {[gpu |-> 0, uid |-> 0, container |-> TRUE, memory |-> 0, job |-> 0]} \cup
    {[gpu |-> 0, uid |-> 2, container |-> FALSE, memory |-> n, job |-> 0] : n \in {1, 2}}

Sampling(capability, driver) ==
    [capability |-> [g \in Devices |-> IF g = 0 THEN capability ELSE "nvml"],
     util |-> [g \in Devices |-> 0], driver |-> [g \in Devices |-> driver]]

MCSamplings ==
    {Sampling("none", 0), Sampling("anonymous", 0), Sampling("nvml", 0), Sampling("nvml", 1)}

Reserved(u, from, to, gpus, mode) ==
    [uid |-> u, from |-> from, to |-> to, gpus |-> gpus, mode |-> mode, live |-> TRUE, op |-> "none"]

MCLedgers ==
    {<<Reserved(1, 0, 4, {0}, "shared"), Reserved(1, 2, 4, {1}, "exclusive"),
       Reserved(2, 4, 6, {0, 1}, "exclusive")>>}

MCBookings == {Reserved(1, 0, 2, {1}, "shared"), Reserved(2, 6, 8, {0}, "shared")}

MCClosures == {<<8, 9>>}

Ask(count, length, want, mode, queue, gpus, avoid) ==
    [count |-> count, length |-> length, want |-> want, mode |-> mode, queue |-> queue,
     gpus |-> gpus, avoid |-> avoid]

MCAsks ==
    {Ask(1, 2, 0, "shared", TRUE, {}, {0}), Ask(1, 4, 2, "exclusive", FALSE, {}, {}),
     Ask(2, 2, 0, "exclusive", TRUE, {}, {}), Ask(1, 2, 2, "shared", FALSE, {0}, {})}

MCEdits ==
    {[length |-> 2], [from |-> 4], [mode |-> "exclusive", gpus |-> {1}],
     [from |-> 3, queue |-> TRUE], [count |-> 2], [avoid |-> {1}]}

Init ==
    /\ chosen \in {"telemetry", "admin", "history", "logs", "lease", "guard", "editor", "commands"}
    /\ TelemetryInit /\ AdminInit /\ HistoryInit /\ JobLogsInit /\ LeaseInit /\ GuardInit
    /\ EditorInit /\ CommandsInit
    /\ chosen # "admin" => found = NoFile
    /\ IF chosen \in {"editor", "commands"} THEN TimetableInit
       ELSE /\ moment = 0 /\ elsewhere = 0 /\ plan = <<>> /\ screen = NoClaim
            /\ deed = [claim |-> NoClaim, done |-> NoClaim]

Next ==
    /\ UNCHANGED chosen
    /\ \/ /\ chosen = "telemetry" /\ TelemetryNext
          /\ UNCHANGED <<adminVars, historyVars, logs, lease, guardVars, timetable, ui, call>>
       \/ /\ chosen = "admin" /\ AdminNext
          /\ UNCHANGED <<telemetry, historyVars, logs, lease, guardVars, timetable, ui, call>>
       \/ /\ chosen = "history" /\ HistoryNext
          /\ UNCHANGED <<telemetry, adminVars, logs, lease, guardVars, timetable, ui, call>>
       \/ /\ chosen = "logs" /\ JobLogsNext
          /\ UNCHANGED <<telemetry, adminVars, historyVars, lease, guardVars, timetable, ui, call>>
       \/ /\ chosen = "lease" /\ LeaseNext
          /\ UNCHANGED <<telemetry, adminVars, historyVars, logs, guardVars, timetable, ui, call>>
       \/ /\ chosen = "guard" /\ GuardNext
          /\ UNCHANGED <<telemetry, adminVars, historyVars, logs, lease, timetable, ui, call>>
       \/ /\ chosen = "editor" /\ EditorNext
          /\ UNCHANGED <<telemetry, adminVars, historyVars, logs, lease, guardVars, call>>
       \/ /\ chosen = "commands" /\ CommandsNext
          /\ UNCHANGED <<telemetry, adminVars, historyVars, logs, lease, guardVars, ui>>

vars == <<chosen, telemetry, adminVars, historyVars, logs, lease, guardVars, timetable, ui, call>>

Spec == Init /\ [][Next]_vars
=============================================================================
