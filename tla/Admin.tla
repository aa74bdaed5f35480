------------------------------- MODULE Admin -------------------------------
(***************************************************************************)
(* `sudo bk admin`: the managed files of an installation (bk/admin.py,     *)
(* admin_services.py, admin_command.py, login_hook.py, admin_data.py).     *)
(*                                                                         *)
(* `disk` maps each managed path to what is there.  An operation inspects  *)
(* it and then performs a sequence of writes, each a function from the     *)
(* paths it replaces to their new content: _write_new_file, rename and     *)
(* unlink are atomic.  The process may be killed between any two writes; a *)
(* write may fail, before or after it took effect (the directory fsync     *)
(* comes last).  Some operations then undo what they did, some leave a     *)
(* journal or a phase in the manifest for a later run.  Administrators run *)
(* concurrently; so do the broker and the monitor, which systemd starts    *)
(* and stops together.                                                     *)
(***************************************************************************)
EXTENDS Integers, Sequences, FiniteSets, TLC

CONSTANTS
    Missing,
    Admins,         \* administrators at their shells
    Uid,            \* service accounts, positive numbers
    Policy,         \* scheduling policies; 0 is the one `init` writes
    Before,         \* unit files found at the first installation: Missing or Foreign
    Foreign,
    Operations,     \* operations that are tried
    MaxOps, MaxFaults, MaxWrites    \* bounds

Root == 0
Unit == {"broker.service", "monitor.service"}

VARIABLES
    disk,
    admin,          \* each administrator's command
    ops, failures,
    found,          \* history: what was there before the first installation
    latest,         \* history: the ledger's last content, 0 before the first
    purged          \* history: an uninstall --purge-data was confirmed since

adminVars == <<disk, admin, ops, failures, found, latest, purged>>

AtShell == [op |-> "none", at |-> "idle", arg |-> Missing, config |-> Missing, manifest |-> Missing,
            guard |-> FALSE, restart |-> FALSE, announce |-> FALSE, todo |-> <<>>, done |-> 0,
            errors |-> FALSE]

NoFile ==
    [config |-> Missing, bak |-> Missing, catalog |-> Missing, confdir |-> Missing,
     manifest |-> Missing, update |-> Missing, transfer |-> Missing,
     sockdir |-> Missing, sock |-> Missing, link |-> Missing, hook |-> Missing,
     data |-> Missing, files |-> Missing, tree |-> Missing, retired |-> Missing,
     backups |-> {}, notice |-> Missing] @@ [u \in Unit |-> Before]

\* A server that never had an installation, and one that has the configuration of an older
\* one, with empty directories.
AdminInit ==
    /\ found \in {NoFile, [NoFile EXCEPT !.config = [uid |-> Root, policy |-> 0],
                             !.confdir = TRUE, !.data = Root, !.tree = 0, !.sockdir = Root]}
    /\ disk = found
    /\ admin = [a \in Admins |-> AtShell]
    /\ ops = 0 /\ failures = 0 /\ latest = 0 /\ purged = FALSE

-----------------------------------------------------------------------------
(* Inspections.                                                            *)

\* _admin_service_blockers, _transfer_socket_state and _broker_socket_state: nobody
\* listens, and a stale socket belongs to one of the owners.
Stopped(owners) ==
    disk.sock # Missing => disk.sock.uid \in owners /\ ~disk.sock.live

\* _load_admin_services_manifest and _load_admin_transfer_plan.
Loaded ==
    /\ disk.update = Missing /\ disk.transfer = Missing
    /\ disk.manifest # Missing /\ disk.config # Missing
    /\ disk.manifest.sha = disk.config /\ disk.config.uid = disk.manifest.uid

\* A fault: all paths must have the same owner, as they do before a transfer.
OwnedByOne(owners) ==
    /\ disk.tree # Missing /\ disk.data \in owners /\ disk.sockdir = disk.data
    /\ disk.files \in {Missing, disk.data}

\* _validate_transfer_tree and _validate_transfer_directory.
Owned(owners) ==
    /\ disk.tree # Missing /\ disk.data \in owners
    /\ disk.files \in owners \cup {Missing}
    /\ disk.sockdir \in owners

\* inspect_system_service_files: a unit file is the managed one or the original.
UnitsKnown(uids) == \A u \in Unit : disk[u] \in uids \cup {Before}

\* _build_plan: the configuration that an init with the answers x writes.
PlannedConfig(x) == [uid |-> x.uid, policy |-> x.policy]

\* inspect_admin_init: a configuration that differs is replaced with --force only, and
\* never while the data directory holds something.
InitReady(x) ==
    LET empty == disk.tree \in {Missing, 0}
    IN  /\ disk.update = Missing /\ disk.transfer = Missing
        /\ disk.manifest # Missing => disk.manifest.uid = x.uid
        /\ disk.config \in {Missing, PlannedConfig(x)} \/ (x.force /\ empty)
        /\ empty \/ (disk.data = x.uid /\ disk.config # Missing)
        /\ disk.sock # Missing => disk.sock.uid = x.uid /\ disk.sockdir = x.uid

\* inspect_admin_system_services for an installation.
ServicesReady(running) ==
    /\ Loaded
    /\ disk.sock # Missing => disk.sock.uid = disk.manifest.uid /\ (disk.sock.live => running)
    /\ disk.manifest.services # Missing =>
           /\ disk.manifest.services.phase # "removing"
           /\ disk.manifest.services.uid = disk.manifest.uid
    /\ UnitsKnown({disk.manifest.uid})

\* inspect_admin_system_services for a removal.
RemovalReady ==
    /\ Loaded /\ disk.manifest.services # Missing
    /\ Stopped({disk.manifest.uid}) /\ UnitsKnown({disk.manifest.uid})

\* _run_admin_data up to the confirmation.
DataReady == Loaded /\ Owned({disk.manifest.uid}) /\ Stopped({Root, disk.manifest.uid})

\* inspect_admin_gpu_policy; an unchanged policy is not written.
PolicyReady(p) == DataReady /\ p # disk.config.policy

\* inspect_admin_transfer to account u.
TransferReady(u) ==
    /\ Loaded /\ Owned({disk.manifest.uid}) /\ Stopped({disk.manifest.uid})
    /\ u # disk.manifest.uid
    /\ disk.manifest.services # Missing =>
           /\ disk.manifest.services.phase = "installed"
           /\ \A s \in Unit : disk[s] = disk.manifest.uid

\* inspect_admin_gpu_policy_recovery.
PolicyRecoveryReady ==
    LET u == disk.update.manifest.uid
    IN  /\ disk.update # Missing
        /\ disk.tree # Missing /\ disk.data = u /\ disk.sockdir = u /\ Stopped({Root, u})

\* inspect_admin_transfer_recovery: either account may own any path.
TransferRecoveryReady ==
    LET uids == {disk.transfer.manifest.uid, disk.transfer.to}
    IN  disk.transfer # Missing /\ Owned(uids) /\ Stopped({Root} \cup uids) /\ UnitsKnown(uids)

\* inspect_admin_uninstall with --purge-data.
UninstallReady ==
    /\ disk.update = Missing /\ disk.transfer = Missing
    /\ disk.manifest # Missing /\ disk.manifest.services = Missing
    /\ disk.config \in {Missing, disk.manifest.sha, disk.manifest.prev, disk.manifest.before.config}
    /\ disk.tree # Missing => disk.data = disk.manifest.uid
    /\ Stopped({disk.manifest.uid})

\* The inspection that an operation starts with, for the argument x.
Ready(op, x) ==
    CASE op = "init"       -> InitReady(x)
      [] op = "install"    -> disk.manifest = Missing /\ InitReady(x)
      [] op = "reinstall"  -> ServicesReady(disk.manifest.services # Missing)
      [] op = "services"   -> ServicesReady(FALSE)
      [] op = "unservices" -> RemovalReady
      [] op = "policy"     -> PolicyReady(x)
      [] op \in {"blackout", "maintain"} -> disk.update = Missing /\ disk.config # Missing
      [] op = "transfer"   -> TransferReady(x)
      [] op = "unpolicy"   -> PolicyRecoveryReady
      [] op = "untransfer" -> TransferRecoveryReady
      [] op = "uninstall"  -> UninstallReady
      [] op = "cluster"    -> x = "write" \/ disk.catalog # Missing
      [] op = "login-hook" -> TRUE
      [] OTHER             -> DataReady

-----------------------------------------------------------------------------
(* The writes of each operation, in the order of the code.                 *)

Services(m, phase) == [m EXCEPT !.services = [phase |-> phase, uid |-> m.uid]]

\* The new manifest of _ensure_install_manifest: what is there is recorded first.
FirstManifest(x) ==
    [uid |-> x.uid, sha |-> PlannedConfig(x), prev |-> Missing, bak |-> FALSE,
     before |-> [config |-> disk.config, data |-> disk.data, sockdir |-> disk.sockdir,
                 confdir |-> disk.confdir],
     services |-> Missing, link |-> Missing]

\* _ensure_install_manifest.
EnsuredManifest(x) ==
    IF disk.manifest = Missing THEN FirstManifest(x)
    ELSE IF disk.manifest.sha # PlannedConfig(x)
    THEN [disk.manifest EXCEPT !.sha = PlannedConfig(x), !.prev = disk.manifest.sha]
    ELSE disk.manifest
EnsureManifest(x) ==
    (IF disk.confdir = Missing THEN <<[confdir |-> TRUE]>> ELSE <<>>)
    \o (IF disk.manifest = EnsuredManifest(x) THEN <<>> ELSE <<[manifest |-> EnsuredManifest(x)]>>)

\* _prepare_owned_directory for the data directory and the socket directory.
PrepareDirectories(u) ==
    (IF disk.tree = Missing THEN <<[tree |-> 0, files |-> Missing, data |-> Root]>> ELSE <<>>)
    \o <<[data |-> u]>>
    \o (IF disk.sockdir = Missing THEN <<[sockdir |-> Root]>> ELSE <<>>)
    \o <<[sockdir |-> u]>>

\* apply_admin_init makes one backup of a configuration that it replaces.
Saves(x) == disk.config \notin {Missing, PlannedConfig(x)} /\ ~EnsuredManifest(x).bak

\* The manifest when apply_admin_init is through.
InitManifest(x) ==
    LET m == [EnsuredManifest(x) EXCEPT !.bak = @ \/ Saves(x)]
    IN  IF disk.config = PlannedConfig(x) THEN m ELSE [m EXCEPT !.prev = Missing]

\* apply_admin_init: the manifest is first.
InitWrites(x) ==
    LET m == [EnsuredManifest(x) EXCEPT !.bak = @ \/ Saves(x)]
    IN  EnsureManifest(x) \o PrepareDirectories(x.uid)
        \o (IF Saves(x) THEN <<[manifest |-> m], [bak |-> disk.config]>> ELSE <<>>)
        \o (IF disk.config = PlannedConfig(x) THEN <<>> ELSE <<[config |-> PlannedConfig(x)]>>)
        \o (IF m = InitManifest(x) THEN <<>> ELSE <<[manifest |-> InitManifest(x)]>>)

\* apply_command_link_install.
LinkFile == [link |-> TRUE]

\* apply_admin_command_link_install.
LinkWrites(m) ==
    << [manifest |-> [m EXCEPT !.link = "installing"]], LinkFile,
       [manifest |-> [m EXCEPT !.link = "installed"]] >>

\* apply_system_services_install and apply_installed_system_services; the removal
\* restores what was there before, in reverse order.
UnitFiles(u) == << "broker.service" :> u, "monitor.service" :> u >>
UnitsRestored == << "monitor.service" :> Before, "broker.service" :> Before >>

\* apply_admin_system_services_install.
ServicesWrites(m) ==
    << [manifest |-> Services(m, "installing")] >> \o UnitFiles(m.uid)
    \o << [manifest |-> Services(m, "installed")] >>

\* apply_admin_system_services_uninstall.
UnservicesWrites(m) ==
    << [manifest |-> Services(m, "removing")] >> \o UnitsRestored
    \o << [manifest |-> [m EXCEPT !.services = Missing]] >>

\* _build_config_update_journal and _build_transfer_journal: what was there before.
UpdateJournal(c, m) == [config |-> c, manifest |-> m]
TransferJournal(c, m, u) == [config |-> c, manifest |-> m, to |-> u]

\* apply_admin_gpu_policy: journal, configuration, manifest, no journal.
PolicyWrites(c, m, p) ==
    LET d == [c EXCEPT !.policy = p]
    IN  << [update |-> UpdateJournal(c, m)],
           [config |-> d], [manifest |-> [m EXCEPT !.sha = d, !.prev = Missing]],
           [update |-> Missing] >>

\* A fault: only the configuration is restored.
RestoreConfig(j) == << [config |-> j.config] >>

\* _restore_config_update_snapshots.
RestorePair(j) == << [config |-> j.config], [manifest |-> j.manifest] >>

\* _retarget_managed_tree (deepest first), _retarget_transfer_path and
\* apply_installed_system_services.
Retarget(m, u) ==
    (IF disk.files = Missing THEN <<>> ELSE <<[files |-> u]>>)
    \o << [data |-> u], [sockdir |-> u] >>
    \o (IF m.services = Missing THEN <<>> ELSE UnitFiles(u))

\* retarget_system_services_document.
RetargetServices(m, u) ==
    IF m.services = Missing THEN Missing ELSE [m.services EXCEPT !.uid = u]

\* apply_admin_transfer from the payloads c and m that it read.
TransferWrites(c, m, u) ==
    LET d == [c EXCEPT !.uid = u]
    IN  << [transfer |-> TransferJournal(c, m, u)] >>
        \o Retarget(m, u)
        \o << [config |-> d],
              [manifest |-> [m EXCEPT !.uid = u, !.sha = d, !.prev = Missing,
                                      !.services = RetargetServices(m, u)]] >>

\* _rollback_admin_transfer.
RollbackWrites(j) == Retarget(j.manifest, j.manifest.uid) \o RestorePair(j)

\* create_data_backup: a backup is published by the rename of a verified copy.
Backup == << [backups |-> disk.backups \cup {disk.tree}] >>

\* _atomic_replace_tree: two renames and the removal of the retired tree.
Exchange(new) ==
    << [retired |-> disk.tree, tree |-> Missing, data |-> Missing],
       [tree |-> new, data |-> disk.data, files |-> IF new = 0 THEN Missing ELSE disk.data],
       [retired |-> Missing] >>

\* A fault: clear relies on the retired tree and makes no backup.
DataWritesUnsaved(op, x) ==
    CASE op = "backup"  -> Backup
      [] op = "clear"   -> Exchange(0)
      [] op = "restore" -> Exchange(x)

\* `bk admin data`: clear_data_directory and restore_data_backup.
DataWrites(op, x) ==
    CASE op = "backup"  -> Backup
      [] op = "clear"   -> Backup \o Exchange(0)
      [] op = "restore" -> Exchange(x)

\* apply_login_hook_install and apply_login_hook_uninstall.
LoginHook == [hook |-> TRUE]
NoLoginHook == [hook |-> Missing]

\* _purge_managed_data; the directory itself goes, or back to its former owner.
PurgeWrites(m) ==
    IF disk.tree = Missing THEN <<>>
    ELSE << [tree |-> 0, files |-> Missing],
            IF m.before.data = Missing THEN [tree |-> Missing, data |-> Missing]
            ELSE [data |-> m.before.data] >>

\* The parts of apply_admin_uninstall: what was installed, the configuration with its
\* backup, and the directories.
Dismantle(m) ==
    << NoLoginHook >>
    \o (IF m.link = Missing THEN <<>> ELSE << [link |-> Missing] >>)
    \o << [sock |-> Missing] >>
    \o PurgeWrites(m)
Unconfigure(m) ==
    (IF m.before.confdir = Missing THEN << [catalog |-> Missing] >> ELSE <<>>)
    \o << [config |-> m.before.config] >>
    \o (IF m.bak THEN << [bak |-> Missing] >> ELSE <<>>)
GiveBackDirectories(m) ==
    << [sockdir |-> m.before.sockdir], [confdir |-> m.before.confdir] >>

\* A fault: the manifest goes before what it describes.
UninstallManifestFirst(m) ==
    << [manifest |-> Missing] >> \o Dismantle(m) \o Unconfigure(m) \o GiveBackDirectories(m)

\* apply_admin_uninstall with --purge-data.
UninstallWrites(m) ==
    Dismantle(m) \o Unconfigure(m) \o << [manifest |-> Missing] >> \o GiveBackDirectories(m)

\* `bk admin cluster`: _confirm_and_write and _confirm_and_delete.
CatalogWrites(x) ==
    (IF x = "write" /\ disk.confdir = Missing THEN <<[confdir |-> TRUE]>> ELSE <<>>)
    \o << [catalog |-> IF x = "write" THEN TRUE ELSE Missing] >>

\* `systemctl stop` and `systemctl enable --now` of both units.
StopServices == [services |-> "stop"]
StartServices == [services |-> "start"]

\* _run_admin_install.
InstallWrites(x) ==
    LET m == InitManifest(x)
        l == [m EXCEPT !.link = "installed"]
    IN  InitWrites(x) \o LinkWrites(m) \o ServicesWrites(l) \o <<LoginHook, StartServices>>

\* _run_existing_admin_install.
ReinstallWrites(m) ==
    (IF m.services = Missing THEN <<>> ELSE <<StopServices>>)
    \o LinkWrites(m) \o ServicesWrites([m EXCEPT !.link = "installed"])
    \o <<LoginHook, StartServices>>

Release == [sock |-> Missing]

\* _ensure_install_manifest removes the directory it made when the manifest cannot be written.
DropConfdir == [drop |-> "confdir"]

\* `bk admin blackout add --announce` and _run_admin_maintain publish an announcement
\* through the broker at the end.
Announce(p) == [notice |-> p]
IsAnnounce(w) == DOMAIN w = {"notice"}

\* The finally clause of _run_admin_blackout.
Restart(m) == IF m.restart THEN <<StartServices>> ELSE <<>>

\* All that m's command is going to do once it has been let in.
Writes(m) ==
    CASE m.op = "init"       -> InitWrites(m.arg)
      [] m.op = "install"    -> InstallWrites(m.arg)
      [] m.op = "reinstall"  -> ReinstallWrites(disk.manifest)
      [] m.op = "services"   -> ServicesWrites(disk.manifest)
      [] m.op = "unservices" -> UnservicesWrites(disk.manifest)
      [] m.op = "uninstall"  -> UninstallWrites(disk.manifest)
      [] m.op = "cluster"    -> CatalogWrites(m.arg)
      [] m.op = "login-hook" -> << IF m.arg = "install" THEN LoginHook ELSE NoLoginHook >>
      [] m.op = "policy"     ->
           PolicyWrites(disk.config, disk.manifest, m.arg) \o <<Release>> \o Restart(m)
               \o (IF m.announce THEN <<Announce(m.arg)>> ELSE <<>>)
      [] m.op = "transfer"   ->
           TransferWrites(m.config, m.manifest, m.arg) \o <<Release, [transfer |-> Missing]>>
      [] m.op = "unpolicy"   -> RestorePair(disk.update) \o <<[update |-> Missing], Release>>
      [] m.op = "untransfer" ->
           RollbackWrites(disk.transfer) \o <<Release, [transfer |-> Missing]>>
      [] OTHER               -> DataWrites(m.op, m.arg) \o <<Release>>

\* What the exception handlers of m's command do.
UndoWrites(m) ==
    CASE m.op = "policy" /\ m.done \in {1, 2} ->
           RestorePair(m) \o <<[update |-> Missing], Release>> \o Restart(m)
      [] m.op = "transfer" /\ m.done > 0 /\ m.guard ->
           RollbackWrites(m) \o <<Release, [transfer |-> Missing]>>
      [] /\ m.op \in {"clear", "restore"} /\ Len(m.todo) \in {3, 4}
         /\ disk.retired # Missing /\ disk.tree \in {Missing, 0} ->
           << [tree |-> disk.retired, retired |-> Missing, data |-> m.manifest.uid,
               files |-> IF disk.retired = 0 THEN Missing ELSE m.manifest.uid], Release >>
      [] m.op \in {"init", "install"} /\ m.done = 1 /\ disk.manifest = Missing -> <<DropConfdir>>
      [] m.op = "reinstall" /\ m.manifest.services # Missing -> <<StartServices>>
      [] OTHER -> (IF m.guard THEN <<Release>> ELSE <<>>) \o
                  (IF Head(m.todo) = StartServices \/ IsAnnounce(Head(m.todo)) THEN <<>>
                   ELSE Restart(m))

-----------------------------------------------------------------------------
(* Commands.                                                               *)

\* load_config fails closed while a configuration update is pending; the broker checks
\* its own identity, the owners of its directories and a stale socket.
CanStart ==
    /\ disk.config # Missing /\ disk.update = Missing
    /\ \A u \in Unit : disk[u] = disk.config.uid
    /\ disk.tree # Missing /\ disk.data = disk.config.uid /\ disk.sockdir = disk.config.uid
    /\ disk.sock # Missing => disk.sock.uid = disk.config.uid

Running == disk.sock # Missing /\ disk.sock.live /\ disk.sock.uid # Root

Effect(w) ==
    CASE w = StopServices  -> IF Running THEN [disk EXCEPT !.sock = Missing] ELSE disk
      [] w = StartServices -> [disk EXCEPT !.sock = [uid |-> disk.config.uid, live |-> TRUE]]
      [] w = DropConfdir   -> IF disk.manifest = Missing THEN [disk EXCEPT !.confdir = Missing]
                              ELSE disk
      [] OTHER             -> w @@ disk

\* An inspection that raises ends the command, after the finally clause.
Refused(m) == IF m.restart THEN [m EXCEPT !.at = "undo", !.todo = Restart(m)] ELSE AtShell

Guarded == {"policy", "transfer", "unpolicy", "untransfer", "backup", "clear", "restore"}

Arguments(op) ==
    CASE op \in {"init", "install"} -> [uid : Uid, policy : Policy \cup {0}, force : BOOLEAN]
      [] op = "transfer"   -> Uid
      [] op = "cluster"    -> {"write", "delete"}
      [] op \in {"policy", "blackout", "maintain"} -> Policy
      [] op = "restore"    -> disk.backups
      [] op = "login-hook" -> {"install", "uninstall"}
      [] OTHER             -> {Missing}

\* The inspection that is shown, and the confirmation.
Begin(a) ==
    /\ admin[a] = AtShell /\ ops < MaxOps
    /\ \E op \in Operations : \E x \in Arguments(op) :
           /\ Ready(op, x)
           /\ admin' = [admin EXCEPT ![a] =
                 [AtShell EXCEPT !.op = op, !.at = "confirmed", !.arg = x,
                              !.config = disk.config, !.manifest = disk.manifest]]
    /\ ops' = ops + 1
    /\ UNCHANGED <<disk, failures, found, latest, purged>>

\* _run_admin_blackout: stop the services, then update the policy as gpu-policy does with
\* the windows computed before, and start them again whatever came of it.
Blackout(a) ==
    LET m == [admin[a] EXCEPT !.op = "policy", !.restart = TRUE,
                                !.announce = admin[a].op = "maintain"]
    IN  /\ admin[a].at = "confirmed" /\ admin[a].op \in {"blackout", "maintain"}
        /\ disk' = Effect(StopServices)
        /\ admin' = [admin EXCEPT ![a] = m]
        /\ UNCHANGED <<ops, failures, found, latest, purged>>

\* After the confirmation: init, uninstall, gpu-policy, transfer and the recoveries
\* inspect again; gpu-policy compares with what was reviewed, transfer reads what it
\* will write back; services and data rely on the first inspection.
Apply(a) ==
    LET m == admin[a]
        fresh == \/ m.op \in {"services", "unservices", "backup", "clear", "restore"}
                 \/ Ready(m.op, m.arg) /\ (m.op = "policy" /\ ~m.restart => disk.config = m.config)
    IN  /\ m.at = "confirmed" /\ m.op \notin {"blackout", "maintain"}
        /\ admin' = [admin EXCEPT ![a] =
              IF ~fresh THEN Refused(m)
              ELSE IF m.op \in Guarded
              THEN [m EXCEPT !.at = "guard", !.config = disk.config,
                             !.manifest = disk.manifest]
              ELSE [m EXCEPT !.at = "run", !.todo = Writes(m)]]
        /\ purged' = (purged \/ (fresh /\ m.op = "uninstall"))
        /\ UNCHANGED <<disk, ops, failures, found, latest>>

\* The owners that _admin_service_guard accepts for the socket directory, and for a
\* stale socket in it.
DirOwners(m) ==
    CASE m.op = "unpolicy"   -> {disk.update.manifest.uid}
      [] m.op = "untransfer" -> {disk.transfer.manifest.uid, disk.transfer.to}
      [] OTHER               -> {m.manifest.uid}
SocketOwners(m) == DirOwners(m) \cup (IF m.op \in {"policy", "transfer"} THEN {} ELSE {Root})

\* _admin_service_guard: a stale socket is replaced by one that root listens on and both
\* locks are taken.  gpu-policy then reads again what it reviewed.
Enter(a) ==
    LET m == admin[a]
        ok == /\ (m.op = "unpolicy" => disk.update # Missing)
              /\ (m.op = "untransfer" => disk.transfer # Missing)
              /\ disk.tree # Missing /\ disk.sockdir \in DirOwners(m)
              /\ Stopped(SocketOwners(m))
              /\ (m.op = "policy" =>
                      disk.config = m.config /\ disk.manifest.sha = disk.config)
              /\ (m.op = "transfer" => disk.transfer = Missing)
              /\ (m.op = "restore" => disk.tree = 0)
    IN  /\ m.at = "guard"
        /\ IF ok
           THEN /\ admin' = [admin EXCEPT ![a] =
                      [m EXCEPT !.at = IF m.op = "untransfer" THEN "undo" ELSE "run",
                                !.guard = TRUE, !.todo = Writes(m),
                                !.manifest = IF m.op = "policy" THEN disk.manifest ELSE @]]
                /\ disk' = [disk EXCEPT !.sock = [uid |-> Root, live |-> TRUE]]
           ELSE admin' = [admin EXCEPT ![a] = Refused(m)] /\ UNCHANGED disk
        /\ UNCHANGED <<ops, failures, found, latest, purged>>

\* The next write of a's command.
Step(a) ==
    LET m == admin[a]
        w == Head(m.todo)
        rest == [m EXCEPT !.todo = Tail(@), !.done = @ + 1, !.guard = @ /\ w # Release]
    IN  /\ m.at \in {"run", "undo"} /\ m.todo # <<>>
        /\ (w = StartServices => CanStart) /\ (IsAnnounce(w) => Running)
        /\ IF m.errors /\ w \in {[update |-> Missing], [transfer |-> Missing]}
           THEN UNCHANGED disk                   \* the journal stays for --recover
           ELSE disk' = Effect(w)
        /\ admin' = [admin EXCEPT ![a] = IF rest.todo = <<>> THEN AtShell ELSE rest]
        /\ UNCHANGED <<ops, failures, found, latest, purged>>

\* The tree and the two unit files are each handled in one try statement.
AfterFailure(s) ==
    IF DOMAIN Head(s) \in {{"files"}, {"broker.service"}} THEN Tail(Tail(s)) ELSE Tail(s)

\* The next write fails, before or after it took effect; a start that is refused fails,
\* and so does an announcement without a broker.
Fail(a) ==
    LET m == admin[a]
        w == Head(m.todo)
        undo == UndoWrites(m)
        next == IF m.at = "run"
                THEN [m EXCEPT !.at = "undo", !.todo = undo, !.done = 0]
                ELSE [m EXCEPT !.todo = AfterFailure(@), !.errors = TRUE]
    IN  /\ m.at \in {"run", "undo"} /\ m.todo # <<>> /\ w # Release
        /\ IF (w = StartServices /\ ~CanStart) \/ (IsAnnounce(w) /\ ~Running) THEN UNCHANGED failures
           ELSE failures < MaxFaults /\ failures' = failures + 1
        /\ disk' \in {disk, IF w \in {StartServices, StopServices} THEN disk ELSE Effect(w)}
        /\ admin' = [admin EXCEPT ![a] = IF next.todo = <<>> THEN AtShell ELSE next]
        /\ UNCHANGED <<ops, found, latest, purged>>

\* kill -9: the kernel drops the locks, the socket stays in the directory.
Kill(a) ==
    /\ admin[a].at \in {"run", "undo"} /\ failures < MaxFaults
    /\ admin' = [admin EXCEPT ![a] = AtShell]
    /\ disk' = IF admin[a].guard THEN [disk EXCEPT !.sock.live = FALSE] ELSE disk
    /\ failures' = failures + 1
    /\ UNCHANGED <<ops, found, latest, purged>>

-----------------------------------------------------------------------------
(* systemd and the broker.                                                 *)

ServicesStart ==
    /\ CanStart /\ ~Running
    /\ disk' = Effect(StartServices)
    /\ UNCHANGED <<admin, ops, failures, found, latest, purged>>

ServicesStop ==
    /\ Running
    /\ disk' \in {Effect(StopServices), [disk EXCEPT !.sock.live = FALSE]}
    /\ UNCHANGED <<admin, ops, failures, found, latest, purged>>

\* A booking: new content, owned by the broker's account.
BrokerWrites ==
    /\ Running /\ latest < MaxWrites
    /\ latest' = latest + 1 /\ purged' = FALSE
    /\ disk' = [disk EXCEPT !.tree = latest', !.files = disk.sock.uid]
    /\ UNCHANGED <<admin, ops, failures, found>>

AdminNext ==
    \/ \E a \in Admins : \/ Begin(a) \/ Blackout(a) \/ Apply(a) \/ Enter(a)
                         \/ Step(a) \/ Fail(a) \/ Kill(a)
    \/ ServicesStart \/ ServicesStop \/ BrokerWrites

-----------------------------------------------------------------------------
Settled == \A a \in Admins : admin[a] = AtShell

\* Once every command has ended, however it ended, and no journal is left, the
\* configuration is the one the manifest records, and the accounts in both, the owners
\* of the managed paths and the installed unit files agree: a transfer or a policy update
\* happens completely or not at all.  It differs from the record only where the manifest says
\* so: an init --force that did not come to replace it keeps its digest as the previous one,
\* and an init or uninstall that was cut short left the one found by the first init.  A data
\* directory is root's only between such an init or uninstall and its repetition.
AllOrNothing ==
    Settled /\ disk.update = Missing /\ disk.transfer = Missing
    /\ disk.manifest # Missing /\ disk.config # Missing =>
        \/ disk.config # disk.manifest.sha
           /\ (disk.manifest.prev # Missing \/ disk.config = disk.manifest.before.config)
        \/ /\ disk.manifest.sha = disk.config /\ disk.config.uid = disk.manifest.uid
           /\ disk.tree # Missing => disk.data \in {Root, disk.manifest.uid}
           /\ disk.files \in {Missing, disk.manifest.uid} /\ disk.sockdir = disk.manifest.uid
           /\ disk.manifest.services # Missing /\ disk.manifest.services.phase = "installed" =>
                  /\ disk.manifest.services.uid = disk.manifest.uid
                  /\ \A u \in Unit : disk[u] = disk.manifest.uid

\* What an installation has put on the disk is recorded in a manifest for as long as it is
\* there, whatever is interrupted: without a manifest everything is again as it was found,
\* and a link, a unit file or a backup is there only when the manifest lists it.  Not
\* covered: the socket and configuration directories, which uninstall gives back after the
\* manifest is gone (and init makes the latter before there is one), so that a kill leaves
\* them behind, empty; the tree that a killed clear or restore has retired, in whose absence
\* uninstall gives no data directory back; and the login hook and the catalog, which have
\* commands of their own.
NothingUntracked ==
    /\ disk.manifest = Missing =>
           /\ \A p \in {"config", "bak", "sock", "link"} \cup Unit : disk[p] = found[p]
           /\ \A p \in {"data", "files", "tree"} : disk[p] \in {Missing, found[p]}
    /\ disk.link # Missing => disk.manifest.link # Missing
    /\ disk.bak # Missing => disk.manifest.bak
    /\ (\E u \in Unit : disk[u] # Before) => disk.manifest.services # Missing

\* A journal that an interruption left is one that its --recover command accepts as soon
\* as the services are stopped.
RecoveryOpen ==
    Settled /\ ~Running =>
        /\ disk.update # Missing => PolicyRecoveryReady
        /\ disk.transfer # Missing => TransferRecoveryReady

\* Until an uninstall purges it, the last ledger is in the data directory, in the retired
\* tree or in a backup, at every moment of a clear, a restore or a transfer.
LedgerSomewhere ==
    latest > 0 /\ ~purged => latest \in {disk.tree, disk.retired} \cup disk.backups
=============================================================================
