------------------------------- MODULE Broker -------------------------------
(***************************************************************************)
(* The write path of a node: bk/broker.py, with the submission side of     *)
(* bk/service.py, the private job specs of bk/worker.py and                *)
(* bk/announcements.py.                                                    *)
(*                                                                         *)
(* A command is a client process.  With the transport "broker" it reads    *)
(* ledger.json itself and sends every write over a Unix socket to the      *)
(* broker, which accepts connections into a bounded pool of handlers; with *)
(* "local" it runs the same transaction in its own process.  A transaction *)
(* is one step (the atomic ledger that LedgerStore implements), but it may *)
(* leave its journal pending, and then ledger.json, all that a read-only   *)
(* load sees, lags until the next transaction recovers it.                 *)
(*                                                                         *)
(* A client that gives up waiting does not withdraw its request: the frame *)
(* is in the socket, and the broker applies it later.                      *)
(***************************************************************************)
EXTENDS Integers, Sequences, FiniteSets

CONSTANTS
    Client, Uid,
    UidOf,           \* the user each client runs as
    Root,            \* uid 0
    Other,           \* a user who booked before, and runs no command here
    OpId, None,
    Transports,      \* values of storage_transport to consider
    MaxSlots,        \* BROKER_MAX_CLIENTS
    MaxBacklog,      \* listen(64)
    MaxTries,        \* BROKER_TRANSACTION_RETRIES
    MaxAnnouncements,   \* MAX_ANNOUNCEMENT_HISTORY
    MaxCalls,        \* bound: commands started
    MaxIncidents,    \* bound: broker kills and stops, client kills and pending journals
    MaxRes           \* bound: reservations

\* What the broker answers: whether the transaction was made, and what it returned.
Answer == [ok : BOOLEAN, out : Nat \cup {None, "committed", "not committed"}]

ASSUME BrokerAssumption ==
    /\ None \notin Answer
    /\ UidOf \in [Client -> Uid] /\ {Root, Other} \subseteq Uid /\ None \notin OpId
    /\ Transports \subseteq {"local", "broker"}
    /\ {MaxSlots, MaxBacklog, MaxTries} \subseteq Nat \ {0}
    /\ {MaxAnnouncements, MaxCalls, MaxIncidents, MaxRes} \subseteq Nat

VARIABLES
    transport,
    ledger,      \* the committed ledger: reservations and announcements
    file,        \* ledger.json
    specs,       \* private spec files: owner and id
    server,      \* "down", "up" or "closing"
    socket,      \* the socket path exists
    slots,       \* free handler slots
    backlog,     \* connections not yet accepted
    handling,    \* requests being handled, with their answer
    client,
    calls, incidents,
    applied,     \* history: what committed transactions did to reservations
    gaveUp       \* history: commits of others during transactions that were given up

vars == <<transport, ledger, file, specs, server, socket, slots, backlog, handling, client,
          calls, incidents, applied, gaveUp>>
storage == <<ledger, file, applied>>
broker == <<server, socket, slots, backlog, handling>>

\* pc: "call" (spec written, request not sent), "wait", "verify" and "drop"
\* (_cleanup_unreferenced_job_spec), "clean" and "sweep" (cleanup_job_specs).
\* n: the command, which also names its spec; tries and others: of a job transaction.
Idle == [pc |-> "idle", n |-> 0, kind |-> None, arg |-> None, tries |-> 0, others |-> 0,
         plan |-> {}]

Reservation(uid, op, n) ==
    [uid |-> uid, op |-> op, spec |-> n, status |-> "active", job |-> "pending", marks |-> {}]

Booked == [res |-> <<Reservation(Other, None, 0)>>, ann |-> <<>>]

Init ==
    /\ transport \in Transports
    /\ ledger = Booked /\ file = Booked /\ specs = {<<Other, 0>>}
    /\ server = "down" /\ socket = FALSE /\ slots = MaxSlots
    /\ backlog = <<>> /\ handling = {}
    /\ client = [c \in Client |-> Idle]
    /\ calls = 0 /\ incidents = 0
    /\ applied = {} /\ gaveUp = {}

Incident == incidents < MaxIncidents /\ incidents' = incidents + 1

-----------------------------------------------------------------------------
(* Transactions: [led, ok, out, did], where did says what they changed.    *)

Refused(led) == [led |-> led, ok |-> FALSE, out |-> None, did |-> {}]
Done(led, out, did) == [led |-> led, ok |-> TRUE, out |-> out, did |-> did]

Created(led, uid, op) ==
    {i \in DOMAIN led.res : led.res[i].uid = uid /\ led.res[i].op = op}

\* find_applied_create, for requests that differ in their operation id only.
Applied(led, uid, op) == op # None /\ Created(led, uid, op) # {}

AddBookingAgain(led, q) ==
    IF Len(led.res) = MaxRes THEN Refused(led)
    ELSE Done([led EXCEPT !.res = Append(@, Reservation(q.uid, q.arg, q.n))], q.n,
           {<<"add", Len(led.res) + 1, q.n>>})

\* add_booking: out is the spec of the reservation it returns.
AddBooking(led, q) ==
    LET new == Reservation(q.uid, q.arg, q.n)
        old == CHOOSE i \in Created(led, q.uid, q.arg) : TRUE
    IN  IF Applied(led, q.uid, q.arg) THEN Done(led, led.res[old].spec, {})
        ELSE IF Len(led.res) = MaxRes THEN Refused(led)
        ELSE Done([led EXCEPT !.res = Append(@, new)], q.n, {<<"add", Len(led.res) + 1, q.n>>})

\* cancel_booking, and cancel_booking_as_admin when Root asks.
CancelBooking(led, q) ==
    LET i == q.arg IN
    IF \/ i \notin DOMAIN led.res
       \/ led.res[i].status # "active"
       \/ led.res[i].uid # q.uid /\ q.uid # Root
    THEN Refused(led)
    ELSE Done([led EXCEPT !.res[i].status = "cancelled",
                          !.res[i].job = IF @ = "pending" THEN "cancelled" ELSE @],
              None, {<<"cancel", i, q.n>>})

\* edit_booking of one's own: the new terms are left out, and the edit leaves its entry in
\* the history of the reservation (_append_edit_history).  The timetable may refuse it too,
\* which is an exception like any other in Handle.
EditBooking(led, q) ==
    LET i == q.arg IN
    IF \/ i \notin DOMAIN led.res
       \/ led.res[i].status # "active"
       \/ led.res[i].uid # q.uid
    THEN Refused(led)
    ELSE Done([led EXCEPT !.res[i].marks = @ \cup {q.n}], None, {<<"mark", i, q.n>>})

\* publish_announcement, archive_announcement and edit_announcement.
Publish(led, q) ==
    IF q.uid # Root \/ Len(led.ann) >= MaxAnnouncements THEN Refused(led)
    ELSE Done([led EXCEPT !.ann = Append(@, [archived |-> FALSE, text |-> q.n])], None, {})

Archive(led, q) ==
    IF q.uid # Root \/ q.arg \notin DOMAIN led.ann THEN Refused(led)
    ELSE Done([led EXCEPT !.ann[q.arg].archived = TRUE], None, {})

EditArchived(led, q) ==
    IF \/ q.uid # Root \/ q.arg \notin DOMAIN led.ann
    THEN Refused(led)
    ELSE Done([led EXCEPT !.ann[q.arg].text = q.n], None, {})

EditAnnouncement(led, q) ==
    IF \/ q.uid # Root \/ q.arg \notin DOMAIN led.ann \/ led.ann[q.arg].archived
    THEN Refused(led)
    ELSE Done([led EXCEPT !.ann[q.arg].text = q.n], None, {})

\* _validate_own_job_mutation and _validate_owned_reservation_job_change.
ValidOwnMutation(current, proposed, uid) ==
    /\ proposed.ann = current.ann
    /\ Len(proposed.res) = Len(current.res)
    /\ \A i \in DOMAIN current.res :
          LET before == current.res[i]  after == proposed.res[i]
          IN  IF before.uid # uid THEN after = before
              ELSE /\ after.uid = before.uid /\ after.op = before.op
                   /\ after.spec = before.spec /\ after.status = before.status

JobPatchBlind(led, q) ==
    LET proposed == [led EXCEPT !.res = [i \in DOMAIN @ |->
                        IF i \in DOMAIN q.arg.changes THEN q.arg.changes[i] ELSE @[i]]]
    IN  IF ~ValidOwnMutation(led, proposed, q.uid) THEN Refused(led)
        ELSE Done(proposed, "committed", {<<"mark", i, q.n>> : i \in DOMAIN q.arg.changes})

\* _commit_own_job_patch, and _commit_own_job_transaction.  The digest stands for the
\* ledger it was taken of.
JobPatch(led, q) ==
    LET proposed == [led EXCEPT !.res = [i \in DOMAIN @ |->
                        IF i \in DOMAIN q.arg.changes THEN q.arg.changes[i] ELSE @[i]]]
    IN  IF led # q.arg.base THEN Done(led, "not committed", {})
        ELSE IF ~ValidOwnMutation(led, proposed, q.uid) THEN Refused(led)
        ELSE Done(proposed, "committed", {<<"mark", i, q.n>> : i \in DOMAIN q.arg.changes})

\* _dispatch.  A snapshot is a load(), which recovers a pending journal; a ping touches no
\* state and is left out.
Dispatch(led, q) ==
    CASE q.kind = "add"     -> AddBooking(led, q)
      [] q.kind = "cancel"  -> CancelBooking(led, q)
      [] q.kind = "change"  -> EditBooking(led, q)
      [] q.kind = "snapshot" -> Done(led, None, {})
      [] q.kind = "publish" -> Publish(led, q)
      [] q.kind = "archive" -> Archive(led, q)
      [] q.kind = "edit"    -> EditAnnouncement(led, q)
      [] q.kind = "patch"   -> JobPatch(led, q)

\* LedgerStore.transaction: recovery first, then the mutator; the write of ledger.json
\* may fail after the journal is durable, which is a success with a warning.
Transact(t) ==
    /\ ledger' = t.led
    /\ applied' = applied \cup t.did
    /\ \/ file' = t.led /\ UNCHANGED incidents
       \/ t.led # ledger /\ file' = ledger /\ Incident

\* Job transactions under way count the commits of others.
Overtaken(t, n) ==
    [c \in Client |-> IF t.led # ledger /\ client[c].kind = "patch" /\ client[c].n # n
                      THEN [client[c] EXCEPT !.others = IF @ < MaxTries THEN @ + 1 ELSE @]
                      ELSE client[c]]

-----------------------------------------------------------------------------
(* The broker.                                                             *)

\* _prepare: load() recovers a pending journal; a socket that refuses the probe is
\* unlinked; bind and listen.
Start ==
    /\ transport = "broker" /\ server = "down"
    /\ server' = "up" /\ socket' = TRUE
    /\ slots' = MaxSlots /\ backlog' = <<>> /\ handling' = {}
    /\ file' = ledger
    /\ UNCHANGED <<transport, ledger, specs, client, calls, incidents, applied, gaveUp>>

\* serve_forever: one accepted connection.
Accept ==
    /\ server = "up" /\ backlog # <<>>
    /\ backlog' = Tail(backlog)
    /\ IF slots = 0 THEN UNCHANGED <<slots, handling>>
       ELSE /\ slots' = slots - 1
            /\ handling' = handling \cup {[q |-> Head(backlog), answer |-> None]}
    /\ UNCHANGED <<transport, storage, specs, server, socket, client, calls, incidents, gaveUp>>

Answered(h, a) == handling' = (handling \ {h}) \cup {[h EXCEPT !.answer = a]}

\* _handle: the request is applied, or refused by an exception without an effect.
Handle(h) ==
    /\ h \in handling /\ h.answer = None
    /\ LET t == Dispatch(ledger, h.q) IN
       \/ /\ Transact(t)
          /\ Answered(h, [ok |-> t.ok, out |-> t.out])
          /\ client' = Overtaken(t, h.q.n)
       \/ /\ Answered(h, [ok |-> FALSE, out |-> None])
          /\ Incident /\ UNCHANGED <<storage, client>>
    /\ UNCHANGED <<transport, specs, server, socket, slots, backlog, calls, gaveUp>>

NotCommitted(c, a) == client[c].kind = "patch" /\ a.ok /\ a.out = "not committed"

\* The end of the loop of _patch_transaction.
GivesUpEarly(c, a) == NotCommitted(c, a) /\ client[c].tries >= MaxTries - 1

GivesUp(c, a) == NotCommitted(c, a) /\ client[c].tries >= MaxTries

\* The next step of a client that gets an answer, or an error in place of one.
After(c, a) ==
    LET me == client[c] IN
    IF me.kind = "add"
    THEN IF a.ok /\ a.out = me.n THEN Idle ELSE [me EXCEPT !.pc = "verify"]
    ELSE IF me.kind = "cancel" /\ a.ok THEN [me EXCEPT !.pc = "clean"]
    ELSE IF NotCommitted(c, a) /\ ~GivesUp(c, a) THEN [me EXCEPT !.pc = "call"]
    ELSE Idle

Returns(c, a) ==
    /\ client' = [client EXCEPT ![c] = After(c, a)]
    /\ gaveUp' = IF GivesUp(c, a) THEN gaveUp \cup {client[c].others} ELSE gaveUp

Awaits(c, q) == client[c].pc = "wait" /\ q.from = c /\ q.n = client[c].n /\ q.try = client[c].tries

ReplyKeepsSlot(h) ==
    /\ h \in handling /\ h.answer # None
    /\ handling' = handling \ {h}
    /\ \/ \E c \in Client : Awaits(c, h.q) /\ Returns(c, h.answer) /\ slots' = slots + 1
       \/ (\A c \in Client : ~Awaits(c, h.q)) /\ UNCHANGED <<client, gaveUp, slots>>
    /\ UNCHANGED <<transport, storage, specs, server, socket, backlog, calls, incidents>>

\* The end of _handle and _handle_and_release: the answer reaches a client that still
\* waits, or nobody; the slot is released either way.
Reply(h) ==
    /\ h \in handling /\ h.answer # None
    /\ handling' = handling \ {h} /\ slots' = slots + 1
    /\ \/ \E c \in Client : Awaits(c, h.q) /\ Returns(c, h.answer)
       \/ (\A c \in Client : ~Awaits(c, h.q)) /\ UNCHANGED <<client, gaveUp>>
    /\ UNCHANGED <<transport, storage, specs, server, socket, backlog, calls, incidents>>

\* request_stop, and the first half of close: the listener closes, which resets what it
\* had not accepted, and shutdown(cancel_futures) drops what no thread of the pool has
\* begun, whose slots nobody releases.
Stop ==
    /\ server = "up" /\ Incident
    /\ server' = "closing" /\ backlog' = <<>>
    /\ \E begun \in SUBSET handling :
          /\ \A h \in handling \ begun : h.answer = None
          /\ handling' = begun
    /\ UNCHANGED <<transport, storage, specs, socket, slots, client, calls, gaveUp>>

\* The second half of close: waits for the handlers, then removes its socket.
Close ==
    /\ server = "closing" /\ handling = {}
    /\ server' = "down" /\ socket' = FALSE
    /\ UNCHANGED <<transport, storage, specs, slots, backlog, handling, client, calls, incidents,
                   gaveUp>>

\* SIGKILL: the socket path stays.
Kill ==
    /\ server # "down" /\ Incident
    /\ server' = "down" /\ backlog' = <<>> /\ handling' = {}
    /\ UNCHANGED <<transport, storage, specs, socket, slots, client, calls, gaveUp>>

-----------------------------------------------------------------------------
(* Clients.                                                                *)

\* What load() returns: BrokerLedgerStore reads ledger.json as it is, LedgerStore recovers.
Loaded == IF transport = "broker" THEN file ELSE ledger
Load == file' = (IF transport = "broker" THEN file ELSE ledger)

Begins(c, kind, arg, pc) ==
    /\ client[c].pc = "idle" /\ calls < MaxCalls
    /\ calls' = calls + 1
    /\ client' = [client EXCEPT ![c] =
                    [Idle EXCEPT !.pc = pc, !.n = calls + 1, !.kind = kind, !.arg = arg]]

\* submit_booking up to add_booking: an operation id that was applied is replayed without
\* a spec, else prepare_job_spec writes one.
Submit(c, op) ==
    /\ Begins(c, "add", op, "call")
    /\ ~Applied(Loaded, UidOf[c], op)
    /\ specs' = specs \cup {<<UidOf[c], calls + 1>>}
    /\ Load
    /\ UNCHANGED <<transport, ledger, broker, incidents, applied, gaveUp>>

\* submit_cancellation of one's own booking, and _run_admin_cancel of anyone's: the
\* reservation is looked up and confirmed, and nothing is kept before the request.
AskCancel(c) ==
    /\ \E i \in DOMAIN ledger.res : Begins(c, "cancel", i, "call")
    /\ UNCHANGED <<transport, storage, specs, broker, incidents, gaveUp>>

\* submit_edit of one's own booking; and, over the broker, the first half of
\* _legacy_transaction, which asks for the ledger (the second half is a patch on it).
AskEdit(c) ==
    /\ \/ \E i \in DOMAIN ledger.res : Begins(c, "change", i, "call")
       \/ transport = "broker" /\ Begins(c, "snapshot", 0, "call")
    /\ Load
    /\ UNCHANGED <<transport, ledger, specs, broker, incidents, applied, gaveUp>>

\* _run_admin_notice: publish, edit or archive.
AskNotice(c) ==
    /\ UidOf[c] = Root
    /\ \/ Begins(c, "publish", 1, "call")
       \/ \E i \in DOMAIN ledger.ann, k \in {"archive", "edit"} : Begins(c, k, i, "call")
    /\ UNCHANGED <<transport, storage, specs, broker, incidents, gaveUp>>

\* A job transaction of the worker: it records an event in its own jobs.
BeginPatch(c) ==
    /\ \E i \in DOMAIN Loaded.res : Loaded.res[i].uid = UidOf[c] /\ Loaded.res[i].job = "pending"
    /\ \E status \in {"pending", "ended"} : Begins(c, "patch", status, "call")
    /\ UNCHANGED <<transport, storage, specs, broker, incidents, gaveUp>>

\* _patch_transaction: the mutator runs on a fresh read; _job_transaction_changes.
Mutated(r, n, status) == [r EXCEPT !.marks = @ \cup {n}, !.job = status]

Changes(led, c) ==
    [i \in {k \in DOMAIN led.res : led.res[k].uid = UidOf[c] /\ led.res[k].job = "pending"} |->
        Mutated(led.res[i], client[c].n, client[c].arg)]

\* The payload of each call: broker_add_booking ... broker_edit_announcement.
Payload(c) ==
    IF client[c].kind = "patch" THEN [base |-> Loaded, changes |-> Changes(Loaded, c)]
    ELSE client[c].arg

Request(c) ==
    [from |-> c, uid |-> UidOf[c], n |-> client[c].n, kind |-> client[c].kind,
     try |-> client[c].tries + 1, arg |-> Payload(c)]

\* A mutator that changes nothing and logs nothing returns without a request.
Unchanged(c) == client[c].kind = "patch" /\ DOMAIN Changes(Loaded, c) = {}

\* BrokerClient.call: connect and send.
Connect(c) ==
    /\ transport = "broker" /\ client[c].pc = "call" /\ ~Unchanged(c)
    /\ IF server = "up" /\ Len(backlog) < MaxBacklog
       THEN /\ backlog' = Append(backlog, Request(c))
            /\ client' = [client EXCEPT ![c].pc = "wait", ![c].tries = @ + 1]
       ELSE /\ client' = [client EXCEPT ![c] = After(c, [ok |-> FALSE, out |-> None])]
            /\ UNCHANGED backlog
    /\ UNCHANGED <<transport, storage, specs, server, socket, slots, handling, calls, incidents,
                   gaveUp>>

NothingToDo(c) ==
    /\ client[c].pc = "call" /\ Unchanged(c)
    /\ client' = [client EXCEPT ![c] = Idle]
    /\ UNCHANGED <<transport, storage, specs, broker, calls, incidents, gaveUp>>

\* The timeout, a reset connection, or one closed for want of a slot.
Timeout(c) ==
    /\ client[c].pc = "wait"
    /\ client' = [client EXCEPT ![c] = After(c, [ok |-> FALSE, out |-> None])]
    /\ UNCHANGED <<transport, storage, specs, broker, calls, incidents, gaveUp>>

\* The same write through a local store; an interrupt may strike before or after it.
Local(c) ==
    /\ transport = "local" /\ client[c].pc = "call" /\ ~Unchanged(c)
    /\ LET q == Request(c)
           t == Dispatch(ledger, q)
       IN  \/ /\ Transact(t)
              /\ client' = [Overtaken(t, q.n) EXCEPT ![c] = After(c, [ok |-> t.ok, out |-> t.out])]
           \/ /\ Incident /\ UNCHANGED applied
              /\ ledger' = ledger /\ file' = ledger
              /\ client' = [client EXCEPT ![c] = After(c, [ok |-> FALSE, out |-> None])]
           \/ /\ Incident /\ ledger' = t.led /\ file' = t.led /\ applied' = applied \cup t.did
              /\ client' = [Overtaken(t, q.n) EXCEPT ![c] = After(c, [ok |-> FALSE, out |-> None])]
    /\ UNCHANGED <<transport, specs, broker, calls, gaveUp>>

References(led, s) == \E i \in DOMAIN led.res : led.res[i].spec = s[2]

\* _cleanup_unreferenced_job_spec: load, look for a reference, then delete_job_spec.
Verify(c) ==
    /\ client[c].pc = "verify"
    /\ client' = [client EXCEPT ![c] = IF References(Loaded, <<UidOf[c], @.n>>) THEN Idle
                                       ELSE [@ EXCEPT !.pc = "drop"]]
    /\ Load
    /\ UNCHANGED <<transport, ledger, specs, broker, calls, incidents, applied, gaveUp>>

Drop(c) ==
    /\ client[c].pc = "drop"
    /\ specs' = specs \ {<<UidOf[c], client[c].n>>}
    /\ client' = [client EXCEPT ![c] = Idle]
    /\ UNCHANGED <<transport, storage, broker, calls, incidents, gaveUp>>

\* _job_spec_is_needed.
Needed(r) == r.status = "active" /\ r.job = "pending"

\* Older than JOB_SPEC_ORPHAN_GRACE_SECONDS: a submission takes far less, and so does the
\* broker.
PastGrace(s) ==
    /\ \A c \in Client : client[c].kind = "add" => client[c].n # s[2]
    /\ \A k \in DOMAIN backlog : backlog[k].n # s[2]
    /\ \A h \in handling : h.q.n # s[2]

\* The clock is read before the ledger, and an age is measured from there.
Plan == [res |-> Loaded.res, old |-> {s \in specs : PastGrace(s)}]

\* cleanup_job_specs: by `bk jobs --cleanup`, the worker, or after a cancellation; the
\* load first, the removals after it.
Clean(c) ==
    /\ \/ /\ client[c].pc = "clean" /\ UNCHANGED calls
          /\ client' = [client EXCEPT ![c] = [@ EXCEPT !.pc = "sweep", !.plan = Plan]]
       \/ /\ client[c].pc = "idle" /\ calls < MaxCalls /\ calls' = calls + 1
          /\ client' = [client EXCEPT ![c] =
                          [Idle EXCEPT !.pc = "sweep", !.n = calls + 1, !.plan = Plan]]
    /\ Load
    /\ UNCHANGED <<transport, ledger, specs, broker, incidents, applied, gaveUp>>

SweepAtOnce(c) ==
    /\ client[c].pc = "sweep"
    /\ LET seen == client[c].plan.res
           mine == {s \in specs : s[1] = UidOf[c]}
           of(s) == {i \in DOMAIN seen : seen[i].spec = s[2]}
       IN  specs' = specs \ {s \in mine : \A i \in of(s) : ~Needed(seen[i])}
    /\ client' = [client EXCEPT ![c] = Idle]
    /\ UNCHANGED <<transport, storage, broker, calls, incidents, gaveUp>>

Sweep(c) ==
    /\ client[c].pc = "sweep"
    /\ LET seen == client[c].plan.res
           mine == {s \in specs : s[1] = UidOf[c]}
           of(s) == {i \in DOMAIN seen : seen[i].spec = s[2]}
       IN  specs' = specs \ {s \in mine : IF of(s) = {} THEN s \in client[c].plan.old
                                          ELSE \A i \in of(s) : ~Needed(seen[i])}
    /\ client' = [client EXCEPT ![c] = Idle]
    /\ UNCHANGED <<transport, storage, broker, calls, incidents, gaveUp>>

\* SIGKILL of a command.
Die(c) ==
    /\ client[c].pc # "idle" /\ Incident
    /\ client' = [client EXCEPT ![c] = Idle]
    /\ UNCHANGED <<transport, storage, specs, broker, calls, gaveUp>>

Next ==
    \/ Start \/ Accept \/ Stop \/ Close \/ Kill
    \/ \E h \in handling : Handle(h) \/ Reply(h)
    \/ \E c \in Client :
          \/ \E op \in OpId \cup {None} : Submit(c, op)
          \/ AskCancel(c) \/ AskEdit(c) \/ AskNotice(c) \/ BeginPatch(c)
          \/ Connect(c) \/ NothingToDo(c) \/ Timeout(c) \/ Local(c)
          \/ Verify(c) \/ Drop(c) \/ Clean(c) \/ Sweep(c) \/ Die(c)

Spec == Init /\ [][Next]_vars

-----------------------------------------------------------------------------
\* The handler slots of BrokerServer are neither leaked nor released twice, whatever
\* becomes of the clients: a free slot for each that handles no request.  Once the broker
\* stops, the slots of the requests it drops are gone with it, and none is released twice.
SlotsBalance ==
    /\ server = "up" => slots + Cardinality(handling) = MaxSlots
    /\ server = "closing" => slots + Cardinality(handling) <= MaxSlots

\* What a committed transaction did is never undone by another client's job transaction,
\* however stale the ledger.json it started from: a recorded event or edit stays
\* recorded and a cancelled reservation stays cancelled.
NothingLost ==
    \A d \in applied :
        LET r == ledger.res[d[2]] IN
        CASE d[1] = "add"    -> r.spec = d[3]
          [] d[1] = "cancel" -> r.status = "cancelled"
          [] d[1] = "mark"   -> d[3] \in r.marks

\* A create that is retried under its operation id after a lost answer, while the first
\* request may still wait in the broker, makes one reservation.
OncePerOperation ==
    \A uid \in Uid, op \in OpId : Cardinality(Created(ledger, uid, op)) <= 1

\* "ledger changed repeatedly" is reported only when others did commit: every refusal but
\* one, which a pending journal may cause, stands for a commit during the transaction.
GivesUpWhenOvertaken == \A k \in gaveUp : k >= MaxTries - 1

\* A reservation whose job can still run.
Runnable(i) == Needed(ledger.res[i])

\* The spec of a job that can still run exists.
SpecsKept == \A i \in DOMAIN ledger.res :
                Runnable(i) => <<ledger.res[i].uid, ledger.res[i].spec>> \in specs

\* With the local store, no interrupt, retry or clean-up takes the spec of a job that can
\* still run: the roll-back of a submission rereads the ledger under the lock.
LocalSpecsKept == transport = "local" => SpecsKept

\* An archived announcement is never changed or dropped again, whatever edits were on
\* their way when it was archived.
ArchivedIsFinal ==
    [][\A i \in DOMAIN ledger.ann :
          ledger.ann[i].archived => /\ i \in DOMAIN ledger'.ann
                                    /\ ledger'.ann[i] = ledger.ann[i]]_vars
=============================================================================
