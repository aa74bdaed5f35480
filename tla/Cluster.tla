------------------------------ MODULE Cluster ------------------------------
(***************************************************************************)
(* Booking across nodes: bk/cluster.py, bk/cluster_transport.py and the    *)
(* catalog commands of bk/admin_cluster.py.                                *)
(*                                                                         *)
(* Every node has a ledger of its own.  A cluster command is a client      *)
(* process that loads the catalog once and runs bk on nodes over SSH.  A   *)
(* call has a deadline; killing the local ssh at the deadline does not     *)
(* stop the remote bk, which may commit its write much later.  Writes      *)
(* carry an operation id, which a node applies once.                       *)
(***************************************************************************)
EXTENDS Naturals, FiniteSets

CONSTANTS
    Node,            \* hosts, their stable identities and their names
    Wish,            \* what a booking or an edit asks for
    Client, Admin, OpId, Principal, Uid, None,
    MaxCalls,        \* bound: commands started
    MaxEdits         \* bound: catalog reviews started

ASSUME ClusterAssumption ==
    None \notin OpId \cup Wish /\ {MaxCalls, MaxEdits} \subseteq Nat

VARIABLES
    catalog,     \* cluster.json, None when it does not exist
    review,      \* what each administrator has loaded and is about to write
    ledger,      \* per node: the operations that it applied
    remote,      \* writes sent and not yet finished, with their answer
    client,
    calls, edits,
    sent,        \* history: the writes that were sent under an operation id
    excused,     \* history: operations whose routing was not safe (Crosses)
    reports      \* history: writes that commands reported as done

vars == <<catalog, review, ledger, remote, client, calls, edits, sent, excused, reports>>
history == <<sent, excused, reports>>
administration == <<catalog, review, edits>>

-----------------------------------------------------------------------------
(* The catalog: entries [name, id, at, on], where at is the host that the  *)
(* target of the entry reaches, and members [p, id, uid].  The executable, *)
(* priority and time-out of an entry and the root of the history are left  *)
(* out: a command that changes nothing else writes the catalog unchanged.  *)

Entry(name, id) == [name |-> name, id |-> id, at |-> name, on |-> TRUE]

\* _parse_cluster_config, _parse_node and _validate_principal.
Valid(cat) ==
    /\ cat.nodes # {}
    /\ \A d, e \in cat.nodes : d.name = e.name \/ d.id = e.id => d = e
    /\ \A m \in cat.members :
          /\ \E e \in cat.nodes : e.id = m.id
          /\ \A k \in cat.members : k.id = m.id /\ k.uid = m.uid => k = m

Named(cat, name) == {e \in cat.nodes : e.name = name}
Enabled(cat) == {e \in cat.nodes : e.on}

\* _remove_cluster_node.
Remove(cat, e) ==
    [cat EXCEPT !.nodes = @ \ {e}, !.members = {m \in @ : m.id # e.id}]

\* _update_cluster_node.
Retarget(cat, e, at) == [cat EXCEPT !.nodes = (@ \ {e}) \cup {[e EXCEPT !.at = at]}]

\* _set_cluster_node_enabled.
SetEnabled(cat, e, on) == [cat EXCEPT !.nodes = (@ \ {e}) \cup {[e EXCEPT !.on = on]}]

\* _map_cluster_principal: a uid of a node belongs to one principal.
MapPrincipal(cat) ==
    {[cat EXCEPT !.members = @ \cup {m}] :
        m \in {k \in [p : Principal, id : {e.id : e \in cat.nodes}, uid : Uid] :
                 ~\E x \in cat.members : x.id = k.id /\ x.uid = k.uid}}

\* _unmap_cluster_principal.
UnmapPrincipal(cat) == {[cat EXCEPT !.members = @ \ {m}] : m \in cat.members}

\* _updated_cluster_config: the catalogs that one command can make of the one it loaded.
Updates(cat) ==
    {[cat EXCEPT !.nodes = @ \cup {Entry(n, i)}] :
        <<n, i>> \in {p \in Node \X Node : Named(cat, p[1]) = {}}}
    \cup {Remove(cat, e) : e \in cat.nodes}
    \cup {Retarget(cat, e, at) : e \in cat.nodes, at \in Node}
    \cup {SetEnabled(cat, e, on) : e \in cat.nodes, on \in BOOLEAN}
    \cup MapPrincipal(cat) \cup UnmapPrincipal(cat) \cup {cat}

\* _initial_cluster_config: the first node added.
FirstCatalog(n) == [nodes |-> {Entry(n, n)}, members |-> {}]

-----------------------------------------------------------------------------
Idle == [pc |-> "idle", n |-> 0, op |-> None, act |-> None, target |-> None,
         wish |-> None, cat |-> None, node |-> None, ask |-> {}, ans |-> {}, try |-> 0]

Init ==
    /\ catalog \in {None, [nodes |-> {Entry(n, n) : n \in Node}, members |-> {}]}
    /\ review = [a \in Admin |-> None]
    /\ ledger = [n \in Node |-> {}]
    /\ remote = {}
    /\ client = [c \in Client |-> Idle]
    /\ calls = 0 /\ edits = 0
    /\ sent = [op \in OpId |-> {}] /\ excused = {} /\ reports = {}

\* run_admin_cluster up to the confirmation: the catalog is loaded and the change printed.
Review(a) ==
    /\ review[a] = None /\ edits < MaxEdits /\ edits' = edits + 1
    /\ IF catalog = None
       THEN \E n \in Node :
               review' = [review EXCEPT ![a] = [do |-> "create", to |-> FirstCatalog(n)]]
       ELSE \/ \E to \in Updates(catalog) : review' = [review EXCEPT ![a] = [do |-> "write", to |-> to]]
            \/ review' = [review EXCEPT ![a] = [do |-> "delete", to |-> catalog]]
    /\ UNCHANGED <<catalog, ledger, remote, client, calls, history>>

\* write_cluster_config: the document is parsed again and replaces whatever the catalog
\* is by now; create_only links it in place instead, which fails if there is one.
WriteCatalog(a) ==
    /\ review[a] # None /\ review[a].do \in {"write", "create"}
    /\ catalog' = IF Valid(review[a].to) /\ (review[a].do = "create" => catalog = None)
                  THEN review[a].to ELSE catalog
    /\ review' = [review EXCEPT ![a] = None]
    /\ UNCHANGED <<ledger, remote, client, calls, edits, history>>

\* delete_cluster_config: only the catalog that was reviewed.
DeleteCatalog(a) ==
    /\ review[a] # None /\ review[a].do = "delete"
    /\ catalog' = IF catalog = review[a].to THEN None ELSE catalog
    /\ review' = [review EXCEPT ![a] = None]
    /\ UNCHANGED <<ledger, remote, client, calls, edits, history>>

-----------------------------------------------------------------------------
(* A node.                                                                 *)

\* find_applied_operation.
Applied(n, op) == {r \in ledger[n] : r.op = op}

\* Own reservations on n, by the operation that created them, and those not cancelled.
Created(n) == {r.op : r \in {x \in ledger[n] : x.act = "create"}}
Live(n) == Created(n) \ {r.target : r \in {x \in ledger[n] : x.act = "cancel"}}

\* A write: what it does, to which reservation, and what it asks for (its signature).
Write(x) == [op |-> x.op, act |-> x.act, target |-> x.target, wish |-> x.wish]

\* The last write of a command that waits for its answer.
Own(c) == {r \in remote : r.n = client[c].n /\ r.try = client[c].try /\ client[c].pc = "wait"}

\* One remote bk command, run to its end: an operation that was applied is answered from
\* the record when it is the same write and refused when it is another; a new one is
\* applied or refused (no slot, a lock time-out, a cancelled reservation).  The answer is
\* lost when its command no longer waits.
Execute(r) ==
    /\ r \in remote /\ r.answer = None
    /\ LET new == Write(r)
           done == Applied(r.node, r.op)
           heard == \E c \in Client : r \in Own(c)
           Finish(a) == remote' = (remote \ {r}) \cup (IF heard THEN {[r EXCEPT !.answer = a]} ELSE {})
       IN  \/ done # {} /\ Finish(IF new \in done THEN "ok" ELSE "error") /\ UNCHANGED ledger
           \/ done = {} /\ Finish("error") /\ UNCHANGED ledger
           \/ /\ done = {} /\ (r.act # "create" => r.target \in Live(r.node))
              /\ ledger' = [ledger EXCEPT ![r.node] = @ \cup {new}]
              /\ Finish("ok")
    /\ UNCHANGED <<administration, client, calls, history>>

-----------------------------------------------------------------------------
(* A command.                                                              *)

\* The node n has applied the operation, or was sent it and may still do so.
MayHold(n, op) ==
    Applied(n, op) # {} \/ \E r \in remote : r.node = n /\ r.op = op /\ r.answer = None

\* Another command of the operation is running.
Shared(c, op) == \E d \in Client \ {c} : client[d].op = op

\* A write of c to one of the nodes in reach may be the second of its operation, and c cannot
\* tell: another command of the operation is running, or a node out of reach may hold it.
Crosses(c, op, reach) == Shared(c, op) \/ \E n \in Node \ reach : MayHold(n, op)

Excuse(op, unsafe) == excused' = IF unsafe THEN excused \cup {op} ELSE excused

Begins(c, op, me) ==
    /\ client[c] = Idle /\ calls < MaxCalls /\ catalog # None
    /\ calls' = calls + 1
    /\ client' = [client EXCEPT ![c] = [me EXCEPT !.n = calls + 1, !.op = op, !.cat = catalog]]
    /\ UNCHANGED <<administration, ledger, remote, sent, reports>>

\* `bk c book`, as _cluster_recommend starts it: with --op-id (find) or a fresh id.
Book(c, op, wish) ==
    /\ \/ Begins(c, op, [Idle EXCEPT !.pc = "find", !.act = "create", !.wish = wish,
                                    !.ask = Enabled(catalog)])
       \/ /\ sent[op] = {} /\ ~Shared(c, op)
          /\ Begins(c, op, [Idle EXCEPT !.pc = "recommend", !.act = "create", !.wish = wish])
    /\ UNCHANGED excused

\* `bk @NODE ...` (run_node_cli): this node, whether or not another one has the operation.
BookAt(c, op, e, wish) ==
    /\ e.on
    /\ Begins(c, op, [Idle EXCEPT !.pc = "context", !.act = "create", !.wish = wish, !.node = e])
    /\ Excuse(op, Crosses(c, op, {e.at}))

\* `bk c edit` and `bk c cancel` (_cluster_edit, _cluster_cancel, _qualified_reservation).
Change(c, op, e, act) ==
    /\ e.on
    /\ \E target \in Created(e.at), wish \in IF act = "edit" THEN Wish ELSE {None} :
          Begins(c, op, [Idle EXCEPT !.pc = "context", !.act = act, !.target = target,
                                     !.wish = wish, !.node = e])
    /\ UNCHANGED excused

Stays == UNCHANGED <<administration, ledger, calls, sent, excused>>

\* The command ends with this report.
Report(c, result) ==
    /\ client' = [client EXCEPT ![c] = Idle]
    /\ reports' = IF result # "ok" THEN reports
                  ELSE reports \cup {[write |-> Write(client[c]), node |-> client[c].node.at]}

Fails(c) == client' = [client EXCEPT ![c] = Idle] /\ UNCHANGED reports

\* A read is answered by a host whose identity is the catalog's, or ends in an error.
Answers(e) == e.id = e.at

\* _parallel: one of the concurrent queries for the operation.  A node that answers
\* "absent" may still apply a write that it was sent.
Query(c, e) ==
    LET op == client[c].op
        reach == {x.at : x \in client[c].cat.nodes} \ {e.at}
    IN  /\ e \in client[c].ask
        /\ \E kind \in {"error"} \cup
              (IF ~Answers(e) THEN {} ELSE {IF Applied(e.at, op) = {} THEN "absent" ELSE "found"}) :
              /\ client' = [client EXCEPT ![c].ask = @ \ {e},
                                          ![c].ans = @ \cup {[entry |-> e, kind |-> kind]}]
              /\ Excuse(op, kind = "absent" /\ Crosses(c, op, reach))
        /\ UNCHANGED <<administration, ledger, remote, calls, sent, reports>>

Holders(ans) == {x.entry : x \in {y \in ans : y.kind = "found"}}

\* Mutant: nodes without an answer are taken not to have the operation.
RefusesTwo(cat, ans) == Cardinality(Holders(ans)) > 1

\* _find_cluster_operation_node: a node that is disabled or gives no answer counts as a
\* failure, which only a node that has the operation outweighs.
Refuses(cat, ans) ==
    \/ Cardinality(Holders(ans)) > 1
    \/ /\ Holders(ans) = {}
       /\ (\E x \in ans : x.kind = "error") \/ Enabled(cat) # cat.nodes

Find(c) ==
    /\ client[c].pc = "find" /\ client[c].ask = {}
    /\ IF Refuses(client[c].cat, client[c].ans) THEN Fails(c)
       ELSE /\ client' = [client EXCEPT ![c] =
                 IF Holders(client[c].ans) = {}
                 THEN [@ EXCEPT !.pc = "recommend", !.ans = {}]
                 ELSE [@ EXCEPT !.pc = "context", !.ans = {},
                                !.node = CHOOSE e \in Holders(client[c].ans) : TRUE]]
            /\ UNCHANGED reports
    /\ UNCHANGED remote /\ Stays

\* The enabled nodes recommend a slot, have none or fail; _rank_cluster_candidates orders the
\* slots (the ranking is a choice here), and _select_cluster_write_candidate takes the best
\* of those that advertise the capabilities a write requires.
Recommend(c) ==
    /\ client[c].pc = "recommend"
    /\ \/ Fails(c)
       \/ \E e \in Enabled(client[c].cat) :
             /\ Answers(e)
             /\ client' = [client EXCEPT ![c].pc = "send", ![c].node = e] /\ UNCHANGED reports
    /\ UNCHANGED remote /\ Stays

\* The context of a given node, which may not advertise the capabilities that a write
\* requires (_require_write_capabilities).
Context(c) ==
    /\ client[c].pc = "context"
    /\ \/ Fails(c)
       \/ /\ Answers(client[c].node)
          /\ client' = [client EXCEPT ![c].pc = "send"] /\ UNCHANGED reports
    /\ UNCHANGED remote /\ Stays

\* _invoke_idempotent_write: the write, first or second.
Send(c) ==
    /\ client[c].pc = "send"
    /\ remote' = remote \cup {[n |-> client[c].n, try |-> client[c].try, node |-> client[c].node.at,
                              op |-> client[c].op, act |-> client[c].act, wish |-> client[c].wish,
                              target |-> client[c].target, answer |-> None]}
    /\ sent' = [sent EXCEPT ![client[c].op] = @ \cup {Write(client[c])}]
    /\ client' = [client EXCEPT ![c].pc = "wait"]
    /\ UNCHANGED <<administration, ledger, calls, excused, reports>>

\* A reply in time ends the command, an error that the node reports included.
Receive(c) ==
    /\ client[c].pc = "wait"
    /\ \E r \in Own(c) : r.answer # None /\ remote' = remote \ {r} /\ Report(c, r.answer)
    /\ Stays

\* No reply: the deadline, a broken connection, output that does not parse.  The remote
\* command goes on, unless the connection failed before it began.  A reply with another
\* identity, or a cancelled call, ends the command.
Lose(c) ==
    /\ client[c].pc = "wait"
    /\ \E r \in Own(c) :
          remote' \in {remote \ {r}} \cup (IF r.answer = None THEN {remote} ELSE {})
    /\ \/ client' = [client EXCEPT ![c].pc = "probe"] /\ UNCHANGED reports
       \/ Report(c, "error")
    /\ Stays

\* Mutant: whatever was done under the operation id counts as this write.
ProbeAnyAction(c) ==
    /\ client[c].pc = "probe"
    /\ LET done == Applied(client[c].node.at, client[c].op) IN
       \/ Report(c, "unresolved")
       \/ done # {} /\ Report(c, "ok")
       \/ /\ done = {} /\ client[c].try = 0
          /\ client' = [client EXCEPT ![c].pc = "send", ![c].try = 1] /\ UNCHANGED reports
    /\ UNCHANGED remote /\ Stays

\* _probe_operation and what follows it: found under the expected action, bound to another
\* one, absent (write once more, then give up), or no answer.
Probe(c) ==
    /\ client[c].pc = "probe"
    /\ LET done == Applied(client[c].node.at, client[c].op) IN
       \/ Report(c, "unresolved")
       \/ \E r \in done : Report(c, IF r.act = client[c].act THEN "ok" ELSE "error")
       \/ /\ done = {} /\ client[c].try = 0
          /\ client' = [client EXCEPT ![c].pc = "send", ![c].try = 1] /\ UNCHANGED reports
    /\ UNCHANGED remote /\ Stays

\* The command is interrupted or killed; nothing is reported.
Die(c) ==
    /\ client[c] # Idle
    /\ remote' = {r \in remote : r \in Own(c) => r.answer = None}
    /\ Fails(c) /\ Stays

Step(c) ==
    \/ \E e \in client[c].ask : Query(c, e)
    \/ Find(c) \/ Recommend(c) \/ Context(c) \/ Send(c) \/ Receive(c) \/ Lose(c) \/ Probe(c)

Next ==
    \/ \E a \in Admin : Review(a) \/ WriteCatalog(a) \/ DeleteCatalog(a)
    \/ \E c \in Client, op \in OpId :
          \/ \E wish \in Wish : Book(c, op, wish)
          \/ \E e \in IF catalog = None THEN {} ELSE catalog.nodes :
                \/ \E wish \in Wish : BookAt(c, op, e, wish)
                \/ \E act \in {"edit", "cancel"} : Change(c, op, e, act)
    \/ \E c \in Client : Step(c) \/ Die(c)
    \/ \E r \in remote : Execute(r)

Spec == Init /\ [][Next]_vars

-----------------------------------------------------------------------------
\* An operation is booked on one node only, however `bk c book` repeats it after lost answers,
\* kills and changes of the catalog: the repetition finds the node that has it or is refused,
\* and so does one that follows a `bk @NODE`.  Not promised once a node said "absent" that
\* was still to apply an earlier write, that another command of the operation was about to
\* write to, or while a node that the catalog does not reach held the operation; nor to a
\* `bk @NODE` that its user directs past the node which has the operation.
RoutedOnce ==
    \A op \in OpId \ excused :
        Cardinality({n \in Node : \E r \in Applied(n, op) : r.act = "create"}) <= 1

\* A command that reports success is right: the node it names applied an operation of this
\* kind under its id, and this very write if the id was never used for another one.  (The
\* recovery of a lost answer compares nothing but the kind.)
SuccessIsReal ==
    \A p \in reports : \E r \in Applied(p.node, p.write.op) :
        /\ r.act = p.write.act
        /\ sent[r.op] = {p.write} => r = p.write
=============================================================================
