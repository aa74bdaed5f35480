------------------------------ MODULE Commands ------------------------------
(***************************************************************************)
(* The commands of cli.py and the tools of mcp_server.py that look at the  *)
(* ledger, let their user decide and then write: bk slots, the guided bk   *)
(* add and bk edit, bk del and bk edit by number, and the agent's          *)
(* cancel and edit with an operation id.  Each reads the ledger anew for   *)
(* every step.  One operation id is modelled; `op` of a reservation is the *)
(* write that it was applied as.                                           *)
(***************************************************************************)
EXTENDS Timetable

CONSTANTS
    Asks,           \* requests: [count, length, want, mode, queue, gpus (or {}), avoid]
    Edits,          \* changes typed by a user, as Timetable!Replaced takes them
    Tries,          \* attempts an agent makes with its operation id
    MaxCalls        \* bound

VARIABLE call

Waiting == [at |-> "off", id |-> 0]

Idle(calls) ==
    [at |-> "idle", ask |-> <<>>, list |-> <<>>, id |-> 0, change |-> <<>>, verb |-> "none",
     token |-> 0, seen |-> <<>>, tries |-> [t \in Tries |-> Waiting], answer |-> 0, calls |-> calls]

CommandsInit == call = Idle(0)

CanCall == call.at = "idle" /\ call.calls < MaxCalls
Return == call' = Idle(call.calls)

----------------------------------------------------------------------------
(* Offers and reviews. *)

(* The GPUs a request names, or all that it does not exclude. *)
Pool(ask) == IF ask.gpus = {} THEN Cards \ ask.avoid ELSE ask.gpus

(* recommend_booking: without a queue only the requested start will do. *)
Recommended(ask) ==
    IF ask.queue THEN EarliestSlot(0, ask.count, ask.want, ask.length, ask.mode, Pool(ask))
    ELSE Placed(0, ask.count, ask.want, ask.length, ask.mode, Pool(ask))

(* bk slots: the best of the earliest slots of every set of cards. *)
SlotOptions(ask) ==
    LET perSet == UNION {EarliestSlot(0, ask.count, ask.want, ask.length, ask.mode, pool) :
                            pool \in {p \in SUBSET Pool(ask) : Cardinality(p) = ask.count}}
    IN {s \in perSet : \A r \in perSet : s.from <= r.from}

(* What the start of a queued request depends on. *)
Circumstances(ask) == <<elsewhere, QueueStart(ask.want)>>

Show(at, ask, slot) ==
    /\ CanCall
    /\ screen' = slot
    /\ call' = [Idle(call.calls + 1) EXCEPT !.at = at, !.ask = ask,
                    !.seen = IF at = "reviewed" THEN Circumstances(ask) ELSE <<>>]
    /\ UNCHANGED <<moment, plan, deed, elsewhere>>

OfferSlots == \E ask \in Asks : \E s \in SlotOptions(ask) : Show("offered", ask, s)

RecommendTool == \E ask \in Asks : \E s \in Recommended(ask) : Show("offered", ask, s)

GuidedPreview == \E ask \in Asks : \E s \in Recommended(ask) : Show("reviewed", ask, s)

(* The offered cards and start are asked for by name. *)
BookOffered ==
    /\ call.at = "offered"
    /\ Return
    /\ IF Added(screen) = {} THEN UNCHANGED <<plan, deed>>
       ELSE \E a \in Added(screen) : Deed(screen, a.id, a.ledger)
    /\ UNCHANGED <<moment, screen, elsewhere>>

(* The guided booking shows a placement and submits the request: it        *)
(* commits itself to what the request fixes, and to the start it showed as *)
(* long as that is still the first.                                        *)
Promised(ask) ==
    [mode |-> ask.mode, length |-> ask.length, count |-> ask.count]
        @@ (IF ask.gpus = {} THEN <<>> ELSE [gpus |-> ask.gpus])
        @@ (IF ask.queue THEN [earliest |-> Floor(ask.want), avoid |-> ask.avoid]
            ELSE [from |-> ask.want])
        @@ (IF call.seen = Circumstances(ask) THEN [from |-> screen.from] ELSE <<>>)

(* A repeated request is recognised whatever GPUs it excludes. *)
Confirmed(ask) ==
    LET sets == IF ask.gpus = {} THEN {s \in SUBSET Cards : Cardinality(s) = ask.count}
                ELSE {ask.gpus}
        again == IF ask.queue THEN {}
                 ELSE Repeats(Myself, ask.want, ask.want + ask.length, ask.mode, sets)
    IN IF again # {} THEN {Repeated(i) : i \in again}
       ELSE {Created(s) : s \in {r \in Recommended(ask) : Floor(moment) <= r.from}}

ConfirmReview ==
    /\ call.at = "reviewed"
    /\ Return
    /\ IF Confirmed(call.ask) = {} THEN UNCHANGED <<plan, deed>>
       ELSE \E a \in Confirmed(call.ask) : Deed(Promised(call.ask), a.id, a.ledger)
    /\ UNCHANGED <<moment, screen, elsewhere>>

GiveUp ==
    /\ call.at \in {"offered", "reviewed", "listed", "fields"}
    /\ Return /\ UNCHANGED timetable

----------------------------------------------------------------------------
(* bk del and bk edit. *)

PromptReservation ==
    /\ CanCall /\ OwnListing # <<>>
    /\ \E verb \in {"cancel", "edit"} :
          call' = [Idle(call.calls + 1) EXCEPT !.at = "listed", !.verb = verb, !.list = OwnListing]
    /\ UNCHANGED timetable

(* What a token may name, 0 for nothing: a number beyond the end of the    *)
(* list is taken as the beginning of an id.                                *)
ByNumber(n, own) == IF n \in DOMAIN OwnListing THEN {OwnListing[n]} ELSE {0} \cup own
ById(i) == IF i \in Range(OwnListing) THEN {i} ELSE {0}

(* A number means what it means now; it is the listed reservation only if  *)
(* the list is still the same.                                             *)
ResolveOwn ==
    /\ call.at = "listed"
    /\ \E n \in DOMAIN call.list, numbered \in BOOLEAN :
          \E i \in IF numbered THEN ByNumber(n, Range(OwnListing)) ELSE ById(call.list[n]) :
             /\ call' = IF i = 0 THEN Idle(call.calls)
                        ELSE [call EXCEPT !.at = "resolved", !.id = i, !.list = <<>>]
             /\ screen' = IF numbered /\ OwnListing # call.list THEN NoClaim
                          ELSE ClaimId(call.list[n])
    /\ UNCHANGED <<moment, plan, deed, elsewhere>>

(* The MCP tools take an id only. *)
ResolveToken ==
    /\ CanCall
    /\ \E i \in Range(OwnListing), verb \in {"cancel", "edit"} :
          /\ call' = [Idle(call.calls + 1) EXCEPT !.at = "resolved", !.verb = verb, !.id = i]
          /\ screen' = ClaimId(i)
    /\ UNCHANGED <<moment, plan, deed, elsewhere>>

DeleteCommand ==
    /\ call.at = "resolved" /\ call.verb = "cancel"
    /\ Return
    /\ IF CancelAllowed(call.id)
       THEN Deed(screen, call.id, [plan EXCEPT ![call.id].live = FALSE])
       ELSE UNCHANGED <<plan, deed>>
    /\ UNCHANGED <<moment, screen, elsewhere>>

(* The terms of a change: with --queue its start is only the earliest. *)
Reviewed(change) ==
    LET queue == "queue" \in DOMAIN change
        fixed == DOMAIN change \ (IF queue THEN {"queue", "from"} ELSE {})
    IN [f \in fixed |-> change[f]]
           @@ (IF queue /\ "from" \in DOMAIN change THEN [earliest |-> change.from] ELSE <<>>)

(* Changes given as arguments go straight to submit_edit; without any, the *)
(* reservation is read and its fields are asked for.                       *)
EditCommand ==
    /\ call.at = "resolved" /\ call.verb = "edit"
    /\ \/ \E change \in Edits :
             /\ call' = [call EXCEPT !.at = "submit", !.change = change]
             /\ screen' = screen @@ Reviewed(change)
       \/ /\ call' = IF Alive(call.id) THEN [call EXCEPT !.at = "fields"] ELSE Idle(call.calls)
          /\ UNCHANGED screen
    /\ UNCHANGED <<moment, plan, deed, elsewhere>>

(* Ends that may be typed for a started reservation. *)
NewEnds(i) == {plan[i].to - Slice, plan[i].to + Slice}

ReviewEnd ==
    /\ call.at = "fields" /\ plan[call.id].from <= moment
    /\ \E to \in NewEnds(call.id) :
          /\ call' = [call EXCEPT !.at = "submit", !.change = [length |-> to - plan[call.id].from]]
          /\ screen' = screen @@ [to |-> to]
    /\ UNCHANGED <<moment, plan, deed, elsewhere>>

ReviewChanges ==
    /\ call.at = "fields" /\ moment < plan[call.id].from
    /\ \E change \in Edits :
          /\ call' = [call EXCEPT !.at = "submit", !.change = change]
          /\ screen' = screen @@ Reviewed(change)
    /\ UNCHANGED <<moment, plan, deed, elsewhere>>

SubmitEdit ==
    /\ call.at = "submit"
    /\ Return
    /\ LET edited == Edited(Myself, call.id, call.change)
       IN IF edited = {} THEN UNCHANGED <<plan, deed>>
          ELSE \E r \in edited : Deed(screen, call.id, [plan EXCEPT ![call.id] = r])
    /\ UNCHANGED <<moment, screen, elsewhere>>

----------------------------------------------------------------------------
(* bk agent cancel and bk agent edit with a number and an operation id.    *)
(* The attempts of one call may overlap or follow each other: the agent    *)
(* repeats it when it has lost the answer.                                 *)

Applied == {i \in DOMAIN plan : plan[i].op # "none"}

AgentCall ==
    /\ CanCall
    /\ \E verb \in {"cancel", "edit"}, n \in DOMAIN OwnListing, change \in Edits :
          call' = [Idle(call.calls + 1) EXCEPT !.at = "agent", !.verb = verb, !.token = n,
                      !.change = change, !.tries = [t \in Tries |-> [at |-> "look", id |-> 0]]]
    /\ UNCHANGED timetable

Attempting(t, at) == call.at = "agent" /\ call.tries[t].at = at

(* A cancellation first looks for its operation id, an edit does not. *)
FindApplied(t) ==
    /\ Attempting(t, "look")
    /\ LET known == call.verb = "cancel" /\ Applied # {}
           i == CHOOSE j \in Applied : TRUE
       IN call' = [call EXCEPT !.tries[t] =
                      IF ~known THEN [at |-> "number", id |-> 0]
                      ELSE IF plan[i].op = "cancel" THEN [at |-> "write", id |-> i]
                      ELSE Waiting]
    /\ UNCHANGED timetable

ResolveRetained(t) ==
    /\ Attempting(t, "number")
    /\ \E i \in ByNumber(call.token, {j \in DOMAIN plan : plan[j].uid = Myself}) :
          call' = [call EXCEPT !.tries[t] = IF i = 0 THEN Waiting ELSE [at |-> "write", id |-> i]]
    /\ UNCHANGED timetable

(* Checks the operation id again, inside the transaction. *)
AgentWrite(t) ==
    /\ Attempting(t, "write")
    /\ LET i == call.tries[t].id
           claim == IF call.answer = 0 THEN NoClaim ELSE ClaimId(call.answer)
           results == IF call.verb = "edit" THEN Edited(Myself, i, call.change)
                      ELSE IF CancelAllowed(i) THEN {[plan[i] EXCEPT !.live = FALSE]} ELSE {}
           done == [call EXCEPT !.tries[t] = Waiting, !.answer = i]
       IN \/ /\ Applied = {}
             /\ \E r \in results :
                   Deed(claim, i, [plan EXCEPT ![i] = [r EXCEPT !.op = call.verb]])
             /\ call' = done
          \/ /\ Applied = {i} /\ plan[i].op = call.verb
             /\ Deed(claim, i, plan)
             /\ call' = done
          \/ /\ IF Applied = {} THEN results = {} ELSE Applied # {i} \/ plan[i].op # call.verb
             /\ call' = [call EXCEPT !.tries[t] = Waiting]
             /\ UNCHANGED <<plan, deed>>
    /\ UNCHANGED <<moment, screen, elsewhere>>

CommandsNext ==
    \/ OfferSlots \/ RecommendTool \/ GuidedPreview \/ BookOffered \/ ConfirmReview \/ GiveUp
    \/ PromptReservation \/ ResolveOwn \/ ResolveToken \/ DeleteCommand \/ EditCommand
    \/ ReviewEnd \/ ReviewChanges \/ SubmitEdit \/ AgentCall
    \/ \E t \in Tries : FindApplied(t) \/ ResolveRetained(t) \/ AgentWrite(t)
    \/ (Environment /\ UNCHANGED call)
=============================================================================
