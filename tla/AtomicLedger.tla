---------------------------- MODULE AtomicLedger ----------------------------
(***************************************************************************)
(* What bk/storage.py promises its callers, with no files in it: a         *)
(* transaction takes effect at one instant or never, a reported outcome is *)
(* true, a power loss costs at most what was not reported as cleanly       *)
(* committed, and reset() empties the ledger at one instant or not at all. *)
(***************************************************************************)
CONSTANT Txn

VARIABLES
    content,    \* transactions whose change is in the ledger
    accepted,   \* reported as committed
    deferred,   \* reported as committed, recovery outstanding
    rejected    \* reported as failed

avars == <<content, accepted, deferred, rejected>>

Init == content = {} /\ accepted = {} /\ deferred = {} /\ rejected = {}

Commit ==
    /\ \E t \in Txn \ (content \cup rejected) : content' = content \cup {t}
    /\ UNCHANGED <<accepted, deferred, rejected>>

Accept ==
    /\ \E t \in content \ (accepted \cup deferred) :
        \/ accepted' = accepted \cup {t} /\ UNCHANGED deferred
        \/ deferred' = deferred \cup {t} /\ UNCHANGED accepted
    /\ UNCHANGED <<content, rejected>>

Reject ==
    /\ \E t \in Txn \ (content \cup rejected) : rejected' = rejected \cup {t}
    /\ UNCHANGED <<content, accepted, deferred>>

PowerLoss ==
    /\ content' \in {kept \in SUBSET content : accepted \subseteq kept}
    /\ deferred' = {}
    /\ UNCHANGED <<accepted, rejected>>

\* reset() withdraws every promise; one that is cut short may keep the content.
Reset ==
    /\ content' \in {{}, content}
    /\ accepted' = {} /\ deferred' = {}
    /\ UNCHANGED rejected

Next == Commit \/ Accept \/ Reject \/ PowerLoss \/ Reset

Spec == Init /\ [][Next]_avars
=============================================================================
