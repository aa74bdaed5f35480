----------------------------- MODULE BrokerProofs -----------------------------
(***************************************************************************)
(* Proofs about the write path, for any number of clients, users, slots,   *)
(* commands, retries, broker kills and pending journals: what a committed  *)
(* transaction did is not lost, an operation id makes one reservation, an  *)
(* archived announcement is final, handler slots are not leaked, a job     *)
(* transaction gives up only when others committed, and the local store    *)
(* keeps the spec of every job that can still run.                         *)
(***************************************************************************)
EXTENDS Broker, FiniteSetTheorems, TLAPS

Kinds == {"add", "cancel", "change", "snapshot", "publish", "archive", "edit", "patch"}
Operations == OpId \cup {None}
JobStatus == {"pending", "ended"}

Reservations ==
    [uid : Uid, op : Operations, spec : Nat, status : {"active", "cancelled"},
     job : {"pending", "cancelled", "ended"}, marks : SUBSET Nat]
Notices == [archived : BOOLEAN, text : Nat]
Ledgers == [res : Seq(Reservations), ann : Seq(Notices)]

\* A patch, its changes by position in the ledger.
Patches == [base : Ledgers, changes : UNION {[D -> Reservations] : D \in SUBSET Nat}]
Messages ==
    [from : Client, uid : Uid, n : Nat, kind : Kinds, try : Nat,
     arg : Operations \cup Nat \cup JobStatus \cup Patches]

\* A request means what its client computed: an addition carries an operation id, and a
\* patch marks pending jobs of the ledger it was computed from.
Meant(q) ==
    /\ q.kind = "add" => q.arg \in Operations
    /\ q.kind = "patch" =>
          /\ q.arg \in Patches
          /\ \A i \in DOMAIN q.arg.changes :
                /\ i \in DOMAIN q.arg.base.res /\ q.arg.base.res[i].job = "pending"
                /\ \E status \in JobStatus :
                      q.arg.changes[i] = Mutated(q.arg.base.res[i], q.n, status)

\* What every transaction keeps of a reservation.
Follows(r, s) ==
    /\ s.uid = r.uid /\ s.op = r.op /\ s.spec = r.spec
    /\ r.status = "cancelled" => s.status = "cancelled"
    /\ r.job # "pending" => s.job # "pending"
    /\ r.marks \subseteq s.marks

\* The ledger holds what the transaction d did.
Holds(led, d) ==
    /\ d[2] \in DOMAIN led.res
    /\ \/ d[1] = "add" /\ led.res[d[2]].spec = d[3]
       \/ d[1] = "cancel" /\ led.res[d[2]].status = "cancelled"
       \/ d[1] = "mark" /\ d[3] \in led.res[d[2]].marks

AnnouncementsKept(led, new) ==
    \A i \in DOMAIN led.ann : led.ann[i].archived => i \in DOMAIN new.ann /\ new.ann[i] = led.ann[i]

\* What a transaction does: it keeps what there is, adds at most one reservation, which
\* is the one asked for, and holds what it claims to have done.
Sound(led, q, t) ==
    /\ t.led \in Ledgers
    /\ \A i \in DOMAIN led.res : i \in DOMAIN t.led.res /\ Follows(led.res[i], t.led.res[i])
    /\ \A i \in DOMAIN t.led.res \ DOMAIN led.res :
          /\ i = Len(led.res) + 1 /\ q.kind = "add" /\ ~Applied(led, q.uid, q.arg)
          /\ t.led.res[i] = Reservation(q.uid, q.arg, q.n)
    /\ \A d \in t.did : Holds(t.led, d)
    /\ AnnouncementsKept(led, t.led)

Plans == [res : Seq(Reservations), old : SUBSET (Uid \X Nat)]
Commands ==
    [pc : {"idle", "call", "wait", "verify", "drop", "clean", "sweep"}, n : Nat,
     kind : Kinds \cup {None}, arg : Operations \cup Nat \cup JobStatus, tries : Nat,
     others : Nat, plan : {{}} \cup Plans]
Handlings == [q : Messages, answer : Answer \cup {None}]

BrokerTypes ==
    /\ transport \in Transports /\ ledger \in Ledgers /\ file \in Ledgers
    /\ calls \in Nat /\ slots \in Nat
    /\ specs \subseteq Uid \X (0 .. calls)
    /\ backlog \in Seq(Messages) /\ handling \subseteq Handlings
    /\ client \in [Client -> Commands]

\* A request of the command n waits to be accepted, or is being handled.
SentIn(b, hs, n) == (\E k \in DOMAIN b : b[k].n = n) \/ (\E h \in hs : h.q.n = n)

\* The requests on their way, of the first n commands: at most one for each.
InOrder(b, hs, n) ==
    /\ \A k \in DOMAIN b : b[k].n \in 1 .. n /\ Meant(b[k])
    /\ \A h \in hs : h.q.n \in 1 .. n /\ Meant(h.q)
    /\ \A j, k \in DOMAIN b : b[j].n = b[k].n => j = k
    /\ \A g, h \in hs : g.q.n = h.q.n => g = h
    /\ \A k \in DOMAIN b, h \in hs : b[k].n # h.q.n

\* What a client that sends a request, or has sent one, wants.
Wants(me) ==
    /\ me.kind \in Kinds
    /\ me.kind = "add" => me.arg \in Operations
    /\ me.kind = "patch" => me.arg \in JobStatus

\* The clients run different commands, and one that is about to send has nothing on its way.
ClientsInOrder(cl, b, hs, n) ==
    /\ \A c \in Client : cl[c].pc # "idle" => cl[c].n \in 1 .. n
    /\ \A c \in Client : cl[c].pc \in {"call", "wait"} => Wants(cl[c])
    /\ \A c \in Client : cl[c].pc = "call" => ~SentIn(b, hs, cl[c].n)
    /\ \A c, d \in Client :
          cl[c].pc # "idle" /\ cl[d].pc # "idle" /\ cl[c].n = cl[d].n => c = d

\* The invariant the proofs share: each command has at most one request on its way, and
\* retries only when that one was answered.
BrokerInv ==
    /\ BrokerTypes
    /\ InOrder(backlog, handling, calls)
    /\ ClientsInOrder(client, backlog, handling, calls)

-----------------------------------------------------------------------------
(* Transactions.                                                           *)

\* A transaction without an effect is sound.
LEMMA NoEffect ==
    ASSUME NEW led \in Ledgers, NEW q, NEW t, t.led = led, t.did = {}
    PROVE  Sound(led, q, t)
<1>1. \A i \in DOMAIN led.res : Follows(led.res[i], led.res[i])
  BY Zenon DEF Follows
<1> QED
  BY <1>1, Zenon DEF Sound, AnnouncementsKept

\* add_booking.
LEMMA AddIsSound ==
    ASSUME NEW led \in Ledgers, NEW q \in Messages, Meant(q), q.kind = "add"
    PROVE  Sound(led, q, AddBooking(led, q))
<1> DEFINE new == Reservation(q.uid, q.arg, q.n)
           res == Append(led.res, new)
           t == AddBooking(led, q)
<1>1. new \in Reservations /\ new.spec = q.n
  BY Zenon DEF Reservation, Reservations, Messages, Meant
<1>2. CASE Applied(led, q.uid, q.arg) \/ Len(led.res) = MaxRes
  <2>1. t.led = led /\ t.did = {}
    BY <1>2, Zenon DEF AddBooking, Done, Refused
  <2> QED  BY <2>1, NoEffect, Zenon
<1>3. CASE ~Applied(led, q.uid, q.arg) /\ Len(led.res) # MaxRes
  <2>1. /\ t.led = [led EXCEPT !.res = res]
        /\ t.did = {<<"add", Len(led.res) + 1, q.n>>}
    BY <1>3, Zenon DEF AddBooking, Done
  <2>2. led.res \in Seq(Reservations)
    BY Zenon DEF Ledgers
  <2> HIDE DEF new, t
  <2>3. /\ res \in Seq(Reservations) /\ DOMAIN res = 1 .. Len(led.res) + 1
        /\ res[Len(led.res) + 1] = new /\ \A i \in DOMAIN led.res : res[i] = led.res[i]
        /\ DOMAIN led.res = 1 .. Len(led.res) /\ Len(led.res) \in Nat
    BY <1>1, <2>2
  <2> HIDE DEF res
  <2>4. t.led \in Ledgers /\ t.led.res = res /\ t.led.ann = led.ann
    BY <2>1, <2>3, Zenon DEF Ledgers
  <2>5. \A i \in DOMAIN led.res : i \in DOMAIN t.led.res /\ Follows(led.res[i], t.led.res[i])
    BY <2>3, <2>4 DEF Follows
  <2>6. \A i \in DOMAIN t.led.res \ DOMAIN led.res : i = Len(led.res) + 1 /\ t.led.res[i] = new
    BY <2>3, <2>4
  <2>7. \A d \in t.did : Holds(t.led, d)
    BY <1>1, <2>1, <2>3, <2>4 DEF Holds
  <2>8. AnnouncementsKept(led, t.led)
    BY <2>4, Zenon DEF AnnouncementsKept
  <2>9. Sound(led, q, t)
    BY <1>3, <2>4, <2>5, <2>6, <2>7, <2>8, Zenon DEF Sound, new
  <2> QED  BY <2>9, Zenon DEF t
<1> QED
  BY <1>2, <1>3, Zenon

\* A transaction that changes reservations in place.
LEMMA InPlace ==
    ASSUME NEW led \in Ledgers, NEW q, NEW t, NEW res \in Seq(Reservations),
           t.led = [led EXCEPT !.res = res], DOMAIN res = DOMAIN led.res,
           \A i \in DOMAIN led.res : Follows(led.res[i], res[i]),
           \A d \in t.did : Holds(t.led, d)
    PROVE  Sound(led, q, t)
<1>1. t.led \in Ledgers /\ t.led.res = res /\ t.led.ann = led.ann
  BY Zenon DEF Ledgers
<1> QED
  BY <1>1, Zenon DEF Sound, AnnouncementsKept

\* cancel_booking.
LEMMA CancelIsSound ==
    ASSUME NEW led \in Ledgers, NEW q \in Messages
    PROVE  Sound(led, q, CancelBooking(led, q))
<1> DEFINE i == q.arg
           t == CancelBooking(led, q)
<1>1. CASE ~(i \in DOMAIN led.res /\ led.res[i].status = "active"
             /\ (led.res[i].uid = q.uid \/ q.uid = Root))
  <2>1. t.led = led /\ t.did = {}
    BY <1>1, Zenon DEF CancelBooking, Refused
  <2> QED  BY <2>1, NoEffect, Zenon
<1>2. CASE i \in DOMAIN led.res /\ led.res[i].status = "active"
           /\ (led.res[i].uid = q.uid \/ q.uid = Root)
  <2>1. led.res \in Seq(Reservations) /\ led.res[i] \in Reservations
    BY <1>2 DEF Ledgers
  <2>2. PICK r : r = [led.res[i] EXCEPT !.status = "cancelled",
                                        !.job = IF @ = "pending" THEN "cancelled" ELSE @]
    BY Zenon
  <2>3. r \in Reservations /\ r.status = "cancelled" /\ Follows(led.res[i], r)
    BY <2>1, <2>2, Zenon DEF Reservations, Follows
  <2>4. PICK res : res = [led.res EXCEPT ![i] = r]
    BY Zenon
  <2>5. t.led = [led EXCEPT !.res = res] /\ t.did = {<<"cancel", i, q.n>>}
    BY <1>2, <2>1, <2>2, <2>4, ZenonT(30) DEF CancelBooking, Done, Reservations, Ledgers
  <2>6. /\ res \in Seq(Reservations) /\ DOMAIN res = DOMAIN led.res /\ res[i] = r
        /\ \A k \in DOMAIN led.res : k # i => res[k] = led.res[k]
    BY <1>2, <2>1, <2>3, <2>4
  <2>7. \A k \in DOMAIN led.res : Follows(led.res[k], res[k])
    BY <2>3, <2>6, Zenon DEF Follows
  <2>8. t.led.res = res
    BY <2>5, Zenon DEF Ledgers
  <2>9. \A d \in t.did : Holds(t.led, d)
    BY <1>2, <2>3, <2>5, <2>6, <2>8 DEF Holds
  <2> HIDE DEF t
  <2>10. Sound(led, q, t)
    BY <2>5, <2>6, <2>7, <2>9, InPlace, Zenon
  <2> QED  BY <2>10, Zenon DEF t
<1> QED
  BY <1>1, <1>2, Zenon

\* edit_booking.
LEMMA EditIsSound ==
    ASSUME NEW led \in Ledgers, NEW q \in Messages
    PROVE  Sound(led, q, EditBooking(led, q))
<1> DEFINE i == q.arg
           t == EditBooking(led, q)
<1>1. CASE ~(i \in DOMAIN led.res /\ led.res[i].status = "active" /\ led.res[i].uid = q.uid)
  <2>1. t.led = led /\ t.did = {}
    BY <1>1, Zenon DEF EditBooking, Refused
  <2> QED  BY <2>1, NoEffect, Zenon
<1>2. CASE i \in DOMAIN led.res /\ led.res[i].status = "active" /\ led.res[i].uid = q.uid
  <2>1. led.res \in Seq(Reservations) /\ led.res[i] \in Reservations /\ q.n \in Nat
    BY <1>2 DEF Ledgers, Messages
  <2>2. PICK r : r = [led.res[i] EXCEPT !.marks = @ \cup {q.n}]
    BY Zenon
  <2>3. r \in Reservations /\ q.n \in r.marks /\ Follows(led.res[i], r)
    BY <2>1, <2>2, Zenon DEF Reservations, Follows
  <2>4. PICK res : res = [led.res EXCEPT ![i] = r]
    BY Zenon
  <2>5. t.led = [led EXCEPT !.res = res] /\ t.did = {<<"mark", i, q.n>>}
    BY <1>2, <2>1, <2>2, <2>4, ZenonT(30) DEF EditBooking, Done, Reservations, Ledgers
  <2>6. /\ res \in Seq(Reservations) /\ DOMAIN res = DOMAIN led.res /\ res[i] = r
        /\ \A k \in DOMAIN led.res : k # i => res[k] = led.res[k]
    BY <1>2, <2>1, <2>3, <2>4
  <2>7. \A k \in DOMAIN led.res : Follows(led.res[k], res[k])
    BY <2>3, <2>6, Zenon DEF Follows
  <2>8. t.led.res = res
    BY <2>5, Zenon DEF Ledgers
  <2>9. \A d \in t.did : Holds(t.led, d)
    BY <1>2, <2>3, <2>5, <2>6, <2>8 DEF Holds
  <2> HIDE DEF t
  <2>10. Sound(led, q, t)
    BY <2>5, <2>6, <2>7, <2>9, InPlace, Zenon
  <2> QED  BY <2>10, Zenon DEF t
<1> QED
  BY <1>1, <1>2, Zenon

\* Publishing, archiving and editing announcements touch no archived one.
LEMMA NoticesAreSound ==
    ASSUME NEW led \in Ledgers, NEW q \in Messages, NEW t,
           t \in {Publish(led, q), Archive(led, q), EditAnnouncement(led, q)}
    PROVE  Sound(led, q, t)
<1>1. CASE t.led = led /\ t.did = {}
  BY <1>1, NoEffect, Zenon
<1>2. ASSUME NEW ann \in Seq(Notices), t.led = [led EXCEPT !.ann = ann], t.did = {},
             \A i \in DOMAIN led.ann : led.ann[i].archived => i \in DOMAIN ann /\ ann[i] = led.ann[i]
      PROVE  Sound(led, q, t)
  <2>1. t.led \in Ledgers /\ t.led.res = led.res /\ t.led.ann = ann
    BY <1>2, Zenon DEF Ledgers
  <2>2. \A i \in DOMAIN led.res : Follows(led.res[i], led.res[i])
    BY Zenon DEF Follows
  <2>3. AnnouncementsKept(led, t.led)
    BY <1>2, <2>1, Zenon DEF AnnouncementsKept
  <2> QED  BY <1>2, <2>1, <2>2, <2>3, Zenon DEF Sound
<1>3. led.ann \in Seq(Notices) /\ q.n \in Nat
  BY Zenon DEF Ledgers, Messages
<1>4. CASE t = Publish(led, q)
  <2>1. PICK x : x = [archived |-> FALSE, text |-> q.n]
    BY Zenon
  <2>2. x \in Notices
    BY <1>3, <2>1, Zenon DEF Notices
  <2>3. CASE q.uid # Root \/ Len(led.ann) >= MaxAnnouncements
    BY <1>1, <1>4, <2>3, Zenon DEF Publish, Refused
  <2>4. CASE ~(q.uid # Root \/ Len(led.ann) >= MaxAnnouncements)
    <3>1. t.led = [led EXCEPT !.ann = Append(led.ann, x)] /\ t.did = {}
      BY <1>4, <2>1, <2>4, Zenon DEF Publish, Done
    <3>2. /\ Append(led.ann, x) \in Seq(Notices)
          /\ \A i \in DOMAIN led.ann : i \in DOMAIN Append(led.ann, x)
                                       /\ Append(led.ann, x)[i] = led.ann[i]
      BY <1>3, <2>2
    <3> QED  BY <1>2, <3>1, <3>2, Zenon
  <2> QED  BY <2>3, <2>4, Zenon
<1>5. CASE t = Archive(led, q)
  <2>1. CASE q.uid # Root \/ q.arg \notin DOMAIN led.ann
    BY <1>1, <1>5, <2>1, Zenon DEF Archive, Refused
  <2>2. CASE ~(q.uid # Root \/ q.arg \notin DOMAIN led.ann)
    <3>1. PICK x : x = [led.ann[q.arg] EXCEPT !.archived = TRUE]
      BY Zenon
    <3>2. led.ann[q.arg] \in Notices
      BY <1>3, <2>2
    <3>3. x \in Notices /\ (led.ann[q.arg].archived => x = led.ann[q.arg])
      BY <3>1, <3>2, Zenon DEF Notices
    <3>4. t.led = [led EXCEPT !.ann = [led.ann EXCEPT ![q.arg] = x]] /\ t.did = {}
      BY <1>5, <2>2, <3>1, Zenon DEF Archive, Done
    <3>5. /\ [led.ann EXCEPT ![q.arg] = x] \in Seq(Notices)
          /\ \A i \in DOMAIN led.ann : led.ann[i].archived =>
                i \in DOMAIN [led.ann EXCEPT ![q.arg] = x]
                /\ [led.ann EXCEPT ![q.arg] = x][i] = led.ann[i]
      BY <1>3, <2>2, <3>3
    <3> QED  BY <1>2, <3>4, <3>5, Zenon
  <2> QED  BY <2>1, <2>2, Zenon
<1>6. CASE t = EditAnnouncement(led, q)
  <2>1. CASE q.uid # Root \/ q.arg \notin DOMAIN led.ann \/ led.ann[q.arg].archived
    BY <1>1, <1>6, <2>1, Zenon DEF EditAnnouncement, Refused
  <2>2. CASE ~(q.uid # Root \/ q.arg \notin DOMAIN led.ann \/ led.ann[q.arg].archived)
    <3>1. PICK x : x = [led.ann[q.arg] EXCEPT !.text = q.n]
      BY Zenon
    <3>2. led.ann[q.arg] \in Notices
      BY <1>3, <2>2
    <3>3. x \in Notices
      BY <1>3, <3>1, <3>2, Zenon DEF Notices
    <3>4. t.led = [led EXCEPT !.ann = [led.ann EXCEPT ![q.arg] = x]] /\ t.did = {}
      BY <1>6, <2>2, <3>1, Zenon DEF EditAnnouncement, Done
    <3>5. /\ [led.ann EXCEPT ![q.arg] = x] \in Seq(Notices)
          /\ \A i \in DOMAIN led.ann : led.ann[i].archived =>
                i \in DOMAIN [led.ann EXCEPT ![q.arg] = x]
                /\ [led.ann EXCEPT ![q.arg] = x][i] = led.ann[i]
      BY <1>3, <2>2, <3>3
    <3> QED  BY <1>2, <3>4, <3>5, Zenon
  <2> QED  BY <2>1, <2>2, Zenon
<1> QED
  BY <1>4, <1>5, <1>6, Zenon

\* A job transaction is applied to the ledger it was computed from, or not at all.
LEMMA PatchIsSound ==
    ASSUME NEW led \in Ledgers, NEW q \in Messages, Meant(q), q.kind = "patch"
    PROVE  Sound(led, q, JobPatch(led, q))
<1> DEFINE ch == q.arg.changes
           res == [i \in DOMAIN led.res |-> IF i \in DOMAIN ch THEN ch[i] ELSE led.res[i]]
           proposed == [led EXCEPT !.res = res]
           t == JobPatch(led, q)
<1>1. CASE led # q.arg.base \/ ~ValidOwnMutation(led, proposed, q.uid)
  <2>1. t.led = led /\ t.did = {}
    BY <1>1, Zenon DEF JobPatch, Done, Refused
  <2> QED  BY <2>1, NoEffect, Zenon
<1>2. CASE led = q.arg.base /\ ValidOwnMutation(led, proposed, q.uid)
  <2>1. t.led = proposed /\ t.did = {<<"mark", i, q.n>> : i \in DOMAIN ch}
    BY <1>2, Zenon DEF JobPatch, Done
  <2>2. \A i \in DOMAIN ch : i \in DOMAIN led.res /\ led.res[i].job = "pending"
                             /\ \E status \in JobStatus : ch[i] = Mutated(led.res[i], q.n, status)
    BY <1>2, Zenon DEF Meant
  <2>3. led.res \in Seq(Reservations) /\ q.n \in Nat
    BY Zenon DEF Ledgers, Messages
  <2>4. ASSUME NEW r \in Reservations, NEW status \in JobStatus
        PROVE  LET s == Mutated(r, q.n, status) IN
               /\ s \in Reservations /\ q.n \in s.marks
               /\ s.uid = r.uid /\ s.op = r.op /\ s.spec = r.spec /\ s.status = r.status
               /\ r.marks \subseteq s.marks /\ s.job = status
    BY <2>3, Zenon DEF Mutated, Reservations, JobStatus
  <2>5. \A i \in DOMAIN ch : ch[i] \in Reservations /\ q.n \in ch[i].marks
                             /\ Follows(led.res[i], ch[i])
    <3> SUFFICES ASSUME NEW i \in DOMAIN ch
                 PROVE  ch[i] \in Reservations /\ q.n \in ch[i].marks /\ Follows(led.res[i], ch[i])
      BY Zenon
    <3>1. PICK status \in JobStatus : ch[i] = Mutated(led.res[i], q.n, status)
      BY <2>2, Zenon
    <3>2. led.res[i] \in Reservations /\ led.res[i].job = "pending"
      BY <2>2, <2>3
    <3> QED  BY <2>4, <3>1, <3>2 DEF Follows
  <2> HIDE DEF ch
  <2>6. /\ res \in Seq(Reservations) /\ DOMAIN res = DOMAIN led.res
        /\ \A i \in DOMAIN led.res : res[i] = IF i \in DOMAIN ch THEN ch[i] ELSE led.res[i]
    <3>1. \A i \in DOMAIN led.res : res[i] \in Reservations
      BY <2>3, <2>5
    <3>2. DOMAIN led.res = 1 .. Len(led.res) /\ Len(led.res) \in Nat
      BY <2>3
    <3>3. DOMAIN res = DOMAIN led.res
          /\ \A i \in DOMAIN led.res : res[i] = IF i \in DOMAIN ch THEN ch[i] ELSE led.res[i]
      BY Zenon
    <3>4. res = [i \in 1 .. Len(led.res) |-> res[i]]
      BY <3>2, Zenon
    <3> HIDE DEF res
    <3>5. res \in [1 .. Len(led.res) -> Reservations]
      BY <3>1, <3>2, <3>4, Zenon
    <3>6. res \in Seq(Reservations)
      BY <3>2, <3>5
    <3> QED  BY <3>3, <3>6, Zenon
  <2> HIDE DEF res
  <2>7. \A i \in DOMAIN led.res : Follows(led.res[i], res[i])
    <3>1. \A i \in DOMAIN led.res : Follows(led.res[i], led.res[i])
      BY Zenon DEF Follows
    <3> QED  BY <2>5, <2>6, <3>1, Zenon
  <2>8. t.led.res = res
    BY <2>1, Zenon DEF Ledgers
  <2>9. \A d \in t.did : Holds(t.led, d)
    BY <2>1, <2>2, <2>5, <2>6, <2>8 DEF Holds
  <2> HIDE DEF t
  <2>10. Sound(led, q, t)
    BY <2>1, <2>6, <2>7, <2>9, InPlace, Zenon
  <2> QED  BY <2>10, Zenon DEF t
<1> QED
  BY <1>1, <1>2, Zenon

\* Every request that the broker dispatches, or a local store runs, is sound.
LEMMA DispatchIsSound ==
    ASSUME NEW led \in Ledgers, NEW q \in Messages, Meant(q)
    PROVE  Sound(led, q, Dispatch(led, q))
<1>1. q.kind \in Kinds
  BY Zenon DEF Messages
<1>2. CASE q.kind = "add"
  BY <1>2, AddIsSound, Zenon DEF Dispatch
<1>3. CASE q.kind = "cancel"
  BY <1>3, CancelIsSound, Zenon DEF Dispatch
<1>4. CASE q.kind = "patch"
  BY <1>4, PatchIsSound, Zenon DEF Dispatch
<1>5. CASE q.kind \in {"publish", "archive", "edit"}
  <2>1. Dispatch(led, q) \in {Publish(led, q), Archive(led, q), EditAnnouncement(led, q)}
    BY <1>5, Zenon DEF Dispatch
  <2> QED  BY <2>1, NoticesAreSound, Zenon
<1>6. CASE q.kind = "change"
  BY <1>6, EditIsSound, Zenon DEF Dispatch
<1>7. CASE q.kind = "snapshot"
  <2>1. Dispatch(led, q).led = led /\ Dispatch(led, q).did = {}
    BY <1>7, Zenon DEF Dispatch, Done
  <2> QED  BY <2>1, NoEffect, Zenon
<1> QED
  BY <1>1, <1>2, <1>3, <1>4, <1>5, <1>6, <1>7, Zenon DEF Kinds

\* The name of a spec is the number of the command that wrote it.
LEMMA SpecIsNat ==
    ASSUME NEW led \in Ledgers
    PROVE  \A i \in DOMAIN led.res : led.res[i].spec \in Nat
<1>1. PICK s : s = led.res /\ s \in Seq(Reservations)
  BY Zenon DEF Ledgers
<1>2. \A i \in DOMAIN s : s[i] \in Reservations
  BY <1>1
<1> QED  BY <1>1, <1>2, Zenon DEF Reservations

\* What a transaction answers; a patch that was not committed changes nothing, and was not
\* computed from the ledger there is.
LEMMA DispatchAnswers ==
    ASSUME NEW led \in Ledgers, NEW q \in Messages, Meant(q)
    PROVE  LET t == Dispatch(led, q) IN
           /\ [ok |-> t.ok, out |-> t.out] \in Answer
           /\ q.kind = "patch" /\ t.ok /\ t.out = "not committed" =>
                 t.led = led /\ led # q.arg.base
<1> DEFINE t == Dispatch(led, q)
           outs == Nat \cup {None, "committed", "not committed"}
<1>1. q.kind \in Kinds /\ q.n \in Nat
  BY Zenon DEF Messages
<1>2. ASSUME NEW x \in BOOLEAN, NEW o \in outs
      PROVE  [ok |-> x, out |-> o] \in Answer
  BY <1>2, Zenon DEF Answer
<1>3. CASE q.kind = "add"
  <2>1. CASE Applied(led, q.uid, q.arg)
    <3> DEFINE old == CHOOSE i \in Created(led, q.uid, q.arg) : TRUE
    <3>1. old \in DOMAIN led.res
      BY <2>1, Zenon DEF Applied, Created
    <3>2. \A i \in DOMAIN led.res : led.res[i].spec \in Nat
      BY SpecIsNat, Zenon
    <3>3. t = Done(led, led.res[old].spec, {})
      BY <1>3, <2>1, Zenon DEF Dispatch, AddBooking
    <3> HIDE DEF old, t
    <3>4. t.ok = TRUE /\ t.out \in outs
      BY <3>1, <3>2, <3>3, Zenon DEF Done
    <3> USE DEF t
    <3> QED  BY <1>2, <1>3, <3>4, Zenon
  <2>2. CASE ~Applied(led, q.uid, q.arg)
    <3>1. \/ t.ok = FALSE /\ t.out = None
          \/ t.ok = TRUE /\ t.out = q.n
      BY <1>3, <2>2, Zenon DEF Dispatch, AddBooking, Done, Refused
    <3> QED  BY <1>1, <1>2, <1>3, <3>1, Zenon
  <2> QED  BY <2>1, <2>2, Zenon
<1>4. CASE q.kind \in {"cancel", "change", "snapshot", "publish", "archive", "edit"}
  <2>1. t.ok \in BOOLEAN /\ t.out = None
    BY <1>4, ZenonT(30) DEF Dispatch, CancelBooking, EditBooking, Publish, Archive, EditAnnouncement,
                            Done, Refused
  <2> QED  BY <1>2, <1>4, <2>1, Zenon
<1>5. CASE q.kind = "patch"
  <2>1. \/ t.ok = FALSE /\ t.out = None
        \/ t.ok = TRUE /\ t.out = "committed"
        \/ t.ok = TRUE /\ t.out = "not committed" /\ t.led = led /\ led # q.arg.base
    BY <1>5, Zenon DEF Dispatch, JobPatch, Done, Refused
  <2> QED  BY <1>2, <2>1, Zenon
<1> QED
  BY <1>1, <1>3, <1>4, <1>5, Zenon DEF Kinds

-----------------------------------------------------------------------------
(* Requests on their way.                                                  *)

\* A request is accepted, or refused for want of a slot.
LEMMA AcceptInOrder ==
    ASSUME NEW b \in Seq(Messages), NEW hs \in SUBSET Handlings, NEW n \in Nat,
           b # <<>>, InOrder(b, hs, n)
    PROVE  LET h == [q |-> Head(b), answer |-> None]  new == hs \cup {h} IN
           /\ Tail(b) \in Seq(Messages) /\ h \in Handlings /\ h \notin hs
           /\ InOrder(Tail(b), hs, n) /\ InOrder(Tail(b), new, n)
           /\ \A m : SentIn(Tail(b), hs, m) \/ SentIn(Tail(b), new, m) => SentIn(b, hs, m)
<1>1. PICK q : q = b[1]
  BY Zenon
<1>2. /\ q \in Messages /\ Head(b) = q /\ 1 \in DOMAIN b
      /\ Tail(b) \in Seq(Messages)
      /\ \A k \in DOMAIN Tail(b) : k \in Nat /\ k + 1 \in DOMAIN b /\ k + 1 # 1 /\ Tail(b)[k] = b[k + 1]
  BY <1>1
<1>3. PICK h : h = [q |-> q, answer |-> None]
  BY Zenon
<1>4. h \in Handlings /\ h.q = q
  BY <1>2, <1>3, Zenon DEF Handlings
<1>5. /\ \A k \in DOMAIN Tail(b) : Tail(b)[k].n \in 1 .. n /\ Meant(Tail(b)[k])
      /\ \A k \in DOMAIN Tail(b) : Tail(b)[k].n # q.n
      /\ \A k \in DOMAIN Tail(b), g \in hs : Tail(b)[k].n # g.q.n
      /\ q.n \in 1 .. n /\ Meant(q) /\ \A g \in hs : g.q.n # q.n
  BY <1>1, <1>2 DEF InOrder
<1>6. \A j, k \in DOMAIN Tail(b) : Tail(b)[j].n = Tail(b)[k].n => j = k
  BY <1>2 DEF InOrder
<1>7. InOrder(Tail(b), hs, n)
  BY <1>5, <1>6, Zenon DEF InOrder
<1>8. InOrder(Tail(b), hs \cup {h}, n)
  BY <1>4, <1>5, <1>6, Zenon DEF InOrder
<1>9. \A m : SentIn(Tail(b), hs, m) \/ SentIn(Tail(b), hs \cup {h}, m) => SentIn(b, hs, m)
  BY <1>1, <1>2, <1>4, Zenon DEF SentIn
<1>10. h \notin hs
  BY <1>4, <1>5, Zenon
<1> QED
  BY <1>2, <1>3, <1>4, <1>7, <1>8, <1>9, <1>10, Zenon

\* A request is answered.
LEMMA AnswerInOrder ==
    ASSUME NEW b \in Seq(Messages), NEW hs \in SUBSET Handlings, NEW n \in Nat,
           NEW h \in hs, NEW a \in Answer, InOrder(b, hs, n)
    PROVE  LET g == [h EXCEPT !.answer = a]  new == (hs \ {h}) \cup {g} IN
           /\ g \in Handlings /\ g.q = h.q /\ g.answer = a /\ g \notin hs \ {h}
           /\ InOrder(b, new, n) /\ \A m : SentIn(b, new, m) => SentIn(b, hs, m)
<1>1. PICK g : g = [h EXCEPT !.answer = a]
  BY Zenon
<1>2. g \in Handlings /\ g.q = h.q /\ g.answer = a
  BY <1>1, Zenon DEF Handlings
<1>3. InOrder(b, (hs \ {h}) \cup {g}, n)
  BY <1>2, Zenon DEF InOrder
<1>4. \A m : SentIn(b, (hs \ {h}) \cup {g}, m) => SentIn(b, hs, m)
  BY <1>2, Zenon DEF SentIn
<1>5. g \notin hs \ {h}
  BY <1>2, Zenon DEF InOrder
<1> QED
  BY <1>1, <1>2, <1>3, <1>4, <1>5, Zenon

\* Requests are dropped, or one is replied to: then its command has none on its way.
LEMMA DropInOrder ==
    ASSUME NEW b \in Seq(Messages), NEW hs \in SUBSET Handlings, NEW n \in Nat, InOrder(b, hs, n)
    PROVE  /\ \A part \in SUBSET hs : /\ InOrder(<<>>, part, n)
                                       /\ \A m : SentIn(<<>>, part, m) => SentIn(b, hs, m)
           /\ \A h \in hs : /\ InOrder(b, hs \ {h}, n) /\ ~SentIn(b, hs \ {h}, h.q.n)
                            /\ \A m : SentIn(b, hs \ {h}, m) => SentIn(b, hs, m)
<1>1. \A k \in DOMAIN <<>> : FALSE
  OBVIOUS
<1>2. ASSUME NEW part \in SUBSET hs PROVE InOrder(<<>>, part, n)
  BY <1>1, Zenon DEF InOrder
<1>3. ASSUME NEW part \in SUBSET hs, NEW m, SentIn(<<>>, part, m) PROVE SentIn(b, hs, m)
  BY <1>1, <1>3, Zenon DEF SentIn
<1>4. ASSUME NEW h \in hs
      PROVE  /\ InOrder(b, hs \ {h}, n) /\ ~SentIn(b, hs \ {h}, h.q.n)
             /\ \A m : SentIn(b, hs \ {h}, m) => SentIn(b, hs, m)
  BY Zenon DEF InOrder, SentIn
<1> QED
  BY <1>2, <1>3, <1>4, Zenon

\* A client sends its only request.
LEMMA SendInOrder ==
    ASSUME NEW b \in Seq(Messages), NEW hs \in SUBSET Handlings, NEW n \in Nat, InOrder(b, hs, n),
           NEW q \in Messages, q.n \in 1 .. n, Meant(q), ~SentIn(b, hs, q.n)
    PROVE  /\ Append(b, q) \in Seq(Messages) /\ InOrder(Append(b, q), hs, n)
           /\ \A m : SentIn(Append(b, q), hs, m) => SentIn(b, hs, m) \/ m = q.n
<1>1. PICK new : new = Append(b, q)
  BY Zenon
<1>2. /\ new \in Seq(Messages) /\ DOMAIN new = 1 .. Len(b) + 1 /\ DOMAIN b = 1 .. Len(b)
      /\ Len(b) \in Nat /\ new[Len(b) + 1] = q /\ \A k \in DOMAIN b : new[k] = b[k]
  BY <1>1
<1>3. \A k \in DOMAIN new : (k \in DOMAIN b /\ new[k] = b[k]) \/ (k = Len(b) + 1 /\ new[k] = q)
  BY <1>2
<1>4. (\A k \in DOMAIN b : b[k].n # q.n) /\ (\A h \in hs : h.q.n # q.n)
  BY Zenon DEF SentIn
<1>5. /\ \A k \in DOMAIN new : new[k].n \in 1 .. n /\ Meant(new[k])
      /\ \A j, k \in DOMAIN new : new[j].n = new[k].n => j = k
      /\ \A k \in DOMAIN new, h \in hs : new[k].n # h.q.n
  BY <1>3, <1>4 DEF InOrder
<1>6. InOrder(new, hs, n)
  BY <1>5, Zenon DEF InOrder
<1>7. \A m : SentIn(new, hs, m) => SentIn(b, hs, m) \/ m = q.n
  BY <1>3, Zenon DEF SentIn
<1> QED
  BY <1>1, <1>2, <1>6, <1>7, Zenon

-----------------------------------------------------------------------------
(* Clients.                                                                *)

\* A client without a command.
LEMMA IdleIsCommand == Idle \in Commands /\ Idle.pc = "idle"
BY Zenon DEF Idle, Commands, Operations

\* What a client that moves on from me to m keeps: it goes on with its command or begins
\* the next one, n counts the commands, and the requests on their way are its own or old.
Continues(me, m, n, n2) ==
    /\ n2 \in {n, n + 1}
    /\ m.pc # "idle" => (me.pc # "idle" /\ m.n = me.n) \/ (n2 = n + 1 /\ m.n = n2)
NothingNew(b, hs, b2, hs2, me) ==
    \A x : SentIn(b2, hs2, x) => SentIn(b, hs, x) \/ (me.pc # "idle" /\ x = me.n)
MaySend(m, b, hs) ==
    /\ m.pc \in {"call", "wait"} => Wants(m)
    /\ m.pc = "call" => ~SentIn(b, hs, m.n)

\* One client moves on: with its command, or with the next one.
LEMMA OneMoves ==
    ASSUME NEW cl \in [Client -> Commands], NEW b, NEW hs, NEW n \in Nat, NEW b2, NEW hs2,
           NEW n2, NEW c \in Client, NEW m \in Commands, ClientsInOrder(cl, b, hs, n),
           NothingNew(b, hs, b2, hs2, cl[c]), Continues(cl[c], m, n, n2), MaySend(m, b2, hs2)
    PROVE  /\ [cl EXCEPT ![c] = m] \in [Client -> Commands]
           /\ ClientsInOrder([cl EXCEPT ![c] = m], b2, hs2, n2)
<1>1. PICK new : new = [cl EXCEPT ![c] = m]
  BY Zenon
<1>2. new \in [Client -> Commands] /\ new[c] = m /\ \A d \in Client \ {c} : new[d] = cl[d]
  BY <1>1, Zenon
<1>3. \A d \in Client : new[d].pc # "idle" => new[d].n \in 1 .. n2
  BY <1>2 DEF ClientsInOrder, Continues
<1>4. \A d \in Client \ {c} : new[d].pc # "idle" /\ m.pc # "idle" => new[d].n # m.n
  BY <1>2 DEF ClientsInOrder, Continues
<1>5. \A d, e \in Client : new[d].pc # "idle" /\ new[e].pc # "idle" /\ new[d].n = new[e].n => d = e
  BY <1>2, <1>4 DEF ClientsInOrder
<1>6. \A d \in Client : new[d].pc = "call" => ~SentIn(b2, hs2, new[d].n)
  <2>1. \A d \in Client \ {c} : cl[d].pc = "call" => ~SentIn(b2, hs2, cl[d].n)
    BY Zenon DEF ClientsInOrder, NothingNew
  <2> QED  BY <1>2, <2>1, Zenon DEF MaySend
<1>7. \A d \in Client : new[d].pc \in {"call", "wait"} => Wants(new[d])
  BY <1>2, Zenon DEF ClientsInOrder, MaySend
<1> QED
  BY <1>1, <1>2, <1>3, <1>5, <1>6, <1>7, Zenon DEF ClientsInOrder

\* Clients that only count the commits of others.
LEMMA CountersMove ==
    ASSUME NEW cl \in [Client -> Commands], NEW b, NEW hs, NEW n \in Nat, NEW b2, NEW hs2,
           NEW new \in [Client -> Commands], ClientsInOrder(cl, b, hs, n),
           \A c \in Client : /\ new[c].pc = cl[c].pc /\ new[c].n = cl[c].n
                             /\ new[c].kind = cl[c].kind /\ new[c].arg = cl[c].arg,
           \A x : SentIn(b2, hs2, x) => SentIn(b, hs, x)
    PROVE  ClientsInOrder(new, b2, hs2, n)
BY DEF ClientsInOrder, Wants

\* Overtaken changes one counter, and not that of the client that commits.
LEMMA OvertakenFields ==
    ASSUME client \in [Client -> Commands], NEW t, NEW n, NEW c \in Client
    PROVE  LET me == client[c]  new == Overtaken(t, n)[c] IN
           /\ new \in Commands /\ new.pc = me.pc /\ new.n = me.n /\ new.kind = me.kind
           /\ new.arg = me.arg /\ new.tries = me.tries /\ new.plan = me.plan
           /\ new.others = IF t.led # ledger /\ me.kind = "patch" /\ me.n # n /\ me.others < MaxTries
                           THEN me.others + 1 ELSE me.others
<1>1. PICK me : me = client[c]
  BY Zenon
<1>2. me \in Commands
  BY <1>1, Zenon
<1>3. PICK new : new = Overtaken(t, n)[c]
  BY Zenon
<1>4. new = IF t.led # ledger /\ me.kind = "patch" /\ me.n # n
            THEN [me EXCEPT !.others = IF @ < MaxTries THEN @ + 1 ELSE @] ELSE me
  BY <1>1, <1>3, Zenon DEF Overtaken
<1>5. /\ new \in Commands /\ new.pc = me.pc /\ new.n = me.n /\ new.kind = me.kind
      /\ new.arg = me.arg /\ new.tries = me.tries /\ new.plan = me.plan
      /\ new.others = IF t.led # ledger /\ me.kind = "patch" /\ me.n # n /\ me.others < MaxTries
                      THEN me.others + 1 ELSE me.others
  BY <1>2, <1>4 DEF Commands
<1> QED
  BY <1>1, <1>3, <1>5, Zenon

\* The step after an answer keeps the command, or ends it.
LEMMA AfterFields ==
    ASSUME client \in [Client -> Commands], NEW c \in Client, NEW a
    PROVE  LET me == client[c]  new == After(c, a) IN
           /\ new \in Commands /\ new.pc \in {"idle", "verify", "clean", "call"}
           /\ new.pc # "idle" => /\ new.n = me.n /\ new.kind = me.kind /\ new.arg = me.arg
                                 /\ new.tries = me.tries /\ new.others = me.others
           /\ new.pc = "call" => NotCommitted(c, a) /\ ~GivesUp(c, a)
<1>1. PICK me : me = client[c]
  BY Zenon
<1>2. me \in Commands
  BY <1>1, Zenon
<1>3. ASSUME NEW p \in {"verify", "clean", "call"}
      PROVE  LET new == [me EXCEPT !.pc = p] IN
             /\ new \in Commands /\ new.pc = p /\ new.n = me.n /\ new.kind = me.kind
             /\ new.arg = me.arg /\ new.tries = me.tries /\ new.others = me.others
  BY <1>2, <1>3, Zenon DEF Commands
<1>4. PICK new : new = After(c, a)
  BY Zenon
<1>5. \/ new = Idle
      \/ new = [me EXCEPT !.pc = "verify"]
      \/ new = [me EXCEPT !.pc = "clean"]
      \/ new = [me EXCEPT !.pc = "call"] /\ NotCommitted(c, a) /\ ~GivesUp(c, a)
  BY <1>1, <1>4, Zenon DEF After
<1>6. /\ new \in Commands /\ new.pc \in {"idle", "verify", "clean", "call"}
      /\ new.pc # "idle" => /\ new.n = me.n /\ new.kind = me.kind /\ new.arg = me.arg
                            /\ new.tries = me.tries /\ new.others = me.others
      /\ new.pc = "call" => NotCommitted(c, a) /\ ~GivesUp(c, a)
  BY <1>3, <1>5, IdleIsCommand, Zenon
<1> QED
  BY <1>1, <1>4, <1>6, Zenon

\* What a client is about to send.
LEMMA RequestIsMeant ==
    ASSUME BrokerInv, NEW c \in Client, client[c].pc = "call"
    PROVE  /\ Request(c) \in Messages /\ Meant(Request(c))
           /\ Request(c).n = client[c].n /\ Request(c).uid = UidOf[c]
           /\ Request(c).kind = client[c].kind /\ Request(c).from = c
           /\ Request(c).try = client[c].tries + 1
           /\ client[c].kind # "patch" => Request(c).arg = client[c].arg
           /\ client[c].kind = "patch" => Request(c).arg.base = Loaded
           /\ Request(c).n \in 1 .. calls /\ ~SentIn(backlog, handling, Request(c).n)
<1>1. PICK me : me = client[c]
  BY Zenon
<1>2. /\ me \in Commands /\ Wants(me) /\ me.n \in 1 .. calls /\ ~SentIn(backlog, handling, me.n)
      /\ Loaded \in Ledgers /\ UidOf[c] \in Uid
  BY <1>1, BrokerAssumption, Zenon DEF BrokerInv, BrokerTypes, ClientsInOrder, Loaded
<1>3. PICK arg : arg = Payload(c)
  BY Zenon
<1>4. PICK q : q = Request(c)
  BY Zenon
<1>5. q = [from |-> c, uid |-> UidOf[c], n |-> me.n, kind |-> me.kind, try |-> me.tries + 1, arg |-> arg]
  BY <1>1, <1>3, <1>4, Zenon DEF Request
<1>6. ASSUME arg \in Operations \cup Nat \cup JobStatus \cup Patches
      PROVE  q \in Messages
  BY <1>2, <1>5, <1>6 DEF Messages, Commands, Wants
<1>7. /\ q.n = me.n /\ q.uid = UidOf[c] /\ q.kind = me.kind /\ q.try = me.tries + 1 /\ q.arg = arg
      /\ q.from = c
  BY <1>5, Zenon
<1>8. CASE me.kind # "patch"
  <2>1. arg = me.arg
    BY <1>1, <1>3, <1>8, Zenon DEF Payload
  <2>2. q \in Messages /\ Meant(q)
    BY <1>2, <1>6, <1>7, <1>8, <2>1, Zenon DEF Commands, Wants, Meant
  <2> QED  BY <1>1, <1>2, <1>4, <1>7, <1>8, <2>1, <2>2, Zenon
<1>9. CASE me.kind = "patch"
  <2>1. PICK led : led = Loaded
    BY Zenon
  <2>2. PICK ch : ch = Changes(led, c)
    BY Zenon
  <2>3. arg = [base |-> led, changes |-> ch]
    BY <1>1, <1>3, <1>9, <2>1, <2>2, Zenon DEF Payload
  <2> DEFINE D == {k \in DOMAIN led.res : led.res[k].uid = UidOf[c] /\ led.res[k].job = "pending"}
  <2>4. ch = [i \in D |-> Mutated(led.res[i], me.n, me.arg)]
    BY <1>1, <2>2, Zenon DEF Changes
  <2>5. led.res \in Seq(Reservations) /\ me.n \in Nat /\ me.arg \in JobStatus
    BY <1>2, <1>9, <2>1 DEF Ledgers, Wants
  <2>6. \A r \in Reservations : Mutated(r, me.n, me.arg) \in Reservations
    BY <2>5, Zenon DEF Mutated, Reservations, JobStatus
  <2>7. D \in SUBSET Nat /\ \A i \in D : led.res[i] \in Reservations
    BY <2>5
  <2>8. \A i \in D : i \in DOMAIN led.res /\ led.res[i].job = "pending"
    BY Zenon
  <2> HIDE DEF D
  <2>9. ch \in [D -> Reservations] /\ DOMAIN ch = D
    BY <2>4, <2>6, <2>7, Zenon
  <2>10. ch \in UNION {[E -> Reservations] : E \in SUBSET Nat}
    BY <2>7, <2>9, Zenon
  <2>11. arg \in Patches /\ arg.base = led /\ arg.changes = ch
    BY <1>2, <2>1, <2>3, <2>10, Zenon DEF Patches
  <2>12. \A i \in DOMAIN ch : /\ i \in DOMAIN led.res /\ led.res[i].job = "pending"
                              /\ \E s \in JobStatus : ch[i] = Mutated(led.res[i], me.n, s)
    BY <2>4, <2>5, <2>8, <2>9, Zenon
  <2>13. Meant(q)
    BY <1>7, <1>9, <2>11, <2>12, Zenon DEF Meant
  <2> QED  BY <1>1, <1>2, <1>4, <1>6, <1>7, <1>9, <2>1, <2>11, <2>13, Zenon
<1> QED
  BY <1>8, <1>9, Zenon

\* What a transaction leaves in ledger.json.
LEMMA TransactTypes ==
    ASSUME BrokerInv, NEW q \in Messages, Meant(q), Transact(Dispatch(ledger, q))
    PROVE  ledger' \in Ledgers /\ file' \in Ledgers
<1>1. Dispatch(ledger, q).led \in Ledgers
  BY DispatchIsSound, Zenon DEF BrokerInv, BrokerTypes, Sound
<1> QED  BY <1>1, Zenon DEF Transact, BrokerInv, BrokerTypes

\* The broker starts, accepts, stops, closes or is killed.
LEMMA ServerKeepsInv ==
    ASSUME BrokerInv, Start \/ Accept \/ Stop \/ Close \/ Kill
    PROVE  BrokerInv'
<1>1. /\ UNCHANGED <<transport, ledger, specs, client, calls>> /\ file' \in {file, ledger}
  BY Zenon DEF Start, Accept, Stop, Close, Kill, storage
<1>2. /\ backlog \in Seq(Messages) /\ handling \in SUBSET Handlings /\ calls \in Nat
      /\ InOrder(backlog, handling, calls) /\ slots \in Nat
  BY Zenon DEF BrokerInv, BrokerTypes
<1>3. /\ backlog' \in Seq(Messages) /\ handling' \subseteq Handlings /\ slots' \in Nat
      /\ InOrder(backlog', handling', calls)
      /\ \A m : SentIn(backlog', handling', m) => SentIn(backlog, handling, m)
  <2>1. CASE Start \/ Kill
    <3>1. backlog' = <<>> /\ handling' = {} /\ slots' \in Nat
      BY <1>2, <2>1, BrokerAssumption, Zenon DEF Start, Kill
    <3>2. InOrder(<<>>, {}, calls) /\ \A m : SentIn(<<>>, {}, m) => SentIn(backlog, handling, m)
      BY <1>2, DropInOrder, Zenon
    <3> QED  BY <3>1, <3>2
  <2>2. CASE Stop
    <3>1. backlog' = <<>> /\ handling' \in SUBSET handling /\ slots' \in Nat
      BY <1>2, <2>2, Zenon DEF Stop
    <3>2. /\ InOrder(<<>>, handling', calls)
          /\ \A m : SentIn(<<>>, handling', m) => SentIn(backlog, handling, m)
      BY <1>2, <3>1, DropInOrder, Zenon
    <3> QED  BY <1>2, <3>1, <3>2
  <2>3. CASE Close
    BY <1>2, <2>3, Zenon DEF Close
  <2>4. CASE Accept
    <3>1. PICK h : h = [q |-> Head(backlog), answer |-> None]
      BY Zenon
    <3>2. /\ backlog # <<>> /\ backlog' = Tail(backlog) /\ slots' \in Nat
          /\ handling' \in {handling, handling \cup {h}}
      BY <1>2, <2>4, <3>1 DEF Accept
    <3>3. /\ Tail(backlog) \in Seq(Messages) /\ h \in Handlings
          /\ InOrder(Tail(backlog), handling, calls) /\ InOrder(Tail(backlog), handling \cup {h}, calls)
          /\ \A m : SentIn(Tail(backlog), handling, m) \/ SentIn(Tail(backlog), handling \cup {h}, m)
                    => SentIn(backlog, handling, m)
      BY <1>2, <3>1, <3>2, AcceptInOrder, Zenon
    <3> QED  BY <1>2, <3>2, <3>3, Zenon
  <2> QED  BY <2>1, <2>2, <2>3, <2>4, Zenon
<1>4. BrokerTypes'
  BY <1>1, <1>3, Zenon DEF BrokerInv, BrokerTypes
<1>5. ClientsInOrder(client, backlog', handling', calls)
  BY <1>2, <1>3, CountersMove, Zenon DEF BrokerInv, BrokerTypes
<1> QED
  BY <1>1, <1>3, <1>4, <1>5, Zenon DEF BrokerInv

\* A request is handled.
LEMMA HandleKeepsInv ==
    ASSUME BrokerInv, NEW h \in handling, Handle(h)
    PROVE  BrokerInv'
<1>1. /\ backlog \in Seq(Messages) /\ handling \in SUBSET Handlings /\ calls \in Nat
      /\ InOrder(backlog, handling, calls) /\ client \in [Client -> Commands]
      /\ h.q \in Messages /\ Meant(h.q) /\ ledger \in Ledgers
  BY Zenon DEF BrokerInv, BrokerTypes, InOrder, Handlings
<1>2. /\ UNCHANGED <<transport, specs, slots, backlog, calls>>
      /\ \E a \in Answer : Answered(h, a)
      /\ ledger' \in Ledgers /\ file' \in Ledgers
      /\ client' = client \/ \E t : client' = Overtaken(t, h.q.n)
  <2>1. CASE /\ Transact(Dispatch(ledger, h.q))
             /\ Answered(h, [ok |-> Dispatch(ledger, h.q).ok, out |-> Dispatch(ledger, h.q).out])
             /\ client' = Overtaken(Dispatch(ledger, h.q), h.q.n)
    BY <1>1, <2>1, DispatchAnswers, TransactTypes, Zenon DEF Handle
  <2>2. CASE Answered(h, [ok |-> FALSE, out |-> None]) /\ UNCHANGED <<storage, client>>
    <3>1. [ok |-> FALSE, out |-> None] \in Answer
      BY Zenon DEF Answer
    <3> QED  BY <2>2, <3>1, Zenon DEF Handle, storage, BrokerInv, BrokerTypes
  <2> QED  BY <2>1, <2>2, Zenon DEF Handle
<1>3. PICK a \in Answer : Answered(h, a)
  BY <1>2, Zenon
<1>4. /\ handling' \subseteq Handlings /\ InOrder(backlog, handling', calls)
      /\ \A m : SentIn(backlog, handling', m) => SentIn(backlog, handling, m)
  <2>1. PICK g : g = [h EXCEPT !.answer = a]
    BY Zenon
  <2>2. handling' = (handling \ {h}) \cup {g}
    BY <1>3, <2>1, Zenon DEF Answered
  <2>3. /\ g \in Handlings /\ InOrder(backlog, (handling \ {h}) \cup {g}, calls)
        /\ \A m : SentIn(backlog, (handling \ {h}) \cup {g}, m) => SentIn(backlog, handling, m)
    BY <1>1, <2>1, AnswerInOrder, Zenon
  <2> QED  BY <1>1, <2>2, <2>3, Zenon
<1>5. /\ client' \in [Client -> Commands]
      /\ \A c \in Client : /\ client'[c].pc = client[c].pc /\ client'[c].n = client[c].n
                           /\ client'[c].kind = client[c].kind /\ client'[c].arg = client[c].arg
  <2>1. CASE client' = client
    BY <1>1, <2>1, Zenon
  <2>2. CASE \E t : client' = Overtaken(t, h.q.n)
    <3>1. PICK t : client' = Overtaken(t, h.q.n)
      BY <2>2, Zenon
    <3>2. client' = [c \in Client |-> client'[c]]
      BY <3>1, Zenon DEF Overtaken
    <3>3. \A c \in Client : /\ client'[c] \in Commands
                            /\ client'[c].pc = client[c].pc /\ client'[c].n = client[c].n
                            /\ client'[c].kind = client[c].kind /\ client'[c].arg = client[c].arg
      BY <1>1, <3>1, OvertakenFields
    <3> QED  BY <3>2, <3>3, Zenon
  <2> QED  BY <1>2, <2>1, <2>2, Zenon
<1>6. BrokerTypes'
  BY <1>2, <1>4, <1>5, Zenon DEF BrokerInv, BrokerTypes
<1>7. ClientsInOrder(client', backlog, handling', calls)
  BY <1>1, <1>4, <1>5, CountersMove, Zenon DEF BrokerInv
<1> QED
  BY <1>2, <1>4, <1>6, <1>7, Zenon DEF BrokerInv

\* A reply ends the only request of its command.
LEMMA ReplyKeepsInv ==
    ASSUME BrokerInv, NEW h \in handling, Reply(h)
    PROVE  BrokerInv'
<1>1. /\ backlog \in Seq(Messages) /\ handling \in SUBSET Handlings /\ calls \in Nat
      /\ InOrder(backlog, handling, calls) /\ client \in [Client -> Commands] /\ slots \in Nat
      /\ ClientsInOrder(client, backlog, handling, calls)
  BY Zenon DEF BrokerInv, BrokerTypes
<1>2. /\ UNCHANGED <<transport, ledger, file, specs, backlog, calls>>
      /\ handling' = handling \ {h} /\ slots' = slots + 1
      /\ \/ client' = client
         \/ \E c \in Client : Awaits(c, h.q) /\ client' = [client EXCEPT ![c] = After(c, h.answer)]
  BY Zenon DEF Reply, Returns, storage
<1>3. /\ InOrder(backlog, handling', calls) /\ ~SentIn(backlog, handling', h.q.n)
      /\ \A m : SentIn(backlog, handling', m) => SentIn(backlog, handling, m)
  BY <1>1, <1>2, DropInOrder, Zenon
<1>4. client' \in [Client -> Commands] /\ ClientsInOrder(client', backlog, handling', calls)
  <2>1. CASE client' = client
    BY <1>1, <1>3, <2>1, CountersMove, Zenon
  <2>2. CASE \E c \in Client : Awaits(c, h.q) /\ client' = [client EXCEPT ![c] = After(c, h.answer)]
    <3>1. PICK c \in Client : Awaits(c, h.q) /\ client' = [client EXCEPT ![c] = After(c, h.answer)]
      BY <2>2, Zenon
    <3>2. PICK m : m = After(c, h.answer)
      BY Zenon
    <3>3. /\ m \in Commands /\ m.pc \in {"idle", "verify", "clean", "call"}
          /\ m.pc # "idle" => m.n = client[c].n /\ m.kind = client[c].kind /\ m.arg = client[c].arg
      BY <1>1, <3>2, AfterFields, Zenon
    <3>4. client[c].pc = "wait" /\ h.q.n = client[c].n
      BY <3>1, Zenon DEF Awaits
    <3>5. MaySend(m, backlog, handling')
      BY <1>1, <1>3, <3>3, <3>4, Zenon DEF ClientsInOrder, Wants, MaySend
    <3>6. NothingNew(backlog, handling, backlog, handling', client[c])
      BY <1>3, Zenon DEF NothingNew
    <3>7. Continues(client[c], m, calls, calls)
      BY <3>3, <3>4, Zenon DEF Continues
    <3> QED  BY <1>1, <3>1, <3>2, <3>3, <3>5, <3>6, <3>7, OneMoves, Zenon
  <2> QED  BY <1>2, <2>1, <2>2, Zenon
<1>5. BrokerTypes'
  BY <1>1, <1>2, <1>4 DEF BrokerInv, BrokerTypes
<1> QED
  BY <1>2, <1>3, <1>4, <1>5, Zenon DEF BrokerInv

\* A client moves on, and nothing else that the invariant speaks of changes.
LEMMA ClientKeepsInv ==
    ASSUME BrokerInv, NEW c \in Client, NEW m \in Commands,
           client' = [client EXCEPT ![c] = m], calls' \in {calls, calls + 1},
           UNCHANGED <<transport, ledger, slots, backlog, handling>>, file' \in {file, ledger},
           specs' \subseteq specs \cup (Uid \X {calls'}),
           m.pc # "idle" => \/ client[c].pc # "idle" /\ m.n = client[c].n
                            \/ calls' = calls + 1 /\ m.n = calls',
           m.pc = "call" => Wants(m) /\ calls' = calls + 1 /\ m.n = calls', m.pc # "wait"
    PROVE  BrokerInv'
<1>1. /\ calls \in Nat /\ calls' \in Nat /\ InOrder(backlog, handling, calls)
      /\ client \in [Client -> Commands] /\ ClientsInOrder(client, backlog, handling, calls)
  BY DEF BrokerInv, BrokerTypes
<1>2. ~SentIn(backlog, handling, calls + 1)
  BY <1>1 DEF SentIn, InOrder
<1>3. /\ client' \in [Client -> Commands]
      /\ ClientsInOrder(client', backlog, handling, calls')
  <2>1. PICK n : n = calls'
    BY Zenon
  <2>2. MaySend(m, backlog, handling) /\ Continues(client[c], m, calls, n)
    BY <1>2, <2>1, Zenon DEF MaySend, Continues
  <2>3. NothingNew(backlog, handling, backlog, handling, client[c])
    BY Zenon DEF NothingNew
  <2>4. /\ [client EXCEPT ![c] = m] \in [Client -> Commands]
        /\ ClientsInOrder([client EXCEPT ![c] = m], backlog, handling, n)
    BY <1>1, <2>2, <2>3, OneMoves, Zenon
  <2> QED  BY <2>1, <2>4, Zenon
<1>4. 1 .. calls \subseteq 1 .. calls' /\ 0 .. calls \subseteq 0 .. calls' /\ calls' \in 0 .. calls'
  BY <1>1
<1>5. InOrder(backlog, handling, calls')
  BY <1>1, <1>4, Zenon DEF InOrder
<1>6. specs' \subseteq Uid \X (0 .. calls')
  BY <1>4, Zenon DEF BrokerInv, BrokerTypes
<1>7. BrokerTypes'
  BY <1>1, <1>3, <1>6, Zenon DEF BrokerInv, BrokerTypes
<1> QED
  BY <1>3, <1>5, <1>7, Zenon DEF BrokerInv

\* What Begins does.
LEMMA BeginsFields ==
    ASSUME BrokerInv, NEW c \in Client, NEW kind \in Kinds,
           NEW arg \in Operations \cup Nat \cup JobStatus, Begins(c, kind, arg, "call"),
           kind = "add" => arg \in Operations, kind = "patch" => arg \in JobStatus
    PROVE  \E m \in Commands :
              /\ client' = [client EXCEPT ![c] = m] /\ calls' = calls + 1
              /\ m.pc = "call" /\ m.n = calls' /\ m.kind = kind /\ m.arg = arg /\ Wants(m)
              /\ m.tries = 0 /\ m.others = 0 /\ client[c].pc = "idle"
<1>1. calls \in Nat
  BY Zenon DEF BrokerInv, BrokerTypes
<1>2. PICK m : m = [Idle EXCEPT !.pc = "call", !.n = calls + 1, !.kind = kind, !.arg = arg]
  BY Zenon
<1>3. m = [pc |-> "call", n |-> calls + 1, kind |-> kind, arg |-> arg, tries |-> 0, others |-> 0,
           plan |-> {}]
  BY <1>2, Zenon DEF Idle
<1>4. /\ m \in Commands /\ m.pc = "call" /\ m.n = calls + 1 /\ m.kind = kind /\ m.arg = arg
      /\ m.tries = 0 /\ m.others = 0
  BY <1>1, <1>3 DEF Commands
<1>5. Wants(m)
  BY <1>4, Zenon DEF Wants
<1>6. client' = [client EXCEPT ![c] = m] /\ calls' = calls + 1 /\ client[c].pc = "idle"
  BY <1>2, Zenon DEF Begins
<1> QED
  BY <1>4, <1>5, <1>6, Zenon

\* A client begins a command; an addition writes its spec.
LEMMA BeginMoves ==
    ASSUME BrokerInv, NEW c \in Client,
           (\E op \in OpId \cup {None} : Submit(c, op)) \/ AskCancel(c) \/ AskEdit(c) \/ AskNotice(c)
           \/ BeginPatch(c)
    PROVE  \E m \in Commands :
              /\ client' = [client EXCEPT ![c] = m] /\ calls' = calls + 1
              /\ m.pc = "call" /\ m.n = calls' /\ Wants(m) /\ m.tries = 0 /\ m.others = 0
              /\ client[c].pc = "idle"
              /\ specs' = IF m.kind = "add" THEN specs \cup {<<UidOf[c], calls + 1>>} ELSE specs
<1>1. ledger \in Ledgers
  BY Zenon DEF BrokerInv, BrokerTypes
<1>2. \A i : i \in DOMAIN ledger.res \/ i \in DOMAIN ledger.ann => i \in Nat
  <2>1. ledger.res \in Seq(Reservations) /\ ledger.ann \in Seq(Notices)
    BY <1>1, Zenon DEF Ledgers
  <2> QED  BY <2>1
<1>3. \E kind \in Kinds, arg \in Operations \cup Nat \cup JobStatus :
         /\ Begins(c, kind, arg, "call")
         /\ kind = "add" => arg \in Operations
         /\ kind = "patch" => arg \in JobStatus
         /\ specs' = IF kind = "add" THEN specs \cup {<<UidOf[c], calls + 1>>} ELSE specs
  <2>1. CASE \E op \in OpId \cup {None} : Submit(c, op)
    BY <2>1, Zenon DEF Submit, Kinds, Operations
  <2>2. CASE AskCancel(c)
    BY <1>2, <2>2, Zenon DEF AskCancel, Kinds
  <2>5. CASE AskEdit(c)
    BY <1>2, <2>5, Zenon DEF AskEdit, Kinds
  <2>3. CASE AskNotice(c)
    BY <1>2, <2>3, Zenon DEF AskNotice, Kinds
  <2>4. CASE BeginPatch(c)
    BY <2>4, Zenon DEF BeginPatch, Kinds, JobStatus
  <2> QED  BY <2>1, <2>2, <2>3, <2>4, <2>5, Zenon
<1>4. PICK kind \in Kinds, arg \in Operations \cup Nat \cup JobStatus :
         /\ Begins(c, kind, arg, "call")
         /\ kind = "add" => arg \in Operations
         /\ kind = "patch" => arg \in JobStatus
         /\ specs' = IF kind = "add" THEN specs \cup {<<UidOf[c], calls + 1>>} ELSE specs
  BY <1>3, Zenon
<1>5. PICK m \in Commands :
         /\ client' = [client EXCEPT ![c] = m] /\ calls' = calls + 1
         /\ m.pc = "call" /\ m.n = calls' /\ m.kind = kind /\ Wants(m)
         /\ m.tries = 0 /\ m.others = 0 /\ client[c].pc = "idle"
  BY <1>4, BeginsFields
<1> QED
  BY <1>4, <1>5, Zenon

\* It keeps the invariant.
LEMMA BeginKeepsInv ==
    ASSUME BrokerInv, NEW c \in Client,
           (\E op \in OpId \cup {None} : Submit(c, op)) \/ AskCancel(c) \/ AskEdit(c) \/ AskNotice(c)
           \/ BeginPatch(c)
    PROVE  BrokerInv'
<1>1. UNCHANGED <<transport, ledger, slots, backlog, handling>> /\ file' \in {file, ledger}
  BY Zenon DEF Submit, AskCancel, AskEdit, AskNotice, BeginPatch, broker, storage, Load
<1>2. PICK m \in Commands :
         /\ client' = [client EXCEPT ![c] = m] /\ calls' = calls + 1
         /\ m.pc = "call" /\ m.n = calls' /\ Wants(m)
         /\ specs' = IF m.kind = "add" THEN specs \cup {<<UidOf[c], calls + 1>>} ELSE specs
  BY BeginMoves, Zenon
<1>3. specs' \subseteq specs \cup (Uid \X {calls'})
  BY <1>2, BrokerAssumption
<1> QED
  BY <1>1, <1>2, <1>3, ClientKeepsInv, Zenon

\* What cleanup_job_specs plans from.
LEMMA PlanIsPlan == BrokerInv => Plan \in Plans
<1> SUFFICES ASSUME BrokerInv PROVE Plan \in Plans
  BY Zenon
<1>1. Loaded \in Ledgers /\ specs \subseteq Uid \X (0 .. calls) /\ calls \in Nat
  BY Zenon DEF BrokerInv, BrokerTypes, Loaded
<1>2. Loaded.res \in Seq(Reservations)
  BY <1>1, Zenon DEF Ledgers
<1>3. {s \in specs : PastGrace(s)} \in SUBSET (Uid \X Nat)
  BY <1>1
<1> QED
  BY <1>2, <1>3, Zenon DEF Plan, Plans

\* A client times out, verifies, cleans up, gives up or dies.
LEMMA LaterMoves ==
    ASSUME BrokerInv, NEW c \in Client,
           \/ NothingToDo(c) \/ Timeout(c) \/ Verify(c) \/ Drop(c) \/ Clean(c) \/ Sweep(c) \/ Die(c)
    PROVE  \E m \in Commands :
              /\ client' = [client EXCEPT ![c] = m] /\ m.pc \notin {"call", "wait"}
              /\ m.pc # "idle" => \/ client[c].pc # "idle" /\ m.n = client[c].n
                                  \/ calls' = calls + 1 /\ m.n = calls'
<1>0. calls \in Nat /\ client \in [Client -> Commands] /\ client[c] \in Commands
  BY Zenon DEF BrokerInv, BrokerTypes
<1>1. CASE client' = [client EXCEPT ![c] = Idle]
  BY <1>1, IdleIsCommand, Zenon
<1>2. CASE Timeout(c)
  <2>1. PICK a : a = [ok |-> FALSE, out |-> None]
    BY Zenon
  <2>2. PICK m : m = After(c, a)
    BY Zenon
  <2>3. client' = [client EXCEPT ![c] = m] /\ client[c].pc = "wait"
    BY <1>2, <2>1, <2>2, Zenon DEF Timeout
  <2>4. /\ m \in Commands /\ m.pc \in {"idle", "verify", "clean", "call"}
        /\ m.pc # "idle" => m.n = client[c].n
        /\ m.pc = "call" => NotCommitted(c, a)
    BY <1>0, <2>2, AfterFields, Zenon
  <2>5. ~NotCommitted(c, a)
    BY <2>1, Zenon DEF NotCommitted
  <2> QED  BY <2>3, <2>4, <2>5, Zenon
<1>3. CASE client[c].pc = "verify" /\ client' = [client EXCEPT ![c] = [@ EXCEPT !.pc = "drop"]]
  <2>1. PICK m : m = [client[c] EXCEPT !.pc = "drop"]
    BY Zenon
  <2>2. m \in Commands /\ m.pc = "drop" /\ m.n = client[c].n
    BY <1>0, <2>1, Zenon DEF Commands
  <2> QED  BY <1>0, <1>3, <2>1, <2>2, Zenon
<1>4. CASE /\ client[c].pc = "clean"
           /\ client' = [client EXCEPT ![c] = [@ EXCEPT !.pc = "sweep", !.plan = Plan]]
  <2>1. PICK m : m = [client[c] EXCEPT !.pc = "sweep", !.plan = Plan]
    BY Zenon
  <2>2. m \in Commands /\ m.pc = "sweep" /\ m.n = client[c].n
    BY <1>0, <2>1, PlanIsPlan, Zenon DEF Commands
  <2> QED  BY <1>0, <1>4, <2>1, <2>2, Zenon
<1>5. CASE /\ calls' = calls + 1
           /\ client' = [client EXCEPT ![c] =
                           [Idle EXCEPT !.pc = "sweep", !.n = calls + 1, !.plan = Plan]]
  <2>1. PICK m : m = [Idle EXCEPT !.pc = "sweep", !.n = calls + 1, !.plan = Plan]
    BY Zenon
  <2>2. m = [pc |-> "sweep", n |-> calls + 1, kind |-> None, arg |-> None, tries |-> 0,
             others |-> 0, plan |-> Plan]
    BY <2>1, Zenon DEF Idle
  <2>3. m \in Commands /\ m.pc = "sweep" /\ m.n = calls + 1
    BY <1>0, <2>2, PlanIsPlan DEF Commands, Operations
  <2> QED  BY <1>5, <2>1, <2>3, Zenon
<1>6. Verify(c) => \/ client' = [client EXCEPT ![c] = Idle]
                   \/ client[c].pc = "verify" /\ client' = [client EXCEPT ![c] = [@ EXCEPT !.pc = "drop"]]
  BY Zenon DEF Verify
<1> QED
  BY <1>1, <1>2, <1>3, <1>4, <1>5, <1>6, Zenon DEF NothingToDo, Drop, Clean, Sweep, Die

\* It keeps the invariant.
LEMMA LaterKeepsInv ==
    ASSUME BrokerInv, NEW c \in Client,
           \/ NothingToDo(c) \/ Timeout(c) \/ Verify(c) \/ Drop(c) \/ Clean(c) \/ Sweep(c) \/ Die(c)
    PROVE  BrokerInv'
<1>1. /\ UNCHANGED <<transport, ledger, slots, backlog, handling>> /\ file' \in {file, ledger}
      /\ specs' \subseteq specs /\ calls' \in {calls, calls + 1}
  BY Zenon DEF NothingToDo, Timeout, Verify, Drop, Clean, Sweep, Die, broker, storage, Load
<1> QED
  BY <1>1, LaterMoves, ClientKeepsInv, Zenon

\* A client that has sent its request.
LEMMA Waiting ==
    ASSUME NEW me \in Commands, NEW m, m = [me EXCEPT !.pc = "wait", !.tries = @ + 1]
    PROVE  /\ m \in Commands /\ m.pc = "wait" /\ m.n = me.n /\ m.kind = me.kind /\ m.arg = me.arg
           /\ m.tries = me.tries + 1 /\ m.others = me.others
<1>1. PICK x : x = [me EXCEPT !.pc = "wait"]
  BY Zenon
<1>2. /\ x \in Commands /\ x.pc = "wait" /\ x.n = me.n /\ x.kind = me.kind /\ x.arg = me.arg
      /\ x.tries = me.tries /\ x.others = me.others
  BY <1>1, Zenon DEF Commands
<1>3. m = [x EXCEPT !.tries = @ + 1]
  BY <1>1, Zenon DEF Commands
<1> QED
  BY <1>2, <1>3 DEF Commands

\* A client sends its request, or finds nobody listening.
LEMMA ConnectKeepsInv ==
    ASSUME BrokerInv, NEW c \in Client, Connect(c)
    PROVE  BrokerInv'
<1>1. /\ calls \in Nat /\ client \in [Client -> Commands] /\ client[c] \in Commands
      /\ backlog \in Seq(Messages) /\ handling \in SUBSET Handlings
      /\ InOrder(backlog, handling, calls) /\ ClientsInOrder(client, backlog, handling, calls)
  BY Zenon DEF BrokerInv, BrokerTypes
<1>2. client[c].pc = "call" /\ UNCHANGED <<transport, ledger, file, specs, slots, handling, calls>>
  BY Zenon DEF Connect, storage
<1>3. CASE /\ backlog' = Append(backlog, Request(c))
           /\ client' = [client EXCEPT ![c].pc = "wait", ![c].tries = @ + 1]
  <2>1. PICK q : q = Request(c)
    BY Zenon
  <2>2. /\ q \in Messages /\ Meant(q) /\ q.n = client[c].n /\ q.n \in 1 .. calls
        /\ ~SentIn(backlog, handling, q.n)
    BY <1>2, <2>1, RequestIsMeant, Zenon
  <2>3. PICK b : b = Append(backlog, q)
    BY Zenon
  <2>4. /\ b \in Seq(Messages) /\ InOrder(b, handling, calls)
        /\ \A m : SentIn(b, handling, m) => SentIn(backlog, handling, m) \/ m = q.n
    BY <1>1, <2>2, <2>3, SendInOrder, Zenon
  <2>5. PICK m : m = [client[c] EXCEPT !.pc = "wait", !.tries = @ + 1]
    BY Zenon
  <2>6. /\ m \in Commands /\ m.pc = "wait" /\ m.n = client[c].n /\ m.kind = client[c].kind
        /\ m.arg = client[c].arg
    BY <1>1, <2>5, Waiting, Zenon
  <2>7. client' = [client EXCEPT ![c] = m] /\ backlog' = b
    BY <1>1, <1>3, <2>1, <2>3, <2>5, Zenon
  <2>8. NothingNew(backlog, handling, b, handling, client[c])
    BY <1>2, <2>2, <2>4, Zenon DEF NothingNew
  <2>9. Continues(client[c], m, calls, calls)
    BY <1>2, <2>6, Zenon DEF Continues
  <2>10. MaySend(m, b, handling)
    BY <1>1, <1>2, <2>6, Zenon DEF MaySend, Wants, ClientsInOrder
  <2>11. client' \in [Client -> Commands] /\ ClientsInOrder(client', b, handling, calls)
    BY <1>1, <2>6, <2>7, <2>8, <2>9, <2>10, OneMoves, Zenon
  <2>12. BrokerTypes'
    BY <1>2, <2>4, <2>7, <2>11, Zenon DEF BrokerInv, BrokerTypes
  <2> QED  BY <1>2, <2>4, <2>7, <2>11, <2>12, Zenon DEF BrokerInv
<1>4. CASE /\ client' = [client EXCEPT ![c] = After(c, [ok |-> FALSE, out |-> None])]
           /\ UNCHANGED backlog
  <2>1. PICK a : a = [ok |-> FALSE, out |-> None]
    BY Zenon
  <2>2. PICK m : m = After(c, a)
    BY Zenon
  <2>3. /\ m \in Commands /\ m.pc \in {"idle", "verify", "clean", "call"}
        /\ m.pc # "idle" => m.n = client[c].n
        /\ m.pc = "call" => NotCommitted(c, a)
    BY <1>1, <2>2, AfterFields, Zenon
  <2>4. ~NotCommitted(c, a)
    BY <2>1, Zenon DEF NotCommitted
  <2> QED  BY <1>1, <1>2, <1>4, <2>1, <2>2, <2>3, <2>4, ClientKeepsInv, Zenon
<1> QED
  BY <1>3, <1>4, Zenon DEF Connect

\* A client runs its transaction in its own process, and is never refused.
LEMMA LocalMoves ==
    ASSUME BrokerInv, NEW c \in Client, Local(c)
    PROVE  LET q == Request(c)  t == Dispatch(ledger, q) IN
           /\ ledger' \in {ledger, t.led} /\ file' \in {ledger, t.led}
           /\ \E cl \in {client, Overtaken(t, q.n)} : \E a :
                 ~NotCommitted(c, a) /\ client' = [cl EXCEPT ![c] = After(c, a)]
<1> DEFINE q == Request(c)
           t == Dispatch(ledger, q)
<1>1. /\ calls \in Nat /\ client \in [Client -> Commands] /\ ledger \in Ledgers
      /\ InOrder(backlog, handling, calls) /\ ClientsInOrder(client, backlog, handling, calls)
  BY Zenon DEF BrokerInv, BrokerTypes
<1>2. /\ client[c].pc = "call" /\ transport = "local"
      /\ UNCHANGED <<transport, specs, slots, backlog, handling, calls>>
  BY Zenon DEF Local, broker
<1>3. q \in Messages /\ Meant(q) /\ q.kind = client[c].kind
      /\ (q.kind = "patch" => q.arg.base = Loaded)
  BY <1>2, RequestIsMeant
<1>4. t.led \in Ledgers
  BY <1>1, <1>3, DispatchIsSound, Zenon DEF Sound
<1>5. q.kind = "patch" /\ t.ok /\ t.out = "not committed" => ledger # q.arg.base
  BY <1>1, <1>3, DispatchAnswers, Zenon
<1>6. ~NotCommitted(c, [ok |-> FALSE, out |-> None])
  BY Zenon DEF NotCommitted
<1>7. ~NotCommitted(c, [ok |-> t.ok, out |-> t.out])
  <2>1. client[c].kind = "patch" => q.arg.base = ledger
    BY <1>2, <1>3, Zenon DEF Loaded
  <2>2. ASSUME NEW a, a.ok = t.ok, a.out = t.out PROVE ~NotCommitted(c, a)
    <3> HIDE DEF q, t
    <3> QED  BY <1>3, <1>5, <2>1, <2>2, Zenon DEF NotCommitted
  <2>3. PICK a : a = [ok |-> t.ok, out |-> t.out]
    BY Zenon
  <2> HIDE DEF q, t
  <2>4. a.ok = t.ok /\ a.out = t.out
    BY <2>3, Zenon
  <2> QED  BY <2>2, <2>3, <2>4, Zenon
<1>8. /\ ledger' \in {ledger, t.led} /\ file' \in {ledger, t.led}
      /\ \E cl \in {client, Overtaken(t, q.n)} : \E a :
            ~NotCommitted(c, a) /\ client' = [cl EXCEPT ![c] = After(c, a)]
  <2> HIDE DEF q, t
  <2>1. CASE Transact(t) /\ client' = [Overtaken(t, q.n) EXCEPT ![c] = After(c, [ok |-> t.ok, out |-> t.out])]
    <3>1. ledger' \in {ledger, t.led} /\ file' \in {ledger, t.led}
      BY <1>1, <1>4, <2>1, Zenon DEF Transact
    <3> QED  BY <1>7, <2>1, <3>1, Zenon
  <2>2. CASE /\ ledger' = ledger /\ file' = ledger
             /\ client' = [client EXCEPT ![c] = After(c, [ok |-> FALSE, out |-> None])]
    <3>1. ledger' \in {ledger, t.led} /\ file' \in {ledger, t.led}
      BY <1>1, <2>2, Zenon
    <3> QED  BY <1>6, <2>2, <3>1, Zenon
  <2>3. CASE /\ ledger' = t.led /\ file' = t.led
             /\ client' = [Overtaken(t, q.n) EXCEPT ![c] = After(c, [ok |-> FALSE, out |-> None])]
    <3>1. ledger' \in {ledger, t.led} /\ file' \in {ledger, t.led}
      BY <1>4, <2>3, Zenon
    <3> QED  BY <1>6, <2>3, <3>1, Zenon
  <2> QED
    BY <2>1, <2>2, <2>3, Zenon DEF Local, q, t
<1> QED
  BY <1>8, Zenon

\* It keeps the invariant.
LEMMA LocalKeepsInv ==
    ASSUME BrokerInv, NEW c \in Client, Local(c)
    PROVE  BrokerInv'
<1> DEFINE q == Request(c)
           t == Dispatch(ledger, q)
<1>1. /\ calls \in Nat /\ client \in [Client -> Commands] /\ ledger \in Ledgers
      /\ InOrder(backlog, handling, calls) /\ ClientsInOrder(client, backlog, handling, calls)
  BY Zenon DEF BrokerInv, BrokerTypes
<1>2. /\ client[c].pc = "call" /\ transport = "local"
      /\ UNCHANGED <<transport, specs, slots, backlog, handling, calls>>
  BY Zenon DEF Local, broker
<1>3. q \in Messages /\ Meant(q) /\ q.kind = client[c].kind
      /\ (q.kind = "patch" => q.arg.base = Loaded)
  BY <1>2, RequestIsMeant
<1>4. t.led \in Ledgers
  BY <1>1, <1>3, DispatchIsSound, Zenon DEF Sound
<1>8. /\ ledger' \in Ledgers /\ file' \in Ledgers
      /\ \E cl \in {client, Overtaken(t, q.n)} : \E a :
            ~NotCommitted(c, a) /\ client' = [cl EXCEPT ![c] = After(c, a)]
  <2>1. ledger' \in {ledger, t.led} /\ file' \in {ledger, t.led}
    BY LocalMoves, Zenon
  <2>2. \E cl \in {client, Overtaken(t, q.n)} : \E a :
           ~NotCommitted(c, a) /\ client' = [cl EXCEPT ![c] = After(c, a)]
    BY LocalMoves, Zenon
  <2> HIDE DEF q, t
  <2> QED  BY <1>1, <1>4, <2>1, <2>2, Zenon
<1>9a. PICK cl \in {client, Overtaken(t, q.n)} : \E a :
         ~NotCommitted(c, a) /\ client' = [cl EXCEPT ![c] = After(c, a)]
  BY <1>8, Zenon
<1>9. PICK a : ~NotCommitted(c, a) /\ client' = [cl EXCEPT ![c] = After(c, a)]
  BY <1>9a, Zenon
<1>10. cl \in [Client -> Commands] /\ \A d \in Client :
          cl[d].pc = client[d].pc /\ cl[d].n = client[d].n /\ cl[d].kind = client[d].kind
          /\ cl[d].arg = client[d].arg
  <2> HIDE DEF q, t
  <2>1. CASE cl = client
    BY <1>1, <2>1, Zenon
  <2>2. CASE cl = Overtaken(t, q.n)
    <3>1. cl = [d \in Client |-> cl[d]]
      BY <2>2, Zenon DEF Overtaken
    <3>2. \A d \in Client : /\ cl[d] \in Commands
                            /\ cl[d].pc = client[d].pc /\ cl[d].n = client[d].n
                            /\ cl[d].kind = client[d].kind /\ cl[d].arg = client[d].arg
      BY <1>1, <2>2, OvertakenFields, SMTT(30)
    <3> QED  BY <3>1, <3>2, Zenon
  <2> QED  BY <2>1, <2>2, Zenon
<1> HIDE DEF q, t
<1>11. ClientsInOrder(cl, backlog, handling, calls)
  BY <1>1, <1>10, CountersMove
<1>12. PICK m : m = After(c, a)
  BY Zenon
<1>13. /\ m \in Commands /\ m.pc \in {"idle", "verify", "clean"}
       /\ m.pc # "idle" => m.n = client[c].n
  BY <1>1, <1>9, <1>12, AfterFields, Zenon
<1>14. NothingNew(backlog, handling, backlog, handling, cl[c])
  BY Zenon DEF NothingNew
<1>15. Continues(cl[c], m, calls, calls) /\ MaySend(m, backlog, handling)
  BY <1>2, <1>10, <1>13, Zenon DEF Continues, MaySend
<1>16. client' \in [Client -> Commands] /\ ClientsInOrder(client', backlog, handling, calls)
  BY <1>1, <1>9, <1>10, <1>11, <1>12, <1>13, <1>14, <1>15, OneMoves, Zenon
<1>17. BrokerTypes'
  BY <1>2, <1>8, <1>16, Zenon DEF BrokerInv, BrokerTypes
<1> QED
  BY <1>1, <1>2, <1>16, <1>17, Zenon DEF BrokerInv

\* Every step preserves the invariant.
LEMMA BrokerStep == BrokerInv /\ [Next]_vars => BrokerInv'
<1> SUFFICES ASSUME BrokerInv, [Next]_vars PROVE BrokerInv'
  BY Zenon
<1>1. CASE Start \/ Accept \/ Stop \/ Close \/ Kill
  BY <1>1, ServerKeepsInv, Zenon
<1>2. CASE \E h \in handling : Handle(h) \/ Reply(h)
  BY <1>2, HandleKeepsInv, ReplyKeepsInv, Zenon
<1>3. CASE \E c \in Client : \/ \E op \in OpId \cup {None} : Submit(c, op)
                             \/ AskCancel(c) \/ AskEdit(c) \/ AskNotice(c) \/ BeginPatch(c)
  BY <1>3, BeginKeepsInv, Zenon
<1>4. CASE \E c \in Client : \/ NothingToDo(c) \/ Timeout(c) \/ Verify(c) \/ Drop(c) \/ Clean(c)
                             \/ Sweep(c) \/ Die(c)
  BY <1>4, LaterKeepsInv, Zenon
<1>5. CASE \E c \in Client : Connect(c) \/ Local(c)
  BY <1>5, ConnectKeepsInv, LocalKeepsInv, Zenon
<1>6. CASE UNCHANGED vars
  <2>1. /\ UNCHANGED <<transport, ledger, file, specs, slots, backlog, handling, client, calls>>
    BY <1>6, Zenon DEF vars
  <2>2. BrokerTypes'
    BY <2>1, Zenon DEF BrokerInv, BrokerTypes
  <2>3. InOrder(backlog', handling', calls') /\ ClientsInOrder(client', backlog', handling', calls')
    BY <2>1, Zenon DEF BrokerInv
  <2> QED  BY <2>2, <2>3, Zenon DEF BrokerInv
<1> QED
  BY <1>1, <1>2, <1>3, <1>4, <1>5, <1>6, Zenon DEF Next

\* Every state of the write path satisfies it.
LEMMA AlwaysBrokerInv == Spec => []BrokerInv
<1>1. Init => BrokerInv
  <2> SUFFICES ASSUME Init PROVE BrokerInv
    BY Zenon
  <2>1. PICK r : r = Reservation(Other, None, 0)
    BY Zenon
  <2>2. r \in Reservations
    BY <2>1, BrokerAssumption, Zenon DEF Reservation, Reservations, Operations
  <2>3. <<r>> \in Seq(Reservations) /\ <<>> \in Seq(Notices) /\ <<>> \in Seq(Messages)
    BY <2>2
  <2>4. Booked \in Ledgers
    BY <2>1, <2>3, Zenon DEF Booked, Ledgers
  <2>5. 0 \in 0 .. 0 /\ MaxSlots \in Nat
    BY BrokerAssumption
  <2>6. specs \subseteq Uid \X (0 .. 0)
    BY <2>5, BrokerAssumption DEF Init
  <2>7. client \in [Client -> Commands] /\ \A c \in Client : client[c].pc = "idle"
    BY IdleIsCommand, Zenon DEF Init
  <2>8. BrokerTypes
    BY <2>3, <2>4, <2>5, <2>6, <2>7, Zenon DEF Init, BrokerTypes
  <2>9. InOrder(backlog, handling, calls)
    BY DEF Init, InOrder
  <2>10. ClientsInOrder(client, backlog, handling, calls)
    BY <2>7, Zenon DEF ClientsInOrder
  <2> QED  BY <2>8, <2>9, <2>10, Zenon DEF BrokerInv
<1> QED
  BY <1>1, BrokerStep, PTL DEF Spec

-----------------------------------------------------------------------------
(* What transactions leave behind.                                         *)

\* A step leaves the ledger as it is, or makes one transaction that was asked for.
LEMMA OneTransaction ==
    ASSUME BrokerInv, [Next]_vars
    PROVE  \/ UNCHANGED <<ledger, applied>>
           \/ \E q \in Messages : /\ Meant(q) /\ ledger' = Dispatch(ledger, q).led
                                  /\ applied' = applied \cup Dispatch(ledger, q).did
<1>1. CASE \E h \in handling : Handle(h)
  <2>1. PICK h \in handling : Handle(h)
    BY <1>1, Zenon
  <2>2. h.q \in Messages /\ Meant(h.q)
    BY Zenon DEF BrokerInv, BrokerTypes, InOrder, Handlings
  <2> QED  BY <2>1, <2>2, Zenon DEF Handle, Transact, storage
<1>2. CASE \E c \in Client : Local(c)
  <2>1. PICK c \in Client : Local(c)
    BY <1>2, Zenon
  <2>2. client[c].pc = "call"
    BY <2>1, Zenon DEF Local
  <2>3. Request(c) \in Messages /\ Meant(Request(c))
    BY <2>2, RequestIsMeant, Zenon
  <2> QED  BY <2>1, <2>3, Zenon DEF Local, Transact
<1>3. CASE Start \/ Accept \/ Stop \/ Close \/ Kill \/ \E h \in handling : Reply(h)
  BY <1>3, Zenon DEF Start, Accept, Stop, Close, Kill, Reply, storage
<1>4. CASE \E c \in Client : (\E op \in OpId \cup {None} : Submit(c, op)) \/ AskCancel(c) \/ AskEdit(c)
                             \/ AskNotice(c) \/ BeginPatch(c) \/ Connect(c) \/ NothingToDo(c) \/ Timeout(c)
  BY <1>4, Zenon DEF Submit, AskCancel, AskEdit, AskNotice, BeginPatch, Connect, NothingToDo, Timeout, storage
<1>5. CASE \E c \in Client : Verify(c) \/ Drop(c) \/ Clean(c) \/ Sweep(c) \/ Die(c)
  BY <1>5, Zenon DEF Verify, Drop, Clean, Sweep, Die, storage
<1>6. CASE UNCHANGED vars
  BY <1>6, Zenon DEF vars
<1> QED
  BY <1>1, <1>2, <1>3, <1>4, <1>5, <1>6, Zenon DEF Next

\* An archived announcement is final (ArchivedIsFinal), whatever edits are on their way.
THEOREM ArchiveIsFinal == Spec => ArchivedIsFinal
<1>1. BrokerInv /\ [Next]_vars => [AnnouncementsKept(ledger, ledger')]_vars
  <2> SUFFICES ASSUME BrokerInv, [Next]_vars PROVE AnnouncementsKept(ledger, ledger')
    BY Zenon
  <2>1. CASE UNCHANGED ledger
    BY <2>1, Zenon DEF AnnouncementsKept
  <2>2. CASE \E q \in Messages : Meant(q) /\ ledger' = Dispatch(ledger, q).led
    BY <2>2, DispatchIsSound, Zenon DEF Sound, BrokerInv, BrokerTypes
  <2> QED  BY <2>1, <2>2, OneTransaction, Zenon
<1>2. [AnnouncementsKept(ledger, ledger')]_vars
      => [\A i \in DOMAIN ledger.ann :
             ledger.ann[i].archived => /\ i \in DOMAIN ledger'.ann
                                       /\ ledger'.ann[i] = ledger.ann[i]]_vars
  BY Zenon DEF AnnouncementsKept
<1> QED
  BY <1>1, <1>2, AlwaysBrokerInv, PTL DEF Spec, ArchivedIsFinal

\* An operation id names at most one reservation of its user.
Single(led) ==
    \A i, j \in DOMAIN led.res :
        led.res[i].op # None /\ led.res[j].op = led.res[i].op /\ led.res[j].uid = led.res[i].uid => i = j

\* The ledger holds everything that transactions did.
Kept == Single(ledger) /\ \A d \in applied : Holds(ledger, d)

\* A sound transaction loses nothing and repeats no operation.
LEMMA SoundKeeps ==
    ASSUME NEW led \in Ledgers, NEW q \in Messages, NEW t, Sound(led, q, t), Single(led)
    PROVE  Single(t.led) /\ \A d : Holds(led, d) => Holds(t.led, d)
<1>1. /\ \A i \in DOMAIN led.res : /\ i \in DOMAIN t.led.res
                                   /\ Follows(led.res[i], t.led.res[i])
      /\ \A i \in DOMAIN t.led.res \ DOMAIN led.res :
            /\ i = Len(led.res) + 1 /\ ~Applied(led, q.uid, q.arg)
            /\ t.led.res[i] = Reservation(q.uid, q.arg, q.n)
  BY Zenon DEF Sound
<1>2. \A d : Holds(led, d) => Holds(t.led, d)
  BY <1>1, Zenon DEF Holds, Follows
<1>3. Single(t.led)
  <2> SUFFICES ASSUME NEW i \in DOMAIN t.led.res, NEW j \in DOMAIN t.led.res,
                      t.led.res[i].op # None, t.led.res[j].op = t.led.res[i].op,
                      t.led.res[j].uid = t.led.res[i].uid
               PROVE  i = j
    BY Zenon DEF Single
  <2>1. CASE i \in DOMAIN led.res /\ j \in DOMAIN led.res
    BY <1>1, <2>1, Zenon DEF Follows, Single
  <2>2. CASE i \notin DOMAIN led.res /\ j \notin DOMAIN led.res
    BY <1>1, <2>2
  <2>3. ASSUME NEW new \in DOMAIN t.led.res \ DOMAIN led.res, NEW old \in DOMAIN led.res,
               t.led.res[new].op # None, t.led.res[old].op = t.led.res[new].op,
               t.led.res[old].uid = t.led.res[new].uid
        PROVE  FALSE
    <3>1. t.led.res[new].op = q.arg /\ t.led.res[new].uid = q.uid /\ ~Applied(led, q.uid, q.arg)
      BY <1>1, SMTT(30) DEF Reservation
    <3>2. led.res[old].op = q.arg /\ led.res[old].uid = q.uid /\ q.arg # None
      BY <1>1, <2>3, <3>1, Zenon DEF Follows
    <3> QED  BY <3>1, <3>2, Zenon DEF Applied, Created
  <2> QED  BY <2>1, <2>2, <2>3, Zenon
<1> QED
  BY <1>2, <1>3, Zenon

\* Nothing that was committed is lost, and no operation is repeated, in any state.
LEMMA AlwaysKept == Spec => []Kept
<1>1. Init => Kept
  <2> SUFFICES ASSUME Init PROVE Single(Booked)
    BY Zenon DEF Init, Kept
  <2>1. PICK r : r = Reservation(Other, None, 0)
    BY Zenon
  <2>2. r.op = None /\ Booked.res = <<r>>
    BY <2>1, Zenon DEF Reservation, Booked
  <2> QED  BY <2>2 DEF Single
<1>2. BrokerInv /\ Kept /\ [Next]_vars => Kept'
  <2> SUFFICES ASSUME BrokerInv, Kept, [Next]_vars PROVE Kept'
    BY Zenon
  <2>1. CASE UNCHANGED <<ledger, applied>>
    BY <2>1, Zenon DEF Kept, Single, Holds
  <2>2. CASE \E q \in Messages : /\ Meant(q) /\ ledger' = Dispatch(ledger, q).led
                                 /\ applied' = applied \cup Dispatch(ledger, q).did
    <3>1. PICK q \in Messages : /\ Meant(q) /\ ledger' = Dispatch(ledger, q).led
                                /\ applied' = applied \cup Dispatch(ledger, q).did
      BY <2>2, Zenon
    <3>2. PICK t : t = Dispatch(ledger, q)
      BY Zenon
    <3>3. ledger \in Ledgers /\ Sound(ledger, q, t) /\ Single(ledger)
      BY <3>1, <3>2, DispatchIsSound, Zenon DEF BrokerInv, BrokerTypes, Kept
    <3>4. Single(t.led) /\ \A d : Holds(ledger, d) => Holds(t.led, d)
      BY <3>3, SoundKeeps, Zenon
    <3>5. \A d \in t.did : Holds(t.led, d)
      BY <3>3, Zenon DEF Sound
    <3>6. ledger' = t.led /\ applied' = applied \cup t.did
      BY <3>1, <3>2, Zenon
    <3>7. Single(ledger') /\ \A d \in applied' : Holds(ledger', d)
      BY <3>4, <3>5, <3>6, Zenon DEF Kept
    <3>8. (Single(ledger)' <=> Single(ledger'))
          /\ ((\A d \in applied : Holds(ledger, d))' <=> \A d \in applied' : Holds(ledger', d))
      BY Zenon DEF Single, Holds
    <3> QED  BY <3>7, <3>8, Zenon DEF Kept
  <2> QED  BY <2>1, <2>2, OneTransaction, Zenon
<1> QED
  BY <1>1, <1>2, AlwaysBrokerInv, PTL DEF Spec

\* What a committed transaction did stays done (NothingLost): a marked event stays marked
\* and a cancelled reservation cancelled, however stale the ledger.json that another
\* client's job transaction was computed from.
THEOREM CommittedStays == Spec => []NothingLost
<1>1. Kept => NothingLost
  BY Zenon DEF Kept, Holds, NothingLost
<1> QED
  BY <1>1, AlwaysKept, PTL

\* A create retried under its operation id makes one reservation (OncePerOperation).
THEOREM OneReservation == Spec => []OncePerOperation
<1>1. Kept => OncePerOperation
  <2> SUFFICES ASSUME Kept, NEW uid \in Uid, NEW op \in OpId
               PROVE  Cardinality(Created(ledger, uid, op)) <= 1
    BY Zenon DEF OncePerOperation
  <2>1. op # None
    BY BrokerAssumption, Zenon
  <2>2. \A i, j \in Created(ledger, uid, op) : i = j
    BY <2>1, Zenon DEF Kept, Single, Created
  <2>3. CASE Created(ledger, uid, op) = {}
    BY <2>3, FS_EmptySet
  <2>4. CASE Created(ledger, uid, op) # {}
    <3>1. PICK i : i \in Created(ledger, uid, op)
      BY <2>4, Zenon
    <3>2. Created(ledger, uid, op) = {i}
      BY <2>2, <3>1, Zenon
    <3>3. Cardinality({i}) = 1
      BY FS_Singleton, Zenon
    <3> QED  BY <3>2, <3>3
  <2> QED  BY <2>3, <2>4, Zenon
<1> QED
  BY <1>1, AlwaysKept, PTL

-----------------------------------------------------------------------------
(* Handler slots.                                                          *)

Balanced == IsFiniteSet(handling) /\ SlotsBalance

\* The slots of the broker balance (SlotsBalance): accepting takes one and replying
\* returns it, whatever became of the client.
THEOREM SlotsAreReturned == Spec => []SlotsBalance
<1>1. Init => Balanced
  BY FS_EmptySet, Zenon DEF Init, Balanced, SlotsBalance
<1>2. BrokerInv /\ Balanced /\ [Next]_vars => Balanced'
  <2> SUFFICES ASSUME BrokerInv, Balanced, [Next]_vars PROVE Balanced'
    BY Zenon
  <2>1. /\ IsFiniteSet(handling) /\ SlotsBalance
        /\ Cardinality(handling) \in Nat /\ slots \in Nat /\ MaxSlots \in Nat
    BY FS_CardinalityType, BrokerAssumption, Zenon DEF Balanced, BrokerInv, BrokerTypes
  <2>2. CASE UNCHANGED <<server, slots, handling>>
    BY <2>2, Zenon DEF Balanced, SlotsBalance
  <2>3. CASE Start \/ Kill
    <3>1. handling' = {} /\ (server' = "down" \/ slots' = MaxSlots)
      BY <2>3, Zenon DEF Start, Kill
    <3>2. IsFiniteSet(handling') /\ Cardinality(handling') = 0
      BY <3>1, FS_EmptySet, Zenon
    <3> QED  BY <2>1, <3>1, <3>2 DEF Balanced, SlotsBalance
  <2>4. CASE Accept
    <3>1. PICK h : h = [q |-> Head(backlog), answer |-> None]
      BY Zenon
    <3>2. h \notin handling
      BY <2>4, <3>1, AcceptInOrder, Zenon DEF Accept, BrokerInv, BrokerTypes
    <3>3. CASE UNCHANGED <<slots, handling>>
      BY <2>1, <2>4, <3>3, Zenon DEF Accept, Balanced, SlotsBalance
    <3>4. CASE slots # 0 /\ slots' = slots - 1 /\ handling' = handling \cup {h}
      <4>1. IsFiniteSet(handling') /\ Cardinality(handling') = Cardinality(handling) + 1
        BY <2>1, <3>2, <3>4, FS_AddElement, Zenon
      <4>2. server = "up" /\ server' = server
        BY <2>4, Zenon DEF Accept
      <4> QED  BY <2>1, <3>4, <4>1, <4>2 DEF Balanced, SlotsBalance
    <3> QED  BY <2>4, <3>1, <3>3, <3>4, Zenon DEF Accept
  <2>5. CASE Stop \/ Close
    <3>1. CASE Close
      BY <2>1, <3>1, Zenon DEF Close, Balanced, SlotsBalance
    <3>2. CASE Stop
      <4>1. /\ server = "up" /\ server' = "closing" /\ slots' = slots
            /\ handling' \in SUBSET handling
        BY <3>2, Zenon DEF Stop
      <4>2. /\ IsFiniteSet(handling') /\ Cardinality(handling') \in Nat
            /\ Cardinality(handling') <= Cardinality(handling)
        BY <2>1, <4>1, FS_Subset, FS_CardinalityType, Zenon
      <4> QED  BY <2>1, <4>1, <4>2 DEF Balanced, SlotsBalance
    <3> QED  BY <2>5, <3>1, <3>2, Zenon
  <2>6. CASE \E h \in handling : Handle(h)
    <3>1. PICK h \in handling : Handle(h)
      BY <2>6, Zenon
    <3>2. PICK a : Answered(h, a)
      BY <3>1, Zenon DEF Handle
    <3>3. PICK g : g = [h EXCEPT !.answer = a]
      BY Zenon
    <3>4. handling' = (handling \ {h}) \cup {g} /\ UNCHANGED <<server, slots>>
      BY <3>1, <3>2, <3>3, Zenon DEF Answered, Handle
    <3>5. g \notin handling \ {h}
      <4>1. h \in Handlings /\ g.q = h.q
        BY <3>3, Zenon DEF BrokerInv, BrokerTypes, Handlings
      <4> QED  BY <4>1, Zenon DEF BrokerInv, InOrder
    <3>6. IsFiniteSet(handling \ {h}) /\ Cardinality(handling \ {h}) = Cardinality(handling) - 1
      BY <2>1, FS_RemoveElement, Zenon
    <3>7. /\ IsFiniteSet(handling')
          /\ Cardinality(handling') = Cardinality(handling \ {h}) + 1
      BY <3>4, <3>5, <3>6, FS_AddElement, Zenon
    <3> QED  BY <2>1, <3>4, <3>6, <3>7 DEF Balanced, SlotsBalance
  <2>7. CASE \E h \in handling : Reply(h)
    <3>1. PICK h \in handling : Reply(h)
      BY <2>7, Zenon
    <3>2. handling' = handling \ {h} /\ slots' = slots + 1 /\ UNCHANGED server
      BY <3>1, Zenon DEF Reply
    <3>3. IsFiniteSet(handling') /\ Cardinality(handling') = Cardinality(handling) - 1
      BY <2>1, <3>2, FS_RemoveElement, Zenon
    <3> QED  BY <2>1, <3>2, <3>3 DEF Balanced, SlotsBalance
  <2>8. CASE \E c \in Client : (\E op \in OpId \cup {None} : Submit(c, op)) \/ AskCancel(c) \/ AskEdit(c)
                               \/ AskNotice(c) \/ BeginPatch(c) \/ Connect(c) \/ NothingToDo(c) \/ Timeout(c) \/ Local(c)
    BY <2>2, <2>8, Zenon DEF Submit, AskCancel, AskEdit, AskNotice, BeginPatch, Connect, NothingToDo, Timeout,
                             Local, broker
  <2>9. CASE \E c \in Client : Verify(c) \/ Drop(c) \/ Clean(c) \/ Sweep(c) \/ Die(c)
    BY <2>2, <2>9, Zenon DEF Verify, Drop, Clean, Sweep, Die, broker
  <2>10. CASE UNCHANGED vars
    BY <2>2, <2>10, Zenon DEF vars
  <2> QED
    BY <2>3, <2>4, <2>5, <2>6, <2>7, <2>8, <2>9, <2>10, Zenon DEF Next
<1>3. Balanced => SlotsBalance
  BY Zenon DEF Balanced
<1> QED
  BY <1>1, <1>2, <1>3, AlwaysBrokerInv, PTL DEF Spec

-----------------------------------------------------------------------------
(* Job transactions that give up.                                          *)

Refusal(a) == a.ok /\ a.out = "not committed"

\* The client me has counted a commit of another for each refusal but one; for each, while
\* ledger.json f lags behind the ledger.
Ahead(me, led, f) == me.others >= me.tries - 1 /\ (f # led => me.others >= me.tries)

\* While its request q is on its way, the client has counted one less, unless the ledger
\* has moved on from what the patch was computed from.
Racing(me, q, led) == me.others >= me.tries - 2 /\ (q.arg.base # led => me.others >= me.tries - 1)

Asks(me, q) == me.pc = "wait" /\ me.kind = "patch" /\ q.n = me.n

AskedInBacklog(me, b, led) ==
    \A k \in DOMAIN b : Asks(me, b[k]) => b[k].kind = "patch" /\ Racing(me, b[k], led)

HandledFor(me, h, led, f) ==
    Asks(me, h.q) => /\ h.q.kind = "patch"
                     /\ h.answer = None => Racing(me, h.q, led)
                     /\ h.answer # None /\ Refusal(h.answer) => Ahead(me, led, f)

\* What holds of a client whose job transaction goes through the broker.
Tracked(me, b, hs, led, f) ==
    /\ me.kind = "patch" /\ me.pc \in {"call", "wait"} => me.tries <= MaxTries
    /\ me.kind = "patch" /\ me.pc = "call" => me.tries < MaxTries /\ Ahead(me, led, f)
    /\ AskedInBacklog(me, b, led)
    /\ \A h \in hs : HandledFor(me, h, led, f)

\* A local store has no broker.
LocalQuiet == transport = "local" => backlog = <<>> /\ handling = {} /\ server = "down"

Counted ==
    /\ LocalQuiet /\ GivesUpWhenOvertaken
    /\ transport = "broker" => \A c \in Client : Tracked(client[c], backlog, handling, ledger, file)

\* A client that waits for nothing needs no count.
LEMMA NotWaiting ==
    ASSUME NEW me, NEW b, NEW hs, NEW led, NEW f,
           me.pc \notin {"call", "wait"} \/ me.kind # "patch"
    PROVE  Tracked(me, b, hs, led, f)
BY Zenon DEF Tracked, AskedInBacklog, HandledFor, Asks

\* Where the requests b2 and hs2 come from: they were on their way before, have been
\* accepted, or have been answered without a refusal.
ComesFrom(b, hs, b2, hs2) ==
    /\ \A k \in DOMAIN b2 : \E j \in DOMAIN b : b2[k] = b[j]
    /\ \A h \in hs2 : \/ h \in hs
                      \/ h.answer = None /\ \E j \in DOMAIN b : h.q = b[j]
                      \/ h.answer # None /\ ~Refusal(h.answer) /\ \E g \in hs : h.q = g.q

\* Requests move and ledger.json is brought up to date, but the ledger stays.
LEMMA RequestsMove ==
    ASSUME NEW me, NEW b, NEW hs, NEW led, NEW f, NEW b2, NEW hs2, NEW f2 \in {f, led},
           Tracked(me, b, hs, led, f), ComesFrom(b, hs, b2, hs2)
    PROVE  Tracked(me, b2, hs2, led, f2)
<1>1. Ahead(me, led, f) => Ahead(me, led, f2)
  BY Zenon DEF Ahead
<1>2. AskedInBacklog(me, b2, led)
  BY Zenon DEF Tracked, AskedInBacklog, ComesFrom
<1>3. ASSUME NEW h \in hs2 PROVE HandledFor(me, h, led, f2)
  <2>1. CASE h \in hs
    BY <1>1, <2>1, Zenon DEF Tracked, HandledFor
  <2>2. CASE h.answer = None /\ \E j \in DOMAIN b : h.q = b[j]
    BY <2>2, Zenon DEF Tracked, HandledFor, AskedInBacklog
  <2>3. CASE h.answer # None /\ ~Refusal(h.answer) /\ \E g \in hs : h.q = g.q
    BY <2>3, Zenon DEF Tracked, HandledFor
  <2> QED  BY <1>3, <2>1, <2>2, <2>3, Zenon DEF ComesFrom
<1> QED
  BY <1>1, <1>2, <1>3, Zenon DEF Tracked

\* Another command changes the ledger: the client counts it.
LEMMA OthersCommit ==
    ASSUME NEW me \in Commands, NEW b, NEW hs, NEW led, NEW f, NEW hs2, NEW led2, NEW f2,
           NEW new \in Commands, Tracked(me, b, hs, led, f), me.kind = "patch",
           new.pc = me.pc, new.n = me.n, new.kind = me.kind, new.tries = me.tries,
           new.others = IF me.others < MaxTries THEN me.others + 1 ELSE me.others,
           \A h \in hs2 : h \in hs \/ h.q.n # me.n
    PROVE  Tracked(new, b, hs2, led2, f2)
<1>1. CASE me.pc \in {"call", "wait"}
  <2>1. me.others \in Nat /\ me.tries \in Nat /\ MaxTries \in Nat /\ me.tries <= MaxTries
    BY <1>1, BrokerAssumption, Zenon DEF Commands, Tracked
  <2>2. Ahead(me, led, f) => Ahead(new, led2, f2)
    BY <2>1 DEF Ahead
  <2>3. \A q : Racing(me, q, led) => Racing(new, q, led2)
    BY <2>1 DEF Racing
  <2>4. \A q : Asks(new, q) <=> Asks(me, q)
    BY Zenon DEF Asks
  <2>5. AskedInBacklog(new, b, led2)
    BY <2>3, <2>4, Zenon DEF Tracked, AskedInBacklog
  <2>6. \A h \in hs2 : HandledFor(new, h, led2, f2)
    <3>1. \A h \in hs : HandledFor(me, h, led, f)
      BY Zenon DEF Tracked
    <3>2. \A h : h.q.n # me.n => ~Asks(me, h.q)
      BY Zenon DEF Asks
    <3> QED  BY <2>2, <2>3, <2>4, <3>1, <3>2, Zenon DEF HandledFor
  <2> QED  BY <2>2, <2>5, <2>6, Zenon DEF Tracked
<1>2. CASE me.pc \notin {"call", "wait"}
  BY <1>2, NotWaiting, Zenon
<1> QED
  BY <1>1, <1>2, Zenon

AllTracked(cl, b, hs, led, f) == \A c \in Client : Tracked(cl[c], b, hs, led, f)

\* One client moves on to m, and the ledger stays.
LEMMA OneTracks ==
    ASSUME NEW cl \in [Client -> Commands], NEW c \in Client, NEW m, NEW b, NEW hs, NEW led, NEW f,
           NEW b2, NEW hs2, NEW f2 \in {f, led}, AllTracked(cl, b, hs, led, f),
           ComesFrom(b, hs, b2, hs2), Tracked(m, b2, hs2, led, f2)
    PROVE  AllTracked([cl EXCEPT ![c] = m], b2, hs2, led, f2)
<1> SUFFICES ASSUME NEW d \in Client PROVE Tracked([cl EXCEPT ![c] = m][d], b2, hs2, led, f2)
  BY Zenon DEF AllTracked
<1>1. CASE d = c
  BY <1>1, Zenon
<1>2. CASE d # c
  <2>1. Tracked(cl[d], b, hs, led, f)
    BY Zenon DEF AllTracked
  <2> QED  BY <1>2, <2>1, RequestsMove, Zenon
<1> QED
  BY <1>1, <1>2, Zenon

\* Nothing that is on its way changes.
LEMMA SameRequests == \A b, hs : ComesFrom(b, hs, b, hs)
BY Zenon DEF ComesFrom

\* The broker starts, accepts, stops, closes or is killed.
LEMMA ServerTracks ==
    ASSUME BrokerInv, AllTracked(client, backlog, handling, ledger, file),
           Start \/ Accept \/ Stop \/ Close \/ Kill
    PROVE  AllTracked(client', backlog', handling', ledger', file')
<1>1. UNCHANGED <<ledger, client>> /\ file' \in {file, ledger}
  BY Zenon DEF Start, Accept, Stop, Close, Kill, storage
<1>2. ComesFrom(backlog, handling, backlog', handling')
  <2>1. CASE backlog' = <<>> /\ handling' \subseteq handling
    BY <2>1 DEF ComesFrom
  <2>2. CASE UNCHANGED <<backlog, handling>>
    BY <2>2, SameRequests, Zenon
  <2>3. CASE Accept
    <3>1. PICK h : h = [q |-> Head(backlog), answer |-> None]
      BY Zenon
    <3>2. h.q = Head(backlog) /\ h.answer = None
      BY <3>1, Zenon
    <3>3. backlog' = Tail(backlog) /\ handling' \subseteq handling \cup {h} /\ backlog # <<>>
      BY <2>3, <3>1, Zenon DEF Accept
    <3>4. backlog \in Seq(Messages)
      BY Zenon DEF BrokerInv, BrokerTypes
    <3>5. Head(backlog) = backlog[1] /\ 1 \in DOMAIN backlog
      BY <3>3, <3>4
    <3>6. \A k \in DOMAIN Tail(backlog) : k + 1 \in DOMAIN backlog /\ Tail(backlog)[k] = backlog[k + 1]
      BY <3>3, <3>4
    <3> QED  BY <3>2, <3>3, <3>5, <3>6, Zenon DEF ComesFrom
  <2> QED  BY <2>1, <2>2, <2>3, Zenon DEF Start, Stop, Close, Kill
<1> QED
  BY <1>1, <1>2, RequestsMove, Zenon DEF AllTracked

\* An answer reaches its client, or nobody.
LEMMA ReplyTracks ==
    ASSUME BrokerInv, AllTracked(client, backlog, handling, ledger, file), NEW h \in handling, Reply(h)
    PROVE  /\ AllTracked(client', backlog', handling', ledger', file')
           /\ \A k \in gaveUp' : k \in gaveUp \/ k >= MaxTries - 1
<1>1. /\ UNCHANGED <<ledger, file, backlog>> /\ handling' = handling \ {h} /\ h.answer # None
      /\ \/ UNCHANGED <<client, gaveUp>>
         \/ \E c \in Client : Awaits(c, h.q) /\ Returns(c, h.answer)
  BY Zenon DEF Reply, storage
<1>2. ComesFrom(backlog, handling, backlog', handling')
  BY <1>1, Zenon DEF ComesFrom
<1>3. CASE UNCHANGED <<client, gaveUp>>
  BY <1>1, <1>2, <1>3, RequestsMove, Zenon DEF AllTracked
<1>4. CASE \E c \in Client : Awaits(c, h.q) /\ Returns(c, h.answer)
  <2>1. PICK c \in Client : Awaits(c, h.q) /\ Returns(c, h.answer)
    BY <1>4, Zenon
  <2>2. PICK me : me = client[c]
    BY Zenon
  <2>3. client \in [Client -> Commands] /\ me \in Commands
    BY <2>2, Zenon DEF BrokerInv, BrokerTypes
  <2>4. PICK m : m = After(c, h.answer)
    BY Zenon
  <2>5. /\ m \in Commands /\ m.pc \in {"idle", "verify", "clean", "call"}
        /\ m.pc # "idle" => /\ m.n = me.n /\ m.kind = me.kind
                            /\ m.tries = me.tries /\ m.others = me.others
        /\ m.pc = "call" => NotCommitted(c, h.answer) /\ ~GivesUp(c, h.answer)
    BY <2>2, <2>3, <2>4, AfterFields, Zenon
  <2>6. NotCommitted(c, h.answer) => Ahead(me, ledger, file)
    <3>1. HandledFor(me, h, ledger, file)
      BY <2>2, Zenon DEF AllTracked, Tracked
    <3>2. NotCommitted(c, h.answer) => Asks(me, h.q) /\ Refusal(h.answer)
      BY <2>1, <2>2, Zenon DEF NotCommitted, Awaits, Asks, Refusal
    <3> QED  BY <1>1, <3>1, <3>2, Zenon DEF HandledFor
  <2>7. me.tries \in Nat /\ me.others \in Nat /\ MaxTries \in Nat
    BY <2>3, BrokerAssumption, Zenon DEF Commands
  <2>8. Tracked(m, backlog', handling', ledger, file)
    <3>1. CASE m.pc = "call"
      <4>1. m.tries < MaxTries /\ Ahead(m, ledger, file)
        BY <2>2, <2>5, <2>6, <2>7, <3>1 DEF GivesUp, Ahead
      <4> QED  BY <2>5, <2>7, <3>1, <4>1, SMTT(30) DEF Tracked, AskedInBacklog, HandledFor, Asks
    <3>2. CASE m.pc # "call"
      BY <2>5, <3>2, NotWaiting, Zenon
    <3> QED  BY <3>1, <3>2, Zenon
  <2>9. client' = [client EXCEPT ![c] = m] /\ gaveUp' \subseteq gaveUp \cup {me.others}
        /\ (gaveUp' = gaveUp \/ GivesUp(c, h.answer))
    BY <2>1, <2>2, <2>4, Zenon DEF Returns
  <2>10. AllTracked(client', backlog', handling', ledger', file')
    BY <1>1, <1>2, <2>3, <2>8, <2>9, OneTracks, Zenon
  <2>11. GivesUp(c, h.answer) => me.others >= MaxTries - 1
    BY <2>2, <2>6, <2>7 DEF GivesUp, Ahead
  <2> QED  BY <2>9, <2>10, <2>11, Zenon
<1> QED
  BY <1>1, <1>3, <1>4, Zenon

\* A client begins a command, or one that waits for nothing moves on.
LEMMA MovesTrack ==
    ASSUME BrokerInv, AllTracked(client, backlog, handling, ledger, file), NEW c \in Client,
           \/ (\E op \in OpId \cup {None} : Submit(c, op)) \/ AskCancel(c) \/ AskEdit(c) \/ AskNotice(c)
           \/ BeginPatch(c) \/ NothingToDo(c) \/ Timeout(c) \/ Verify(c) \/ Drop(c) \/ Clean(c)
           \/ Sweep(c) \/ Die(c)
    PROVE  AllTracked(client', backlog', handling', ledger', file')
<1>1. UNCHANGED <<ledger, backlog, handling>> /\ file' \in {file, ledger}
  <2>1. CASE (\E op \in OpId \cup {None} : Submit(c, op)) \/ AskCancel(c) \/ AskEdit(c) \/ AskNotice(c)
             \/ BeginPatch(c)
    BY <2>1, Zenon DEF Submit, AskCancel, AskEdit, AskNotice, BeginPatch, broker, storage, Load
  <2>2. CASE \/ NothingToDo(c) \/ Timeout(c) \/ Verify(c) \/ Drop(c) \/ Clean(c) \/ Sweep(c) \/ Die(c)
    BY <2>2, Zenon DEF NothingToDo, Timeout, Verify, Drop, Clean, Sweep, Die, broker, storage, Load
  <2> QED  BY <2>1, <2>2, Zenon
<1>2. \E m \in Commands : /\ client' = [client EXCEPT ![c] = m]
                          /\ Tracked(m, backlog, handling, ledger, file')
  <2>1. CASE (\E op \in OpId \cup {None} : Submit(c, op)) \/ AskCancel(c) \/ AskEdit(c) \/ AskNotice(c)
             \/ BeginPatch(c)
    <3>1. PICK m \in Commands : /\ client' = [client EXCEPT ![c] = m]
                                /\ m.pc = "call" /\ m.tries = 0 /\ m.others = 0
      BY <2>1, BeginMoves, Zenon
    <3>2. Ahead(m, ledger, file') /\ m.tries < MaxTries /\ m.tries <= MaxTries
      BY <3>1, BrokerAssumption, SMTT(30) DEF Ahead
    <3>3. Tracked(m, backlog, handling, ledger, file')
      BY <3>1, <3>2, Zenon DEF Tracked, AskedInBacklog, HandledFor, Asks
    <3> QED  BY <3>1, <3>3, Zenon
  <2>2. CASE \/ NothingToDo(c) \/ Timeout(c) \/ Verify(c) \/ Drop(c) \/ Clean(c) \/ Sweep(c) \/ Die(c)
    <3>1. PICK m \in Commands : client' = [client EXCEPT ![c] = m] /\ m.pc \notin {"call", "wait"}
      BY <2>2, LaterMoves, Zenon
    <3> QED  BY <3>1, NotWaiting, Zenon
  <2> QED  BY <2>1, <2>2, Zenon
<1>3. client \in [Client -> Commands]
  BY Zenon DEF BrokerInv, BrokerTypes
<1>4. PICK m \in Commands : /\ client' = [client EXCEPT ![c] = m]
                             /\ Tracked(m, backlog, handling, ledger, file')
  BY <1>2, Zenon
<1>5. PICK f \in {file, ledger} : f = file'
  BY <1>1, Zenon
<1>6. Tracked(m, backlog, handling, ledger, f) /\ ComesFrom(backlog, handling, backlog, handling)
  BY <1>4, <1>5, SameRequests, Zenon
<1>7. AllTracked([client EXCEPT ![c] = m], backlog, handling, ledger, f)
  <2> SUFFICES ASSUME NEW d \in Client
               PROVE  Tracked([client EXCEPT ![c] = m][d], backlog, handling, ledger, f)
    BY Zenon DEF AllTracked
  <2>1. Tracked(client[d], backlog, handling, ledger, file)
    BY Zenon DEF AllTracked
  <2>2. Tracked(client[d], backlog, handling, ledger, f)
    BY <1>5, <1>6, <2>1, RequestsMove, Zenon
  <2> QED  BY <1>3, <1>6, <2>2, Zenon
<1> QED
  BY <1>1, <1>4, <1>5, <1>7, Zenon

\* A request is sent: the patch was computed from ledger.json.
LEMMA ConnectTracks ==
    ASSUME BrokerInv, AllTracked(client, backlog, handling, ledger, file), NEW c \in Client, Connect(c)
    PROVE  AllTracked(client', backlog', handling', ledger', file')
<1>1. UNCHANGED <<ledger, file, handling>> /\ transport = "broker" /\ client[c].pc = "call"
  BY Zenon DEF Connect, storage
<1>2. PICK me : me = client[c]
  BY Zenon
<1>3. client \in [Client -> Commands] /\ me \in Commands /\ backlog \in Seq(Messages)
  BY <1>2, Zenon DEF BrokerInv, BrokerTypes
<1>4. CASE /\ client' = [client EXCEPT ![c] = After(c, [ok |-> FALSE, out |-> None])]
           /\ UNCHANGED backlog
  <2>1. PICK a : a = [ok |-> FALSE, out |-> None]
    BY Zenon
  <2>2. PICK m : m = After(c, a)
    BY Zenon
  <2>3. m.pc \in {"idle", "verify", "clean", "call"} /\ (m.pc = "call" => NotCommitted(c, a))
    BY <1>3, <2>2, AfterFields, Zenon
  <2>4. ~NotCommitted(c, a)
    BY <2>1, Zenon DEF NotCommitted
  <2>5. Tracked(m, backlog, handling, ledger, file)
    BY <2>3, <2>4, NotWaiting, Zenon
  <2> QED  BY <1>1, <1>3, <1>4, <2>1, <2>2, <2>5, SameRequests, OneTracks, Zenon
<1>5. CASE /\ backlog' = Append(backlog, Request(c))
           /\ client' = [client EXCEPT ![c].pc = "wait", ![c].tries = @ + 1]
  <2>1. PICK q : q = Request(c)
    BY Zenon
  <2>2. /\ q \in Messages /\ q.n = me.n /\ q.kind = me.kind /\ q.n \in 1 .. calls
        /\ ~SentIn(backlog, handling, me.n) /\ (me.kind = "patch" => q.arg.base = file)
    BY <1>1, <1>2, <2>1, RequestIsMeant, Zenon DEF Loaded
  <2>3. PICK m : m = [me EXCEPT !.pc = "wait", !.tries = @ + 1]
    BY Zenon
  <2>4. /\ m \in Commands /\ m.pc = "wait" /\ m.n = me.n /\ m.kind = me.kind
        /\ m.tries = me.tries + 1 /\ m.others = me.others
    BY <1>3, <2>3, Waiting, Zenon
  <2>5. client' = [client EXCEPT ![c] = m]
    BY <1>2, <1>3, <1>5, <2>3, Zenon
  <2>6. \A k \in DOMAIN backlog' : (k \in DOMAIN backlog /\ backlog'[k] = backlog[k]) \/ backlog'[k] = q
    BY <1>3, <1>5, <2>1, <2>2
  <2>7. ASSUME NEW d \in Client PROVE Tracked(client'[d], backlog', handling, ledger, file)
    <3>1. CASE d = c
      <4>1. CASE me.kind = "patch"
        <5>1. me.tries < MaxTries /\ Ahead(me, ledger, file)
          BY <1>1, <1>2, <4>1, Zenon DEF AllTracked, Tracked
        <5>2. me.tries \in Nat /\ me.others \in Nat /\ MaxTries \in Nat
          BY <1>3, BrokerAssumption, Zenon DEF Commands
        <5>3. Racing(m, q, ledger) /\ m.tries <= MaxTries
          BY <2>2, <2>4, <4>1, <5>1, <5>2 DEF Ahead, Racing
        <5>4. AskedInBacklog(m, backlog', ledger)
          BY <2>2, <2>4, <2>6, <4>1, <5>3, Zenon DEF AskedInBacklog, Asks, SentIn
        <5>5. \A h \in handling : ~Asks(m, h.q)
          BY <2>2, <2>4, Zenon DEF SentIn, Asks
        <5> QED  BY <1>3, <2>4, <2>5, <3>1, <5>3, <5>4, <5>5, Zenon DEF Tracked, HandledFor
      <4>2. CASE me.kind # "patch"
        BY <1>3, <2>4, <2>5, <3>1, <4>2, NotWaiting, Zenon
      <4> QED  BY <4>1, <4>2, Zenon
    <3>2. CASE d # c
      <4>1. client'[d] = client[d] /\ Tracked(client[d], backlog, handling, ledger, file)
        BY <1>3, <2>5, <3>2, Zenon DEF AllTracked
      <4>2. ~Asks(client[d], q)
        BY <1>1, <1>2, <2>2, <3>2, Zenon DEF Asks, BrokerInv, ClientsInOrder
      <4>3. AskedInBacklog(client[d], backlog', ledger)
        BY <2>6, <4>1, <4>2, Zenon DEF Tracked, AskedInBacklog
      <4> QED  BY <4>1, <4>3, Zenon DEF Tracked
    <3> QED  BY <3>1, <3>2, Zenon
  <2> QED  BY <1>1, <2>7, Zenon DEF AllTracked
<1> QED
  BY <1>4, <1>5, Zenon DEF Connect

\* The request of me itself is answered: a refusal means that the ledger was not the one
\* the patch was computed from.
LEMMA OwnAnswer ==
    ASSUME NEW me \in Commands, NEW b, NEW hs, NEW led, NEW f, NEW led2, NEW f2, NEW hs2, NEW h \in hs,
           NEW g, Tracked(me, b, hs, led, f), me.pc = "wait", me.kind = "patch", h.q.n = me.n,
           \A k \in DOMAIN b : b[k].n # me.n, \A x \in hs2 : x.q.n # me.n \/ x = g,
           h.answer = None, g.answer # None, g.q = h.q,
           Refusal(g.answer) => led2 = led /\ f2 = led2 /\ led # h.q.arg.base
    PROVE  Tracked(me, b, hs2, led2, f2)
<1>1. h.q.kind = "patch" /\ Racing(me, h.q, led)
  BY Zenon DEF Tracked, HandledFor, Asks
<1>2. me.others \in Nat /\ me.tries \in Nat
  BY Zenon DEF Commands
<1>3. Refusal(g.answer) => Ahead(me, led2, f2)
  BY <1>1, <1>2, Zenon DEF Racing, Ahead
<1>4. HandledFor(me, g, led2, f2)
  BY <1>1, <1>3, Zenon DEF HandledFor
<1>5. \A x : x.q.n # me.n => HandledFor(me, x, led2, f2)
  BY Zenon DEF HandledFor, Asks
<1>6. AskedInBacklog(me, b, led2)
  BY Zenon DEF AskedInBacklog, Asks
<1> QED
  BY <1>4, <1>5, <1>6, Zenon DEF Tracked

\* The request of another is answered, and the ledger stays.
LEMMA OtherAnswer ==
    ASSUME NEW me, NEW b, NEW hs, NEW led, NEW f, NEW f2 \in {f, led}, NEW hs2,
           Tracked(me, b, hs, led, f), \A x \in hs2 : x \in hs \/ x.q.n # me.n
    PROVE  Tracked(me, b, hs2, led, f2)
<1>1. Tracked(me, b, hs, led, f2)
  BY SameRequests, RequestsMove, Zenon
<1>2. \A x : x.q.n # me.n => HandledFor(me, x, led, f2)
  BY Zenon DEF HandledFor, Asks
<1> QED
  BY <1>1, <1>2, Zenon DEF Tracked

\* A request is handled.
LEMMA HandleTracks ==
    ASSUME BrokerInv, AllTracked(client, backlog, handling, ledger, file), NEW h \in handling, Handle(h)
    PROVE  AllTracked(client', backlog', handling', ledger', file')
<1>1. /\ h \in Handlings /\ h.answer = None /\ UNCHANGED backlog /\ ledger \in Ledgers
      /\ h.q \in Messages /\ Meant(h.q) /\ client \in [Client -> Commands]
  BY Zenon DEF Handle, BrokerInv, BrokerTypes, Handlings, InOrder
<1>2. ASSUME NEW a \in Answer, NEW g, g = [h EXCEPT !.answer = a]
      PROVE  g.q = h.q /\ g.answer = a /\ g.answer # None
  <2>1. g.q = h.q /\ g.answer = a
    BY <1>1, <1>2, Zenon DEF Handlings
  <2> QED  BY <2>1, BrokerAssumption, Zenon
<1>3. CASE Answered(h, [ok |-> FALSE, out |-> None]) /\ UNCHANGED <<storage, client>>
  <2>1. PICK a : a = [ok |-> FALSE, out |-> None]
    BY Zenon
  <2>2. a \in Answer /\ ~Refusal(a)
    BY <2>1, Zenon DEF Answer, Refusal
  <2>3. PICK g : g = [h EXCEPT !.answer = a]
    BY Zenon
  <2>4. g.q = h.q /\ g.answer = a /\ g.answer # None
    BY <1>2, <2>2, <2>3, Zenon
  <2>5. handling' = (handling \ {h}) \cup {g} /\ UNCHANGED <<ledger, file, client>>
    BY <1>3, <2>1, <2>3, Zenon DEF Answered, storage
  <2>6. ComesFrom(backlog, handling, backlog, handling')
    BY <2>2, <2>4, <2>5, Zenon DEF ComesFrom
  <2> QED  BY <1>1, <2>5, <2>6, RequestsMove DEF AllTracked
<1>4. ASSUME NEW t, t = Dispatch(ledger, h.q), Transact(t),
             Answered(h, [ok |-> t.ok, out |-> t.out]), client' = Overtaken(t, h.q.n)
      PROVE  AllTracked(client', backlog', handling', ledger', file')
  <2>1. PICK a : a = [ok |-> t.ok, out |-> t.out]
    BY Zenon
  <2>2. a \in Answer
    BY <1>1, <1>4, <2>1, DispatchAnswers, Zenon
  <2>3. PICK g : g = [h EXCEPT !.answer = a]
    BY Zenon
  <2>4. g.q = h.q /\ g.answer = a /\ g.answer # None
    BY <1>2, <2>2, <2>3, Zenon
  <2>5. handling' = (handling \ {h}) \cup {g}
    BY <1>4, <2>1, <2>3, Zenon DEF Answered
  <2>6. ledger' = t.led /\ (file' = t.led \/ t.led # ledger)
    BY <1>4, Zenon DEF Transact
  <2>7. /\ \A k \in DOMAIN backlog : backlog[k].n # h.q.n
        /\ \A x \in handling' : x = g \/ x.q.n # h.q.n
        /\ \A x \in handling' : x \in handling \/ x.q.n = h.q.n
    BY <2>4, <2>5, Zenon DEF BrokerInv, InOrder
  <2>8. h.q.kind = "patch" /\ Refusal(a) => ledger' = ledger /\ file' = ledger' /\ ledger # h.q.arg.base
    <3>1. a.ok = t.ok /\ a.out = t.out
      BY <2>1, Zenon
    <3>2. h.q.kind = "patch" /\ Refusal(a) => t.led = ledger /\ ledger # h.q.arg.base
      <4>1. h.q.kind = "patch" /\ t.ok /\ t.out = "not committed" => t.led = ledger /\ ledger # h.q.arg.base
        <5>1. h.q.kind = "patch" /\ Dispatch(ledger, h.q).ok /\ Dispatch(ledger, h.q).out = "not committed"
                 => Dispatch(ledger, h.q).led = ledger /\ ledger # h.q.arg.base
          BY <1>1, DispatchAnswers, Zenon
        <5> QED  BY <1>4, <5>1, Zenon
      <4> QED  BY <3>1, <4>1, Zenon DEF Refusal
    <3> QED  BY <2>6, <3>2, Zenon
  <2>9. ASSUME NEW d \in Client PROVE Tracked(client'[d], backlog, handling', ledger', file')
    <3>1. PICK me : me = client[d]
      BY Zenon
    <3>2. me \in Commands /\ Tracked(me, backlog, handling, ledger, file)
      BY <1>1, <3>1, Zenon DEF AllTracked
    <3>3. PICK new : new = client'[d]
      BY Zenon
    <3>4. /\ new \in Commands /\ new.pc = me.pc /\ new.n = me.n /\ new.kind = me.kind
          /\ new.tries = me.tries
          /\ new.others = IF t.led # ledger /\ me.kind = "patch" /\ me.n # h.q.n /\ me.others < MaxTries
                          THEN me.others + 1 ELSE me.others
      BY <1>1, <1>4, <3>1, <3>3, OvertakenFields, SMTT(30)
    <3>5. t.led = ledger \/ me.n = h.q.n => new = me
      BY <1>4, <3>1, <3>3, Zenon DEF Overtaken
    <3>6. CASE me.kind # "patch" \/ me.pc \notin {"call", "wait"}
      BY <3>3, <3>4, <3>6, NotWaiting, Zenon
    <3>7. CASE me.kind = "patch" /\ me.n # h.q.n /\ t.led # ledger
      BY <2>7, <3>2, <3>3, <3>4, <3>7, OthersCommit, SMTT(30)
    <3>8. CASE me.n # h.q.n /\ t.led = ledger
      <4>1. file' \in {file, ledger} /\ ledger' = ledger /\ new = me
        BY <2>6, <3>5, <3>8, Zenon
      <4>2. \A x \in handling' : x \in handling \/ x.q.n # me.n
        BY <2>7, <3>8, Zenon
      <4>3. PICK f \in {file, ledger} : f = file'
        BY <4>1, Zenon
      <4>4. Tracked(me, backlog, handling', ledger, f)
        BY <3>2, <4>2, <4>3, OtherAnswer, Zenon
      <4> QED  BY <3>3, <4>1, <4>3, <4>4, Zenon
    <3>9. CASE me.kind = "patch" /\ me.n = h.q.n /\ me.pc \in {"call", "wait"}
      <4>1. me.pc = "wait"
        BY <3>1, <3>9, Zenon DEF BrokerInv, ClientsInOrder, SentIn
      <4>2. h.q.kind = "patch"
        BY <3>2, <3>9, <4>1, Zenon DEF Tracked, HandledFor, Asks
      <4>3. Refusal(g.answer) => ledger' = ledger /\ file' = ledger' /\ ledger # h.q.arg.base
        BY <2>4, <2>8, <4>2, Zenon
      <4>4. (\A k \in DOMAIN backlog : backlog[k].n # me.n) /\ \A x \in handling' : x.q.n # me.n \/ x = g
        BY <2>7, <3>9, Zenon
      <4>5. Tracked(me, backlog, handling', ledger', file')
        BY <1>1, <2>4, <3>2, <3>9, <4>1, <4>3, <4>4, OwnAnswer, SMTT(30)
      <4> QED  BY <3>3, <3>5, <3>9, <4>5, Zenon
    <3> QED  BY <3>6, <3>7, <3>8, <3>9, Zenon
  <2> QED  BY <1>1, <2>9, Zenon DEF AllTracked
<1> QED
  BY <1>3, <1>4, Zenon DEF Handle

\* The transport is fixed, and nothing is sent while it is local.
LEMMA TransportStays ==
    ASSUME BrokerInv, LocalQuiet, [Next]_vars
    PROVE  /\ transport \in {"local", "broker"} /\ transport' = transport
           /\ transport = "local" => UNCHANGED <<backlog, handling, server, gaveUp>>
<1>1. transport \in {"local", "broker"}
  BY BrokerAssumption, Zenon DEF BrokerInv, BrokerTypes
<1>2. CASE Start \/ Accept \/ Stop \/ Close \/ Kill \/ \E h \in handling : Handle(h) \/ Reply(h)
  BY <1>1, <1>2, Zenon DEF Start, Accept, Stop, Close, Kill, Handle, Reply, LocalQuiet
<1>3. CASE \E c \in Client : (\E op \in OpId \cup {None} : Submit(c, op)) \/ AskCancel(c) \/ AskEdit(c)
               \/ AskNotice(c) \/ BeginPatch(c) \/ Connect(c) \/ NothingToDo(c) \/ Timeout(c) \/ Local(c)
  BY <1>1, <1>3, Zenon DEF Submit, AskCancel, AskEdit, AskNotice, BeginPatch, Connect, NothingToDo, Timeout,
                             Local, broker
<1>4. CASE \E c \in Client : Verify(c) \/ Drop(c) \/ Clean(c) \/ Sweep(c) \/ Die(c)
  BY <1>1, <1>4, Zenon DEF Verify, Drop, Clean, Sweep, Die, broker
<1>5. CASE UNCHANGED vars
  BY <1>1, <1>5, Zenon DEF vars
<1> QED
  BY <1>2, <1>3, <1>4, <1>5, Zenon DEF Next

\* A job transaction that reports "ledger changed repeatedly" was overtaken
\* (GivesUpWhenOvertaken): every refusal but one stands for a commit of another client.
THEOREM OvertakenGiveUp == Spec => []GivesUpWhenOvertaken
<1>1. Init => Counted
  <2> SUFFICES ASSUME Init PROVE Counted
    BY Zenon
  <2>1. \A c \in Client : client[c].pc = "idle"
    BY IdleIsCommand, Zenon DEF Init
  <2> QED  BY <2>1, NotWaiting, Zenon DEF Init, Counted, LocalQuiet, GivesUpWhenOvertaken
<1>2. BrokerInv /\ Counted /\ [Next]_vars => Counted'
  <2> SUFFICES ASSUME BrokerInv, Counted, [Next]_vars PROVE Counted'
    BY Zenon
  <2>1. /\ transport \in {"local", "broker"} /\ transport' = transport
        /\ transport = "local" => UNCHANGED <<backlog, handling, server, gaveUp>>
    BY TransportStays, Zenon DEF Counted
  <2>2. CASE transport = "local"
    BY <2>1, <2>2, Zenon DEF Counted, LocalQuiet, GivesUpWhenOvertaken
  <2>3. CASE transport = "broker"
    <3>1. AllTracked(client, backlog, handling, ledger, file) /\ GivesUpWhenOvertaken
      BY <2>3, Zenon DEF Counted, AllTracked
    <3>2. /\ AllTracked(client', backlog', handling', ledger', file')
          /\ \A k \in gaveUp' : k \in gaveUp \/ k >= MaxTries - 1
      <4>1. CASE Start \/ Accept \/ Stop \/ Close \/ Kill
        <5>1. gaveUp' = gaveUp
          BY <4>1, Zenon DEF Start, Accept, Stop, Close, Kill
        <5> QED  BY <3>1, <4>1, <5>1, ServerTracks, Zenon
      <4>2. CASE \E h \in handling : Handle(h)
        <5>1. gaveUp' = gaveUp
          BY <4>2, Zenon DEF Handle
        <5> QED  BY <3>1, <4>2, <5>1, HandleTracks, Zenon
      <4>3. CASE \E h \in handling : Reply(h)
        BY <3>1, <4>3, ReplyTracks, Zenon
      <4>4. CASE \E c \in Client : (\E op \in OpId \cup {None} : Submit(c, op)) \/ AskCancel(c) \/ AskEdit(c)
                     \/ AskNotice(c) \/ BeginPatch(c) \/ NothingToDo(c) \/ Timeout(c)
                     \/ Verify(c) \/ Drop(c) \/ Clean(c) \/ Sweep(c) \/ Die(c)
        <5>1. gaveUp' = gaveUp
          BY <4>4, Zenon DEF Submit, AskCancel, AskEdit, AskNotice, BeginPatch, NothingToDo, Timeout, Verify, Drop,
                      Clean, Sweep, Die
        <5> QED  BY <3>1, <4>4, <5>1, MovesTrack, Zenon
      <4>5. CASE \E c \in Client : Connect(c)
        <5>1. gaveUp' = gaveUp
          BY <4>5, Zenon DEF Connect
        <5> QED  BY <3>1, <4>5, <5>1, ConnectTracks, Zenon
      <4>6. CASE \E c \in Client : Local(c)
        BY <2>3, <4>6, Zenon DEF Local
      <4>7. CASE UNCHANGED vars
        BY <3>1, <4>7, Zenon DEF vars
      <4> QED  BY <4>1, <4>2, <4>3, <4>4, <4>5, <4>6, <4>7, Zenon DEF Next
    <3>3. \A k \in gaveUp' : k >= MaxTries - 1
      BY <3>1, <3>2, Zenon DEF GivesUpWhenOvertaken
    <3> QED  BY <2>1, <2>3, <3>2, <3>3, Zenon DEF Counted, LocalQuiet, GivesUpWhenOvertaken, AllTracked
  <2> QED  BY <2>1, <2>2, <2>3, Zenon
<1>3. Counted => GivesUpWhenOvertaken
  BY Zenon DEF Counted
<1> QED
  BY <1>1, <1>2, <1>3, AlwaysBrokerInv, PTL DEF Spec

-----------------------------------------------------------------------------
(* Specs of the local store.                                               *)

\* No reservation of led has the spec x.
Unreferenced(led, x) == \A i \in DOMAIN led.res : led.res[i].spec # x

\* A submission has written its spec and not yet its reservation.
Writes(me) == me.pc = "call" /\ me.kind = "add"

SpecsThere(led, sp) ==
    \A i \in DOMAIN led.res : Needed(led.res[i]) => <<led.res[i].uid, led.res[i].spec>> \in sp

\* What a clean-up planned from: the ledger has only gone on from there, and an old spec
\* without a reservation will get none.
Foreseen(plan, led, cl, n) ==
    /\ plan \in Plans
    /\ \A i \in DOMAIN plan.res : i \in DOMAIN led.res /\ Follows(plan.res[i], led.res[i])
    /\ \A s \in plan.old : Unreferenced(plan, s[2]) =>
          /\ s[2] <= n /\ Unreferenced(led, s[2])
          /\ \A d \in Client : Writes(cl[d]) => cl[d].n # s[2]

LocalKept(led, sp, cl, n) ==
    /\ \A i \in DOMAIN led.res : led.res[i].spec <= n
    /\ \A i, j \in DOMAIN led.res : led.res[i].spec = led.res[j].spec => i = j
    /\ SpecsThere(led, sp)
    /\ \A c \in Client : Writes(cl[c]) => <<UidOf[c], cl[c].n>> \in sp /\ Unreferenced(led, cl[c].n)
    /\ \A c \in Client : cl[c].pc = "drop" => Unreferenced(led, cl[c].n)
    /\ \A c \in Client : cl[c].pc = "sweep" => Foreseen(cl[c].plan, led, cl, n)

LocalInv == LocalQuiet /\ (transport = "local" => LocalKept(ledger, specs, client, calls))

\* A client moves on to m; the ledger stays and the specs become sp2.
LEMMA MoveKeepsSpecs ==
    ASSUME NEW led \in Ledgers, NEW sp, NEW sp2, NEW cl \in [Client -> Commands], NEW n \in Nat,
           NEW n2 \in Nat, n <= n2, NEW c \in Client, NEW m \in Commands, LocalKept(led, sp, cl, n),
           SpecsThere(led, sp2),
           \A d \in Client : d # c /\ Writes(cl[d]) => <<UidOf[d], cl[d].n>> \in sp2,
           Writes(m) => <<UidOf[c], m.n>> \in sp2 /\ m.n > n,
           m.pc = "drop" => Unreferenced(led, m.n),
           m.pc = "sweep" => Foreseen(m.plan, led, cl, n)
    PROVE  LocalKept(led, sp2, [cl EXCEPT ![c] = m], n2)
<1>1. PICK new : new = [cl EXCEPT ![c] = m]
  BY Zenon
<1>2. new[c] = m /\ \A d \in Client : d # c => new[d] = cl[d]
  BY <1>1, Zenon
<1>3. \A i \in DOMAIN led.res : led.res[i].spec \in Nat /\ led.res[i].spec <= n
  BY SpecIsNat, Zenon DEF LocalKept
<1>4. m.n \in Nat
  BY Zenon DEF Commands
<1>5. Writes(m) => Unreferenced(led, m.n)
  BY <1>3, <1>4, SMTT(30) DEF Unreferenced
<1>6. ASSUME NEW plan, Foreseen(plan, led, cl, n) PROVE Foreseen(plan, led, new, n2)
  <2>1. \A s \in plan.old : s[2] \in Nat
    BY <1>6, Zenon DEF Foreseen, Plans
  <2>2. ASSUME NEW s \in plan.old, Unreferenced(plan, s[2])
        PROVE  /\ s[2] <= n2 /\ Unreferenced(led, s[2])
               /\ \A d \in Client : Writes(new[d]) => new[d].n # s[2]
    <3>1. /\ s[2] <= n /\ Unreferenced(led, s[2])
          /\ \A d \in Client : Writes(cl[d]) => cl[d].n # s[2]
      BY <1>6, <2>2, Zenon DEF Foreseen
    <3>2. s[2] \in Nat
      BY <2>1, Zenon
    <3>3. Writes(m) => m.n # s[2]
      BY <1>4, <3>1, <3>2
    <3>4. s[2] <= n2
      BY <3>1, <3>2
    <3> QED  BY <1>2, <3>1, <3>3, <3>4, Zenon
  <2> QED  BY <1>6, <2>2, Zenon DEF Foreseen
<1>7. \A d \in Client : new[d].pc = "sweep" => Foreseen(new[d].plan, led, new, n2)
  <2> SUFFICES ASSUME NEW d \in Client, new[d].pc = "sweep" PROVE Foreseen(new[d].plan, led, new, n2)
    BY Zenon
  <2>1. Foreseen(new[d].plan, led, cl, n)
    BY <1>2, Zenon DEF LocalKept
  <2> QED  BY <1>6, <2>1, Zenon
<1>8. \A d \in Client : Writes(new[d]) => <<UidOf[d], new[d].n>> \in sp2 /\ Unreferenced(led, new[d].n)
  BY <1>2, <1>5, Zenon DEF LocalKept
<1>9. \A d \in Client : new[d].pc = "drop" => Unreferenced(led, new[d].n)
  BY <1>2, Zenon DEF LocalKept
<1>10. /\ \A i \in DOMAIN led.res : led.res[i].spec <= n2
       /\ \A i, j \in DOMAIN led.res : led.res[i].spec = led.res[j].spec => i = j
  BY <1>3, SMTT(30) DEF LocalKept
<1> QED
  BY <1>1, <1>7, <1>8, <1>9, <1>10, Zenon DEF LocalKept

\* How a submission or another command of the client c changes the ledger.
Extends(led, led2, c, me) ==
    /\ \A i \in DOMAIN led.res : i \in DOMAIN led2.res /\ Follows(led.res[i], led2.res[i])
    /\ \A i, j \in DOMAIN led2.res \ DOMAIN led.res : i = j
    /\ \A i \in DOMAIN led2.res \ DOMAIN led.res :
          Writes(me) /\ led2.res[i].uid = UidOf[c] /\ led2.res[i].spec = me.n

\* The client c makes its transaction and moves on.
LEMMA WriteKeepsSpecs ==
    ASSUME NEW led \in Ledgers, NEW led2 \in Ledgers, NEW sp, NEW cl \in [Client -> Commands], NEW n \in Nat,
           NEW c \in Client, NEW new \in [Client -> Commands], LocalKept(led, sp, cl, n),
           Extends(led, led2, c, cl[c]), cl[c].n <= n,
           \A d \in Client : d # c /\ cl[d].pc # "idle" => cl[d].n # cl[c].n,
           new[c].pc \notin {"call", "drop", "sweep"},
           \A d \in Client : d # c => /\ new[d].pc = cl[d].pc /\ new[d].n = cl[d].n
                                      /\ new[d].kind = cl[d].kind /\ new[d].plan = cl[d].plan
    PROVE  LocalKept(led2, sp, new, n)
<1>1. \A i \in DOMAIN led.res : i \in DOMAIN led2.res /\ led2.res[i].spec = led.res[i].spec
  BY Zenon DEF Extends, Follows
<1>2. \A i \in DOMAIN led2.res : i \in DOMAIN led.res \/ (Writes(cl[c]) /\ led2.res[i].spec = cl[c].n)
  BY Zenon DEF Extends
<1>3. Writes(cl[c]) => <<UidOf[c], cl[c].n>> \in sp /\ Unreferenced(led, cl[c].n)
  BY Zenon DEF LocalKept
<1>4. \A x : Unreferenced(led, x) /\ (Writes(cl[c]) => x # cl[c].n) => Unreferenced(led2, x)
  BY <1>1, <1>2, Zenon DEF Unreferenced
<1>5. \A i \in DOMAIN led2.res : led2.res[i].spec <= n
  BY <1>1, <1>2, Zenon DEF LocalKept
<1>6. \A i, j \in DOMAIN led2.res : led2.res[i].spec = led2.res[j].spec => i = j
  <2> SUFFICES ASSUME NEW i \in DOMAIN led2.res, NEW j \in DOMAIN led2.res,
                      led2.res[i].spec = led2.res[j].spec
               PROVE  i = j
    BY Zenon
  <2>1. CASE i \in DOMAIN led.res /\ j \in DOMAIN led.res
    BY <1>1, <2>1, Zenon DEF LocalKept
  <2>2. CASE i \notin DOMAIN led.res /\ j \notin DOMAIN led.res
    BY <2>2, Zenon DEF Extends
  <2>3. \A k \in DOMAIN led.res, l \in DOMAIN led2.res \ DOMAIN led.res : led2.res[k].spec # led2.res[l].spec
    BY <1>1, <1>2, <1>3, Zenon DEF Unreferenced
  <2> QED  BY <2>1, <2>2, <2>3, Zenon
<1>7. SpecsThere(led2, sp)
  <2> SUFFICES ASSUME NEW i \in DOMAIN led2.res, Needed(led2.res[i])
               PROVE  <<led2.res[i].uid, led2.res[i].spec>> \in sp
    BY Zenon DEF SpecsThere
  <2>1. CASE i \in DOMAIN led.res
    <3>1. Follows(led.res[i], led2.res[i]) /\ led.res \in Seq(Reservations)
      BY <2>1, Zenon DEF Extends, Ledgers
    <3>2. led.res[i] \in Reservations
      BY <2>1, <3>1
    <3>3. /\ Needed(led.res[i])
          /\ led2.res[i].uid = led.res[i].uid /\ led2.res[i].spec = led.res[i].spec
      BY <3>1, <3>2, Zenon DEF Follows, Needed, Reservations
    <3>4. <<led.res[i].uid, led.res[i].spec>> \in sp
      BY <2>1, <3>3, Zenon DEF LocalKept, SpecsThere
    <3> QED  BY <3>3, <3>4, Zenon
  <2>2. CASE i \notin DOMAIN led.res
    BY <1>3, <2>2, Zenon DEF Extends
  <2> QED  BY <2>1, <2>2, Zenon
<1>8. ASSUME NEW d \in Client, Writes(new[d])
      PROVE  <<UidOf[d], new[d].n>> \in sp /\ Unreferenced(led2, new[d].n)
  <2>1. d # c /\ Writes(cl[d]) /\ new[d].n = cl[d].n /\ cl[d].n # cl[c].n
    BY <1>8, Zenon DEF Writes
  <2>2. <<UidOf[d], cl[d].n>> \in sp /\ Unreferenced(led, cl[d].n)
    BY <2>1, Zenon DEF LocalKept
  <2> QED  BY <1>4, <2>1, <2>2, Zenon
<1>9. ASSUME NEW d \in Client, new[d].pc = "drop" PROVE Unreferenced(led2, new[d].n)
  <2>1. d # c /\ cl[d].pc = "drop" /\ new[d].n = cl[d].n /\ cl[d].n # cl[c].n
    BY <1>9, Zenon
  <2>2. Unreferenced(led, cl[d].n)
    BY <2>1, Zenon DEF LocalKept
  <2> QED  BY <1>4, <2>1, <2>2, Zenon
<1>10. ASSUME NEW d \in Client, new[d].pc = "sweep" PROVE Foreseen(new[d].plan, led2, new, n)
  <2>1. PICK plan : plan = cl[d].plan
    BY Zenon
  <2>2. d # c /\ new[d].plan = plan /\ Foreseen(plan, led, cl, n)
    BY <1>10, <2>1, Zenon DEF LocalKept
  <2>3. ASSUME NEW i \in DOMAIN plan.res
        PROVE  i \in DOMAIN led2.res /\ Follows(plan.res[i], led2.res[i])
    <3>1. i \in DOMAIN led.res /\ Follows(plan.res[i], led.res[i])
      BY <2>2, Zenon DEF Foreseen
    <3>2. i \in DOMAIN led2.res /\ Follows(led.res[i], led2.res[i])
      BY <3>1, Zenon DEF Extends
    <3> QED  BY <3>1, <3>2, Zenon DEF Follows
  <2>4. ASSUME NEW s \in plan.old, Unreferenced(plan, s[2])
        PROVE  /\ s[2] <= n /\ Unreferenced(led2, s[2])
               /\ \A e \in Client : Writes(new[e]) => new[e].n # s[2]
    <3>1. /\ s[2] <= n /\ Unreferenced(led, s[2])
          /\ \A e \in Client : Writes(cl[e]) => cl[e].n # s[2]
      BY <2>2, <2>4, Zenon DEF Foreseen
    <3>2. \A e \in Client : Writes(new[e]) => Writes(cl[e]) /\ new[e].n = cl[e].n
      BY Zenon DEF Writes
    <3> QED  BY <1>4, <3>1, <3>2, Zenon
  <2> QED  BY <2>2, <2>3, <2>4, Zenon DEF Foreseen
<1> QED
  BY <1>5, <1>6, <1>7, <1>8, <1>9, <1>10, Zenon DEF LocalKept

\* A local transaction extends the ledger.
LEMMA LocalExtends ==
    ASSUME BrokerInv, NEW c \in Client, client[c].pc = "call",
           NEW led2 \in {ledger, Dispatch(ledger, Request(c)).led}
    PROVE  led2 \in Ledgers /\ Extends(ledger, led2, c, client[c])
<1>1. PICK q : q = Request(c)
  BY Zenon
<1>2. /\ q \in Messages /\ Meant(q) /\ q.n = client[c].n /\ q.uid = UidOf[c]
      /\ q.kind = client[c].kind
  BY <1>1, RequestIsMeant, Zenon
<1>3. PICK t : t = Dispatch(ledger, q)
  BY Zenon
<1>4. ledger \in Ledgers /\ Sound(ledger, q, t)
  BY <1>2, <1>3, DispatchIsSound, Zenon DEF BrokerInv, BrokerTypes
<1>5. CASE led2 = ledger
  BY <1>4, <1>5, Zenon DEF Extends, Follows
<1>6. CASE led2 = t.led
  <2>1. \A i \in DOMAIN led2.res \ DOMAIN ledger.res :
           /\ i = Len(ledger.res) + 1 /\ q.kind = "add" /\ led2.res[i] = Reservation(q.uid, q.arg, q.n)
    BY <1>4, <1>6, Zenon DEF Sound
  <2>2. \A i \in DOMAIN led2.res \ DOMAIN ledger.res :
           Writes(client[c]) /\ led2.res[i].uid = UidOf[c] /\ led2.res[i].spec = client[c].n
    <3>1. PICK r : r = Reservation(q.uid, q.arg, q.n)
      BY Zenon
    <3>2. r.uid = q.uid /\ r.spec = q.n
      BY <3>1 DEF Reservation
    <3> QED  BY <1>2, <2>1, <3>1, <3>2, Zenon DEF Writes
  <2>3. \A i \in DOMAIN ledger.res : i \in DOMAIN led2.res /\ Follows(ledger.res[i], led2.res[i])
    BY <1>4, <1>6, Zenon DEF Sound
  <2>4. \A i, j \in DOMAIN led2.res \ DOMAIN ledger.res : i = j
    BY <2>1, Zenon
  <2>5. led2 \in Ledgers
    BY <1>4, <1>6, Zenon DEF Sound
  <2> QED  BY <2>2, <2>3, <2>4, <2>5, Zenon DEF Extends
<1> QED
  BY <1>1, <1>3, <1>5, <1>6, Zenon

\* The whole step of Local.
LEMMA LocalWriteKeepsSpecs ==
    ASSUME BrokerInv, LocalKept(ledger, specs, client, calls), NEW c \in Client, Local(c)
    PROVE  LocalKept(ledger', specs', client', calls')
<1>1. /\ calls \in Nat /\ client \in [Client -> Commands] /\ ledger \in Ledgers
      /\ client[c].pc = "call" /\ UNCHANGED <<specs, calls>>
  BY Zenon DEF BrokerInv, BrokerTypes, Local
<1>2. PICK q : q = Request(c)
  BY Zenon
<1>3. PICK t : t = Dispatch(ledger, q)
  BY Zenon
<1>4. /\ ledger' \in {ledger, t.led}
      /\ \E cl \in {client, Overtaken(t, q.n)} : \E a :
            ~NotCommitted(c, a) /\ client' = [cl EXCEPT ![c] = After(c, a)]
  BY <1>2, <1>3, LocalMoves, Zenon
<1>5. PICK led2 \in {ledger, t.led} : led2 = ledger'
  BY <1>4, Zenon
<1>6. led2 \in Ledgers /\ Extends(ledger, led2, c, client[c])
  BY <1>1, <1>2, <1>3, <1>5, LocalExtends, Zenon
<1>7a. PICK cl \in {client, Overtaken(t, q.n)} : \E a :
         ~NotCommitted(c, a) /\ client' = [cl EXCEPT ![c] = After(c, a)]
  BY <1>4, Zenon
<1>7. PICK a : ~NotCommitted(c, a) /\ client' = [cl EXCEPT ![c] = After(c, a)]
  BY <1>7a, Zenon
<1>8. PICK m : m = After(c, a)
  BY Zenon
<1>9. m \in Commands /\ m.pc \in {"idle", "verify", "clean"}
  BY <1>1, <1>7, <1>8, AfterFields, Zenon
<1>10. /\ cl = [d \in Client |-> cl[d]]
       /\ \A d \in Client : /\ cl[d] \in Commands /\ cl[d].pc = client[d].pc /\ cl[d].n = client[d].n
                            /\ cl[d].kind = client[d].kind /\ cl[d].plan = client[d].plan
  <2>1. CASE cl = client
    BY <1>1, <2>1, Zenon
  <2>2. CASE cl = Overtaken(t, q.n)
    <3>1. cl = [d \in Client |-> cl[d]]
      BY <2>2, Zenon DEF Overtaken
    <3>2. \A d \in Client : /\ cl[d] \in Commands /\ cl[d].pc = client[d].pc /\ cl[d].n = client[d].n
                            /\ cl[d].kind = client[d].kind /\ cl[d].plan = client[d].plan
      BY <1>1, <2>2, OvertakenFields, SMTT(30)
    <3> QED  BY <3>1, <3>2, Zenon
  <2> QED  BY <1>7, <2>1, <2>2, Zenon
<1>11. PICK new : new = [cl EXCEPT ![c] = m]
  BY Zenon
<1>12. /\ new \in [Client -> Commands] /\ new[c].pc \notin {"call", "drop", "sweep"}
       /\ \A d \in Client : d # c => /\ new[d].pc = client[d].pc /\ new[d].n = client[d].n
                                     /\ new[d].kind = client[d].kind /\ new[d].plan = client[d].plan
  BY <1>9, <1>10, <1>11, Zenon
<1>13. /\ client[c].n <= calls
       /\ \A d \in Client : d # c /\ client[d].pc # "idle" => client[d].n # client[c].n
  BY <1>1 DEF BrokerInv, ClientsInOrder
<1>14. LocalKept(led2, specs, new, calls)
  BY <1>1, <1>6, <1>12, <1>13, WriteKeepsSpecs
<1> QED
  BY <1>1, <1>5, <1>7, <1>8, <1>11, <1>14, Zenon

\* A client that writes nothing, drops nothing and sweeps nothing moves on.
LEMMA IdleKeepsSpecs ==
    ASSUME BrokerInv, LocalKept(ledger, specs, client, calls), NEW c \in Client, NEW m \in Commands,
           client' = [client EXCEPT ![c] = m], m.pc \notin {"call", "drop", "sweep"},
           UNCHANGED <<ledger, calls>>, SpecsThere(ledger, specs'),
           \A d \in Client : d # c /\ Writes(client[d]) => <<UidOf[d], client[d].n>> \in specs'
    PROVE  LocalKept(ledger', specs', client', calls')
<1>1. calls \in Nat /\ client \in [Client -> Commands] /\ ledger \in Ledgers /\ calls <= calls
  BY DEF BrokerInv, BrokerTypes
<1>2. ~Writes(m) /\ m.pc # "drop" /\ m.pc # "sweep"
  BY Zenon DEF Writes
<1>3. PICK sp2 : sp2 = specs'
  BY Zenon
<1>4. LocalKept(ledger, sp2, [client EXCEPT ![c] = m], calls)
  BY <1>1, <1>2, <1>3, MoveKeepsSpecs, Zenon
<1> QED
  BY <1>3, <1>4, Zenon

\* A client begins a command.
LEMMA BeginKeepsSpecs ==
    ASSUME BrokerInv, LocalKept(ledger, specs, client, calls), NEW c \in Client,
           (\E op \in OpId \cup {None} : Submit(c, op)) \/ AskCancel(c) \/ AskEdit(c) \/ AskNotice(c)
           \/ BeginPatch(c)
    PROVE  LocalKept(ledger', specs', client', calls')
<1>1. calls \in Nat /\ client \in [Client -> Commands] /\ ledger \in Ledgers
  BY Zenon DEF BrokerInv, BrokerTypes
<1>2. ledger' = ledger
  BY Zenon DEF Submit, AskCancel, AskEdit, AskNotice, BeginPatch, storage
<1>3. PICK m \in Commands :
         /\ client' = [client EXCEPT ![c] = m] /\ calls' = calls + 1 /\ m.pc = "call" /\ m.n = calls'
         /\ specs' = IF m.kind = "add" THEN specs \cup {<<UidOf[c], calls + 1>>} ELSE specs
  BY BeginMoves, Zenon
<1>4. PICK sp2 : sp2 = specs'
  BY Zenon
<1>5. /\ specs \subseteq sp2 /\ m.n = calls + 1
      /\ (Writes(m) => <<UidOf[c], m.n>> \in sp2 /\ m.n > calls)
  BY <1>1, <1>3, <1>4 DEF Writes
<1>6. SpecsThere(ledger, sp2) /\ \A d \in Client : Writes(client[d]) => <<UidOf[d], client[d].n>> \in sp2
  BY <1>5, Zenon DEF LocalKept, SpecsThere
<1>7. PICK n2 \in Nat : n2 = calls + 1 /\ calls <= n2
  BY <1>1
<1>8. LocalKept(ledger, sp2, [client EXCEPT ![c] = m], n2)
  BY <1>1, <1>3, <1>5, <1>6, <1>7, MoveKeepsSpecs, Zenon
<1> QED
  BY <1>2, <1>3, <1>4, <1>7, <1>8, Zenon

\* cleanup_job_specs loads the ledger.
LEMMA CleanKeepsSpecs ==
    ASSUME BrokerInv, LocalKept(ledger, specs, client, calls), NEW c \in Client, Clean(c),
           transport = "local"
    PROVE  LocalKept(ledger', specs', client', calls')
<1>1. calls \in Nat /\ client \in [Client -> Commands] /\ ledger \in Ledgers
      /\ specs \subseteq Uid \X (0 .. calls) /\ client[c] \in Commands
  BY Zenon DEF BrokerInv, BrokerTypes
<1>2. PICK plan : plan = Plan
  BY Zenon
<1>3. plan \in Plans /\ plan.res = ledger.res /\ plan.old = {s \in specs : PastGrace(s)}
  BY <1>2, PlanIsPlan, Zenon DEF Plan, Loaded
<1>4. Foreseen(plan, ledger, client, calls)
  <2>1. \A i \in DOMAIN plan.res : i \in DOMAIN ledger.res /\ Follows(plan.res[i], ledger.res[i])
    BY <1>3, Zenon DEF Follows
  <2>2. \A s \in plan.old : s[2] <= calls
    BY <1>1, <1>3
  <2>3. \A s \in plan.old, d \in Client : Writes(client[d]) => client[d].n # s[2]
    BY <1>3, Zenon DEF PastGrace, Writes
  <2>4. \A x : Unreferenced(plan, x) => Unreferenced(ledger, x)
    BY <1>3, Zenon DEF Unreferenced
  <2> QED  BY <1>3, <2>1, <2>2, <2>3, <2>4, Zenon DEF Foreseen
<1>5. \E m \in Commands : /\ client' = [client EXCEPT ![c] = m] /\ m.pc = "sweep" /\ m.plan = plan
                          /\ calls' \in {calls, calls + 1}
  <2>1. CASE client' = [client EXCEPT ![c] = [@ EXCEPT !.pc = "sweep", !.plan = Plan]] /\ UNCHANGED calls
    <3>1. PICK m : m = [client[c] EXCEPT !.pc = "sweep", !.plan = plan]
      BY Zenon
    <3>2. m \in Commands /\ m.pc = "sweep" /\ m.plan = plan
      BY <1>1, <1>3, <3>1, Zenon DEF Commands
    <3> QED  BY <1>1, <1>2, <2>1, <3>1, <3>2, Zenon
  <2>2. CASE /\ calls' = calls + 1
             /\ client' = [client EXCEPT ![c] =
                             [Idle EXCEPT !.pc = "sweep", !.n = calls + 1, !.plan = Plan]]
    <3>1. PICK m : m = [Idle EXCEPT !.pc = "sweep", !.n = calls + 1, !.plan = Plan]
      BY Zenon
    <3>2. m = [pc |-> "sweep", n |-> calls + 1, kind |-> None, arg |-> None, tries |-> 0,
               others |-> 0, plan |-> plan]
      BY <1>2, <3>1, Zenon DEF Idle
    <3>3. m \in Commands /\ m.pc = "sweep" /\ m.plan = plan
      BY <1>1, <1>3, <3>2 DEF Commands, Operations
    <3> QED  BY <2>2, <3>1, <3>3, Zenon
  <2> QED  BY <2>1, <2>2, Zenon DEF Clean
<1>6. PICK m \in Commands : /\ client' = [client EXCEPT ![c] = m] /\ m.pc = "sweep" /\ m.plan = plan
                            /\ calls' \in {calls, calls + 1}
  BY <1>5, Zenon
<1>7. PICK n2 \in Nat : n2 = calls' /\ calls <= n2
  BY <1>1, <1>6
<1>8. ~Writes(m) /\ m.pc # "drop" /\ SpecsThere(ledger, specs)
      /\ \A d \in Client : Writes(client[d]) => <<UidOf[d], client[d].n>> \in specs
  BY <1>6, Zenon DEF Writes, LocalKept
<1>9. LocalKept(ledger, specs, [client EXCEPT ![c] = m], n2)
  BY <1>1, <1>4, <1>6, <1>7, <1>8, MoveKeepsSpecs, Zenon
<1>10. UNCHANGED <<ledger, specs>>
  BY Zenon DEF Clean
<1> QED
  BY <1>6, <1>7, <1>9, <1>10, Zenon

\* The removals of cleanup_job_specs.
LEMMA SweepKeepsSpecs ==
    ASSUME BrokerInv, LocalKept(ledger, specs, client, calls), NEW c \in Client, Sweep(c)
    PROVE  LocalKept(ledger', specs', client', calls')
<1>1. PICK plan : plan = client[c].plan
  BY Zenon
<1>2. client[c].pc = "sweep" /\ client' = [client EXCEPT ![c] = Idle] /\ UNCHANGED <<ledger, calls>>
  BY Zenon DEF Sweep, storage
<1>3. Foreseen(plan, ledger, client, calls)
  BY <1>1, <1>2, Zenon DEF LocalKept
<1>4. \A k \in DOMAIN plan.res : /\ plan.res[k] \in Reservations /\ k \in DOMAIN ledger.res
                                 /\ Follows(plan.res[k], ledger.res[k])
  <2>1. plan.res \in Seq(Reservations)
    BY <1>3, Zenon DEF Foreseen, Plans
  <2> QED  BY <1>3, <2>1, SMTT(30) DEF Foreseen
<1>5. ASSUME NEW s \in specs, s \notin specs'
      PROVE  \/ s \in plan.old /\ Unreferenced(plan, s[2])
             \/ \E k \in DOMAIN plan.res : plan.res[k].spec = s[2] /\ ~Needed(plan.res[k])
  <2>1. PICK of : of = {i \in DOMAIN plan.res : plan.res[i].spec = s[2]}
    BY Zenon
  <2>2. IF of = {} THEN s \in plan.old ELSE \A i \in of : ~Needed(plan.res[i])
    BY <1>1, <1>5, <2>1, Zenon DEF Sweep
  <2>3. CASE of = {}
    BY <2>1, <2>2, <2>3, Zenon DEF Unreferenced
  <2>4. CASE of # {}
    BY <2>1, <2>2, <2>4, Zenon
  <2> QED  BY <2>3, <2>4, Zenon
<1>6. \A k \in DOMAIN plan.res : ~Needed(plan.res[k]) => ~Needed(ledger.res[k])
  BY <1>4, Zenon DEF Needed, Follows, Reservations
<1>7. \A k \in DOMAIN plan.res : k \in DOMAIN ledger.res /\ ledger.res[k].spec = plan.res[k].spec
  BY <1>4, Zenon DEF Follows
<1>8. SpecsThere(ledger, specs')
  <2> SUFFICES ASSUME NEW i \in DOMAIN ledger.res, Needed(ledger.res[i]),
                      <<ledger.res[i].uid, ledger.res[i].spec>> \notin specs'
               PROVE  FALSE
    BY Zenon DEF SpecsThere
  <2>1. PICK s : s = <<ledger.res[i].uid, ledger.res[i].spec>>
    BY Zenon
  <2>2. s \in specs /\ s \notin specs' /\ s[2] = ledger.res[i].spec
    BY <2>1, Zenon DEF LocalKept, SpecsThere
  <2>3. CASE s \in plan.old /\ Unreferenced(plan, s[2])
    BY <1>3, <2>2, <2>3, Zenon DEF Foreseen, Unreferenced
  <2>4. CASE \E k \in DOMAIN plan.res : plan.res[k].spec = s[2] /\ ~Needed(plan.res[k])
    BY <1>6, <1>7, <2>2, <2>4, ZenonT(30) DEF LocalKept
  <2> QED  BY <1>5, <2>2, <2>3, <2>4, Zenon
<1>9. ASSUME NEW d \in Client, Writes(client[d]) PROVE <<UidOf[d], client[d].n>> \in specs'
  <2> SUFFICES ASSUME <<UidOf[d], client[d].n>> \notin specs' PROVE FALSE
    BY Zenon
  <2>1. PICK s : s = <<UidOf[d], client[d].n>>
    BY Zenon
  <2>2. s \in specs /\ s \notin specs' /\ s[2] = client[d].n /\ Unreferenced(ledger, client[d].n)
    BY <1>9, <2>1, Zenon DEF LocalKept
  <2>3. CASE s \in plan.old /\ Unreferenced(plan, s[2])
    BY <1>3, <1>9, <2>2, <2>3, Zenon DEF Foreseen
  <2>4. CASE \E k \in DOMAIN plan.res : plan.res[k].spec = s[2] /\ ~Needed(plan.res[k])
    BY <1>7, <2>2, <2>4, Zenon DEF Unreferenced
  <2> QED  BY <1>5, <2>2, <2>3, <2>4, Zenon
<1> QED
  BY <1>2, <1>8, <1>9, IdleIsCommand, IdleKeepsSpecs, Zenon

\* _cleanup_unreferenced_job_spec deletes the spec.
LEMMA DropKeepsSpecs ==
    ASSUME BrokerInv, LocalKept(ledger, specs, client, calls), NEW c \in Client, Drop(c)
    PROVE  LocalKept(ledger', specs', client', calls')
<1>1. /\ client[c].pc = "drop" /\ client' = [client EXCEPT ![c] = Idle] /\ UNCHANGED <<ledger, calls>>
      /\ specs' = specs \ {<<UidOf[c], client[c].n>>}
  BY Zenon DEF Drop, storage
<1>2. Unreferenced(ledger, client[c].n)
  BY <1>1, Zenon DEF LocalKept
<1>3. SpecsThere(ledger, specs')
  BY <1>1, <1>2, Zenon DEF LocalKept, SpecsThere, Unreferenced
<1>4. \A d \in Client : d # c /\ Writes(client[d]) => client[d].n # client[c].n
  BY <1>1, Zenon DEF BrokerInv, ClientsInOrder, Writes
<1>5. \A d \in Client : d # c /\ Writes(client[d]) => <<UidOf[d], client[d].n>> \in specs'
  BY <1>1, <1>4, Zenon DEF LocalKept
<1> QED
  BY <1>1, <1>3, <1>5, IdleIsCommand, IdleKeepsSpecs, Zenon

\* It looks for a reference in the ledger as it is.
LEMMA VerifyKeepsSpecs ==
    ASSUME BrokerInv, LocalKept(ledger, specs, client, calls), NEW c \in Client, Verify(c),
           transport = "local"
    PROVE  LocalKept(ledger', specs', client', calls')
<1>1. /\ client[c].pc = "verify" /\ UNCHANGED <<ledger, specs, calls>> /\ Loaded = ledger
      /\ client' = [client EXCEPT ![c] = IF References(ledger, <<UidOf[c], client[c].n>>) THEN Idle
                                         ELSE [client[c] EXCEPT !.pc = "drop"]]
  BY Zenon DEF Verify, Loaded
<1>2. /\ calls \in Nat /\ client \in [Client -> Commands] /\ ledger \in Ledgers /\ calls <= calls
      /\ client[c] \in Commands /\ SpecsThere(ledger, specs)
      /\ \A d \in Client : Writes(client[d]) => <<UidOf[d], client[d].n>> \in specs
  <2>1. /\ calls \in Nat /\ client \in [Client -> Commands] /\ ledger \in Ledgers
        /\ client[c] \in Commands /\ SpecsThere(ledger, specs)
        /\ \A d \in Client : Writes(client[d]) => <<UidOf[d], client[d].n>> \in specs
    BY Zenon DEF BrokerInv, BrokerTypes, LocalKept
  <2>2. calls <= calls
    BY <2>1
  <2> QED  BY <2>1, <2>2, Zenon
<1>3. CASE References(ledger, <<UidOf[c], client[c].n>>)
  <2>1. client' = [client EXCEPT ![c] = Idle]
    BY <1>1, <1>3, Zenon
  <2> QED  BY <1>1, <1>2, <2>1, IdleIsCommand, IdleKeepsSpecs, Zenon
<1>4. CASE ~References(ledger, <<UidOf[c], client[c].n>>)
  <2>1. PICK m : m = [client[c] EXCEPT !.pc = "drop"]
    BY Zenon
  <2>2. m \in Commands /\ m.pc = "drop" /\ m.n = client[c].n /\ ~Writes(m) /\ m.pc # "sweep"
    BY <1>2, <2>1, Zenon DEF Commands, Writes
  <2>3. Unreferenced(ledger, m.n)
    BY <1>4, <2>2, Zenon DEF References, Unreferenced
  <2>4. LocalKept(ledger, specs, [client EXCEPT ![c] = m], calls)
    BY <1>2, <2>2, <2>3, MoveKeepsSpecs, Zenon
  <2> QED  BY <1>1, <1>4, <2>1, <2>4, Zenon
<1> QED
  BY <1>3, <1>4, Zenon

\* A command ends, times out or dies.
LEMMA EndKeepsSpecs ==
    ASSUME BrokerInv, LocalKept(ledger, specs, client, calls), NEW c \in Client,
           NothingToDo(c) \/ Timeout(c) \/ Die(c)
    PROVE  LocalKept(ledger', specs', client', calls')
<1>1. /\ UNCHANGED <<ledger, specs, calls>> /\ client \in [Client -> Commands]
      /\ \/ client' = [client EXCEPT ![c] = Idle]
         \/ client' = [client EXCEPT ![c] = After(c, [ok |-> FALSE, out |-> None])]
  BY Zenon DEF NothingToDo, Timeout, Die, storage, BrokerInv, BrokerTypes
<1>2. \E m \in Commands : client' = [client EXCEPT ![c] = m] /\ m.pc \notin {"call", "drop", "sweep"}
  <2>1. CASE client' = [client EXCEPT ![c] = Idle]
    BY <2>1, IdleIsCommand, Zenon
  <2>2. CASE client' = [client EXCEPT ![c] = After(c, [ok |-> FALSE, out |-> None])]
    <3>1. PICK a : a = [ok |-> FALSE, out |-> None]
      BY Zenon
    <3>2. PICK m : m = After(c, a)
      BY Zenon
    <3>3. /\ m \in Commands /\ m.pc \in {"idle", "verify", "clean", "call"}
          /\ m.pc = "call" => NotCommitted(c, a)
      BY <1>1, <3>2, AfterFields, Zenon
    <3>4. ~NotCommitted(c, a)
      BY <3>1, Zenon DEF NotCommitted
    <3> QED  BY <2>2, <3>1, <3>2, <3>3, <3>4, Zenon
  <2> QED  BY <1>1, <2>1, <2>2, Zenon
<1>3. SpecsThere(ledger, specs')
      /\ \A d \in Client : Writes(client[d]) => <<UidOf[d], client[d].n>> \in specs'
  BY <1>1, Zenon DEF LocalKept
<1> QED
  BY <1>1, <1>2, <1>3, IdleKeepsSpecs, Zenon

\* With a local store the spec of a job that can still run exists (LocalSpecsKept),
\* whatever interrupts, retries, roll-backs and clean-ups interleave.
THEOREM SpecsStay == Spec => []LocalSpecsKept
<1>1. Init => LocalInv
  <2> SUFFICES ASSUME Init PROVE LocalKept(ledger, specs, client, calls)
    BY Zenon DEF Init, LocalInv, LocalQuiet
  <2>1. PICK r : r = Reservation(Other, None, 0)
    BY Zenon
  <2>2. r.uid = Other /\ r.spec = 0 /\ ledger.res = <<r>> /\ specs = {<<Other, 0>>} /\ calls = 0
    BY <2>1, Zenon DEF Init, Booked, Reservation
  <2>3. \A c \in Client : client[c].pc = "idle"
    BY IdleIsCommand, Zenon DEF Init
  <2>4. \A i \in DOMAIN ledger.res : i = 1 /\ ledger.res[i] = r
    BY <2>2
  <2> QED  BY <2>2, <2>3, <2>4 DEF LocalKept, SpecsThere, Writes
<1>2. BrokerInv /\ LocalInv /\ [Next]_vars => LocalInv'
  <2> SUFFICES ASSUME BrokerInv, LocalInv, [Next]_vars PROVE LocalInv'
    BY Zenon
  <2>1. /\ transport \in {"local", "broker"} /\ transport' = transport
        /\ transport = "local" => UNCHANGED <<backlog, handling, server>>
    BY TransportStays, Zenon DEF LocalInv
  <2>2. LocalQuiet'
    BY <2>1, Zenon DEF LocalInv, LocalQuiet
  <2>3. ASSUME transport = "local" PROVE LocalKept(ledger', specs', client', calls')
    <3>1. LocalKept(ledger, specs, client, calls) /\ handling = {} /\ server = "down"
      BY <2>3, Zenon DEF LocalInv, LocalQuiet
    <3>2. CASE Start \/ Accept \/ Stop \/ Close \/ Kill \/ \E h \in handling : Handle(h) \/ Reply(h)
      BY <2>3, <3>1, <3>2, Zenon DEF Start, Accept, Stop, Close, Kill
    <3>3. CASE \E c \in Client : (\E op \in OpId \cup {None} : Submit(c, op)) \/ AskCancel(c) \/ AskEdit(c)
                                 \/ AskNotice(c) \/ BeginPatch(c)
      BY <3>1, <3>3, BeginKeepsSpecs, Zenon
    <3>4. CASE \E c \in Client : Connect(c)
      BY <2>3, <3>4, Zenon DEF Connect
    <3>5. CASE \E c \in Client : NothingToDo(c) \/ Timeout(c) \/ Die(c)
      BY <3>1, <3>5, EndKeepsSpecs, Zenon
    <3>6. CASE \E c \in Client : Local(c)
      BY <3>1, <3>6, LocalWriteKeepsSpecs, Zenon
    <3>7. CASE \E c \in Client : Verify(c) \/ Clean(c)
      BY <2>3, <3>1, <3>7, VerifyKeepsSpecs, CleanKeepsSpecs, Zenon
    <3>8. CASE \E c \in Client : Drop(c) \/ Sweep(c)
      BY <3>1, <3>8, DropKeepsSpecs, SweepKeepsSpecs, Zenon
    <3>9. CASE UNCHANGED vars
      BY <3>1, <3>9, Zenon DEF vars
    <3> QED  BY <3>2, <3>3, <3>4, <3>5, <3>6, <3>7, <3>8, <3>9, Zenon DEF Next
  <2> QED  BY <2>1, <2>2, <2>3, Zenon DEF LocalInv, LocalKept, SpecsThere, Foreseen, Unreferenced, Writes
<1>3. LocalInv => LocalSpecsKept
  BY Zenon DEF LocalInv, LocalKept, SpecsThere, LocalSpecsKept, SpecsKept, Runnable
<1> QED
  BY <1>1, <1>2, <1>3, AlwaysBrokerInv, PTL DEF Spec
===============================================================================
