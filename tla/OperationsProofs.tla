--------------------------- MODULE OperationsProofs ---------------------------
(***************************************************************************)
(* Proofs about three parts of a node that share no state: the archive     *)
(* answers for every archived day (History), the newest output of a job    *)
(* that runs or may be retried is in its log (JobLogs), and the status     *)
(* commands tell the truth about the worker's lease (WorkerLease).         *)
(***************************************************************************)
EXTENDS History, JobLogs, WorkerLease, TLAPS

-----------------------------------------------------------------------------
(* The usage history.                                                      *)

Held == {"query", "write", "manifest", "rename", "sync"}

\* The batches s cover the days from a to b without a gap, each at least one day.
Contiguous(s, a, b) ==
    /\ s \in Seq(Int \X Int)
    /\ \A i \in 1 .. Len(s) : s[i][1] < s[i][2]
    /\ \A i \in 1 .. Len(s) : s[i][1] = IF i = 1 THEN a ELSE s[i - 1][2]
    /\ b = IF Len(s) = 0 THEN a ELSE s[Len(s)][2]

\* Both payloads of the days from a up to b.
Payloads(a, b) == (a .. b - 1) \X Kinds

Export ==
    [at : {"idle", "lock"} \cup Held, start : Int, end : 0 .. LastDay, label : Resolution \cup {"none"},
     pending : Seq(Int \X Int), batch : Int \X Int, files : SUBSET (Int \X Kinds),
     manifest : BOOLEAN]

\* What an export has written when it asks for a batch, and while it writes one.
QueryProgress(me) ==
    \E d \in Int : /\ Contiguous(me.pending, d, me.end)
                   /\ me.start <= d /\ me.files = Payloads(me.start, d)
WriteProgress(me) ==
    /\ Contiguous(me.pending, me.batch[2], me.end)
    /\ me.start <= me.batch[1] /\ me.batch[1] <= me.batch[2]
    /\ \/ me.files = Payloads(me.start, me.batch[1])
       \/ /\ me.batch[1] < me.batch[2]
          /\ me.files = Payloads(me.start, me.batch[1]) \cup {<<me.batch[1], "usage-users">>}

Progress(me) ==
    /\ me.at # "idle" => me.start < me.end
    /\ me.at = "lock" => me.files = {}
    /\ me.at = "query" => QueryProgress(me)
    /\ me.at = "write" => WriteProgress(me)
    /\ me.at \in {"manifest", "rename"} => me.files = Payloads(me.start, me.end)
    /\ me.at = "rename" => me.manifest

\* The days that an export under the lock is going to publish are free.
Free(me) == me.at \in Held \ {"sync"} => \A g \in archive : ~Overlaps(g, me)

\* The inductive invariant of the archive.
HistoryInv ==
    /\ exporter \in [Exporters -> Export]
    /\ \A x \in Exporters : Progress(exporter[x]) /\ Free(exporter[x])
    /\ \A x, y \in Exporters : Holds(x) /\ Holds(y) => x = y
    /\ \A g \in archive : g.start \in Int /\ g.end \in 0 .. LastDay
    /\ Answered(archive)

-----------------------------------------------------------------------------
LOCAL INSTANCE WellFoundedInduction

\* A set of natural numbers that is not empty has a least one.
LEMMA LeastNat ==
    ASSUME NEW T, T \subseteq Nat, T # {}
    PROVE  \E m \in T : \A n \in T : m <= n
<1> DEFINE R == OpToRel(<, Nat)
<1>1. IsWellFoundedOn(R, Nat)
  BY NatLessThanWellFounded, Zenon
<1>2. \A x, y \in Nat : <<y, x>> \in R <=> y < x
  BY Zenon DEF OpToRel
<1> HIDE DEF R
<1>3. PICK x \in T : \A y \in T : ~ (<<y, x>> \in R)
  BY <1>1, WFMin, Zenon
<1>4. \A y \in T : ~ (y < x)
  BY <1>2, <1>3, Zenon
<1> QED  BY <1>4

\* An incremental export starts at the end of a generation, or before the first.
LEMMA LatestEndIsADay ==
    ASSUME \A g \in archive : g.end \in 0 .. LastDay
    PROVE  LatestEnd \in Int
<1> DEFINE E == {-1} \cup {g.end : g \in archive}
           T == {LastDay - e : e \in E}
<1>1. E \subseteq -1 .. LastDay /\ E # {}
  BY HistoryAssumption
<1>2. T \subseteq Nat /\ T # {}
  BY <1>1, HistoryAssumption
<1>3. PICK m \in T : \A n \in T : m <= n
  BY <1>2, LeastNat, Zenon
<1>4. PICK e \in E : m = LastDay - e
  BY Zenon
<1>5. \A f \in E : LastDay - e <= LastDay - f
  BY <1>3, <1>4, Zenon
<1>6. \A g \in archive : g.end <= e
  BY <1>1, <1>5, HistoryAssumption
<1>7. LatestEnd \in E
  BY <1>6, Zenon DEF LatestEnd
<1> QED  BY <1>1, <1>7

\* The quotient and remainder of a division.
LEMMA Quotient ==
    ASSUME NEW a \in Int, NEW b \in Nat \ {0}
    PROVE  /\ a \div b \in Int
           /\ (a \div b) * b <= a /\ a < (a \div b) * b + b
OBVIOUS

\* Multiplication by a natural number is monotone.
LEMMA Monotone ==
    ASSUME NEW a \in Int, NEW b \in Int, NEW c \in Nat, a <= b
    PROVE  a * c <= b * c
OBVIOUS

\* The batches of a new export are contiguous (_query_sample_batches).
LEMMA BatchesContiguous ==
    ASSUME NEW a \in Int, NEW b \in Int, a < b
    PROVE  Contiguous(Batches(a, b), a, b)
<1> DEFINE n == (b - a + BatchDays - 1) \div BatchDays
           B == Batches(a, b)
<1>1. BatchDays \in Nat \ {0}
  BY HistoryAssumption, Zenon
<1>2. n \in Int /\ n * BatchDays <= b - a + BatchDays - 1 /\ b - a + BatchDays - 1 < n * BatchDays + BatchDays
  BY <1>1, Quotient
<1> HIDE DEF n
<1>3. n >= 1
  <2> SUFFICES ASSUME n <= 0 PROVE FALSE
    BY <1>2
  <2>1. n * BatchDays <= 0 * BatchDays
    BY <1>1, <1>2, Monotone
  <2> QED  BY <1>1, <1>2, <2>1
<1>4. B = [i \in 1 .. n |->
             <<a + (i - 1) * BatchDays, IF a + i * BatchDays < b THEN a + i * BatchDays ELSE b>>]
  BY Zenon DEF Batches, n
<1>5. \A i \in Int : i * BatchDays \in Int /\ (i - 1) * BatchDays = i * BatchDays - BatchDays
  BY <1>1
<1>6. ASSUME NEW i \in 1 .. n - 1 PROVE a + i * BatchDays < b
  <2>1. i * BatchDays <= (n - 1) * BatchDays
    BY <1>1, <1>2, Monotone
  <2> QED  BY <1>1, <1>2, <1>5, <2>1
<1>7. a + n * BatchDays >= b
  BY <1>1, <1>2, <1>5
<1>8. B \in Seq(Int \X Int) /\ Len(B) = n
  BY <1>1, <1>2, <1>3, <1>4, <1>5
<1>9. \A i \in 1 .. n : B[i][1] = a + (i - 1) * BatchDays
                        /\ B[i][2] = (IF a + i * BatchDays < b THEN a + i * BatchDays ELSE b)
  BY <1>4
<1> HIDE DEF B
<1>10. \A i \in 1 .. n : B[i][1] < B[i][2]
  <2> SUFFICES ASSUME NEW i \in 1 .. n PROVE B[i][1] < B[i][2]
    BY Zenon
  <2>1. i * BatchDays \in Int /\ (i - 1) * BatchDays = i * BatchDays - BatchDays
    BY <1>5
  <2>2. CASE i < n
    BY <1>1, <1>2, <1>6, <1>9, <2>1, <2>2
  <2>3. CASE i = n
    BY <1>1, <1>2, <1>5, <1>7, <1>9, <2>1, <2>3
  <2> QED  BY <1>2, <2>2, <2>3
<1>11. \A i \in 1 .. n : B[i][1] = IF i = 1 THEN a ELSE B[i - 1][2]
  <2> SUFFICES ASSUME NEW i \in 1 .. n PROVE B[i][1] = IF i = 1 THEN a ELSE B[i - 1][2]
    BY Zenon
  <2>1. CASE i = 1
    <3>1. (1 - 1) * BatchDays = 0
      BY <1>1
    <3> QED  BY <1>2, <1>3, <1>9, <2>1, <3>1
  <2>2. CASE i # 1
    <3>1. i - 1 \in 1 .. n - 1 /\ i - 1 \in 1 .. n
      BY <1>2, <2>2
    <3>2. a + (i - 1) * BatchDays < b
      BY <1>6, <3>1, Zenon
    <3> QED  BY <1>9, <2>2, <3>1, <3>2, Zenon
  <2> QED  BY <2>1, <2>2, Zenon
<1>13. B[n][2] = b
  <2>1. n \in 1 .. n /\ n * BatchDays \in Int
    BY <1>2, <1>3, <1>5
  <2> QED  BY <1>7, <1>9, <2>1
<1> QED
  BY <1>3, <1>8, <1>10, <1>11, <1>13 DEF Contiguous, B

\* The first batch starts at the first day, and the others continue where it ends.
LEMMA ContiguousTail ==
    ASSUME NEW s, NEW a \in Int, NEW b \in Int, Contiguous(s, a, b), s # <<>>
    PROVE  /\ Head(s) \in Int \X Int /\ Head(s)[1] = a /\ a < Head(s)[2]
           /\ Contiguous(Tail(s), Head(s)[2], b)
<1>1. s \in Seq(Int \X Int) /\ Len(s) \in Nat /\ Len(s) >= 1 /\ Head(s) = s[1] /\ s[1] \in Int \X Int
  BY DEF Contiguous
<1>2. PICK u : u = Tail(s)
  BY Zenon
<1>3. u \in Seq(Int \X Int) /\ Len(u) = Len(s) - 1 /\ \A i \in 1 .. Len(s) - 1 : u[i] = s[i + 1]
  BY <1>1, <1>2
<1>4. ASSUME NEW i \in 1 .. Len(u)
      PROVE  /\ u[i][1] < u[i][2]
             /\ u[i][1] = IF i = 1 THEN s[1][2] ELSE u[i - 1][2]
  <2>1. i + 1 \in 1 .. Len(s) /\ u[i] = s[i + 1] /\ i + 1 # 1 /\ (i + 1) - 1 = i
    BY <1>1, <1>3
  <2>2. s[i + 1][1] < s[i + 1][2] /\ s[i + 1][1] = s[i][2]
    BY <2>1, Zenon DEF Contiguous
  <2>3. i # 1 => u[i - 1] = s[i]
    <3>1. i # 1 => i - 1 \in 1 .. Len(s) - 1 /\ (i - 1) + 1 = i
      BY <1>1, <1>3
    <3> QED  BY <1>3, <3>1, Zenon
  <2> QED  BY <2>1, <2>2, <2>3, Zenon
<1>5. b = IF Len(u) = 0 THEN s[1][2] ELSE u[Len(u)][2]
  <2>1. Len(u) # 0 => u[Len(u)] = s[Len(s)]
    <3>1. Len(u) # 0 => Len(u) \in 1 .. Len(s) - 1 /\ Len(u) + 1 = Len(s)
      BY <1>1, <1>3
    <3> QED  BY <1>3, <3>1, Zenon
  <2>2. b = s[Len(s)][2] /\ (Len(u) = 0 => Len(s) = 1)
    BY <1>1, <1>3 DEF Contiguous
  <2> QED  BY <2>1, <2>2, Zenon
<1>6. s[1][1] = a /\ a < s[1][2]
  BY <1>1 DEF Contiguous
<1> QED  BY <1>1, <1>2, <1>3, <1>4, <1>5, <1>6, Zenon DEF Contiguous

\* The neighbours of a position of a sequence of length n, and of one longer by one.
LEMMA Neighbours ==
    ASSUME NEW n \in Nat
    PROVE  /\ \A i \in 1 .. n + 1 : i # 1 => i - 1 \in 1 .. n /\ i = (i - 1) + 1
           /\ \A k \in 1 .. n : (k + 1) - 1 = k
           /\ \A k \in 1 .. n : k # 1 => k - 1 \in 1 .. n /\ (k - 1) + 1 = k
OBVIOUS

\* A batch in front of contiguous ones.
LEMMA ContiguousCons ==
    ASSUME NEW s, NEW a \in Int, NEW b \in Int, NEW c \in Int, Contiguous(s, c, b), a < c
    PROVE  Contiguous(<<<<a, c>>>> \o s, a, b)
<1> DEFINE u == <<<<a, c>>>> \o s
<1>1. s \in Seq(Int \X Int) /\ Len(s) \in Nat
  BY DEF Contiguous
<1>2. u \in Seq(Int \X Int) /\ Len(u) = Len(s) + 1 /\ u[1] = <<a, c>>
      /\ \A i \in 1 .. Len(s) : u[i + 1] = s[i]
  BY <1>1
<1> HIDE DEF u
<1>3. ASSUME NEW i \in 1 .. Len(u)
      PROVE  /\ u[i][1] < u[i][2]
             /\ u[i][1] = IF i = 1 THEN a ELSE u[i - 1][2]
  <2>1. CASE i = 1
    BY <1>2, <2>1
  <2>2. CASE i # 1
    <3>1. PICK k \in 1 .. Len(s) : i = k + 1 /\ u[i] = s[k]
      <4>1. i - 1 \in 1 .. Len(s) /\ i = (i - 1) + 1
        BY <1>1, <1>2, <2>2, Neighbours, Zenon
      <4> QED  BY <1>2, <4>1, Zenon
    <3>2. s[k][1] < s[k][2] /\ s[k][1] = IF k = 1 THEN c ELSE s[k - 1][2]
      BY Zenon DEF Contiguous
    <3>3. i - 1 = k /\ (k # 1 => k - 1 \in 1 .. Len(s) /\ (k - 1) + 1 = k)
      BY <1>1, <3>1, Neighbours, Zenon
    <3>4. k = 1 => u[i - 1][2] = c
      BY <1>2, <3>3
    <3>5. k # 1 => u[i - 1] = s[k - 1]
      BY <1>2, <3>3, Zenon
    <3> QED  BY <2>2, <3>1, <3>2, <3>4, <3>5, Zenon
  <2> QED  BY <2>1, <2>2, Zenon
<1>4. u[Len(u)][2] = b
  <2>1. CASE Len(s) = 0
    BY <1>2, <2>1 DEF Contiguous
  <2>2. CASE Len(s) # 0
    <3>1. Len(s) \in 1 .. Len(s)
      BY <1>1, <2>2
    <3>2. u[Len(u)] = s[Len(s)]
      BY <1>2, <3>1, Zenon
    <3> QED  BY <2>2, <3>2, Zenon DEF Contiguous
  <2> QED  BY <2>1, <2>2, Zenon
<1>5. Contiguous(u, a, b)
  BY <1>1, <1>2, <1>3, <1>4 DEF Contiguous
<1> QED  BY <1>5, Zenon DEF u

-----------------------------------------------------------------------------
\* A command that moves while the archive stays keeps the invariant if its own state is
\* right and it is alone when it holds the lock.
LEMMA Moved ==
    ASSUME HistoryInv, NEW x \in Exporters, NEW new \in Export,
           exporter' = [exporter EXCEPT ![x] = new], UNCHANGED archive,
           Progress(new), Free(new),
           new.at \in Held => \A y \in Exporters \ {x} : ~Holds(y)
    PROVE  HistoryInv'
<1>1. exporter' \in [Exporters -> Export] /\ exporter'[x] = new
      /\ \A y \in Exporters \ {x} : exporter'[y] = exporter[y]
  BY Zenon DEF HistoryInv
<1>2. \A y \in Exporters : Progress(exporter'[y]) /\ Free(exporter'[y])
  BY <1>1, Zenon DEF HistoryInv
<1>3. \A y \in Exporters : Free(exporter[y])' <=> Free(exporter'[y])
  BY Zenon DEF Free
<1>4. Holds(x)' <=> new.at \in Held
  BY <1>1, Zenon DEF Holds, Held
<1>5. \A y \in Exporters \ {x} : Holds(y)' <=> Holds(y)
  BY <1>1, Zenon DEF Holds
<1>6. \A y, z \in Exporters : Holds(y)' /\ Holds(z)' => y = z
  BY <1>4, <1>5, Zenon DEF HistoryInv
<1> QED
  BY <1>1, <1>2, <1>3, <1>6, Zenon DEF HistoryInv

\* The state of a command that has not started, and of one that waits for the lock.
LEMMA Outside ==
    /\ NoExport \in Export /\ NoExport.at = "idle" /\ NoExport.files = {}
    /\ \A start \in Int, end \in 0 .. LastDay, label \in Resolution :
          LET new == [NoExport EXCEPT !.at = "lock", !.start = start, !.end = end, !.label = label]
          IN  new \in Export /\ new.at = "lock" /\ new.start = start /\ new.end = end /\ new.files = {}
<1>1. NoExport \in Export /\ NoExport.at = "idle" /\ NoExport.files = {}
  BY HistoryAssumption DEF NoExport, Export
<1>2. ASSUME NEW start \in Int, NEW end \in 0 .. LastDay, NEW label \in Resolution
      PROVE  LET new == [NoExport EXCEPT !.at = "lock", !.start = start, !.end = end, !.label = label]
             IN  new \in Export /\ new.at = "lock" /\ new.start = start /\ new.end = end /\ new.files = {}
  <2>1. PICK a : a = [NoExport EXCEPT !.at = "lock"]
    BY Zenon
  <2>2. a \in Export /\ a.at = "lock" /\ a.files = {}
    BY <1>1, <2>1, Zenon DEF Export
  <2>3. PICK b : b = [a EXCEPT !.start = start]
    BY Zenon
  <2>4. b \in Export /\ b.at = "lock" /\ b.files = {} /\ b.start = start
    BY <2>2, <2>3, Zenon DEF Export
  <2>5. PICK c : c = [b EXCEPT !.end = end]
    BY Zenon
  <2>6. c \in Export /\ c.at = "lock" /\ c.files = {} /\ c.start = start /\ c.end = end
    BY <2>4, <2>5, Zenon DEF Export
  <2>7. PICK d : d = [c EXCEPT !.label = label]
    BY Zenon
  <2>8. d \in Export /\ d.at = "lock" /\ d.files = {} /\ d.start = start /\ d.end = end
    BY <2>6, <2>7, Zenon DEF Export
  <2>9. d = [NoExport EXCEPT !.at = "lock", !.start = start, !.end = end, !.label = label]
    BY <2>1, <2>3, <2>5, <2>7, Zenon
  <2> QED  BY <2>8, <2>9, Zenon
<1> QED  BY <1>1, <1>2, Zenon

\* A command that ends, fails or is killed before or after its rename.
LEMMA Ended ==
    ASSUME HistoryInv, NEW x \in Exporters, exporter' = [exporter EXCEPT ![x] = NoExport],
           UNCHANGED archive
    PROVE  HistoryInv'
<1>1. NoExport \in Export /\ NoExport.at = "idle"
  BY Outside, Zenon
<1>2. Progress(NoExport) /\ Free(NoExport) /\ NoExport.at \notin Held
  BY <1>1, Zenon DEF Progress, Free, Held
<1> QED  BY <1>1, <1>2, Moved, Zenon

\* resolve_history_window.
LEMMA ResolveKeeps ==
    ASSUME HistoryInv, NEW x \in Exporters, Resolve(x)
    PROVE  HistoryInv'
<1>1. PICK label \in Resolution, end \in 1 .. LastDay :
      \E start \in {IF LatestEnd >= 0 THEN LatestEnd ELSE end - n : n \in Since}
                        \cup (0 .. LastDay - 1) :
          /\ 0 <= start
          /\ IF end <= start THEN UNCHANGED exporter
             ELSE exporter' = [exporter EXCEPT ![x] =
                     [NoExport EXCEPT !.at = "lock", !.start = start, !.end = end,
                                      !.label = label]]
  BY Zenon DEF Resolve
<1>2. PICK start \in {IF LatestEnd >= 0 THEN LatestEnd ELSE end - n : n \in Since}
                        \cup (0 .. LastDay - 1) :
          IF end <= start THEN UNCHANGED exporter
          ELSE exporter' = [exporter EXCEPT ![x] =
                     [NoExport EXCEPT !.at = "lock", !.start = start, !.end = end,
                                      !.label = label]]
  BY <1>1, Zenon
<1>3. start \in Int
  <2>1. LatestEnd \in Int
    BY LatestEndIsADay, Zenon DEF HistoryInv
  <2> QED  BY <2>1, HistoryAssumption
<1>4. UNCHANGED archive
  BY Zenon DEF Resolve
<1>5. CASE end <= start
  BY <1>2, <1>4, <1>5, Zenon DEF HistoryInv, Free, Holds
<1>6. CASE ~(end <= start)
  <2> DEFINE new == [NoExport EXCEPT !.at = "lock", !.start = start, !.end = end, !.label = label]
  <2>1. /\ new \in Export /\ new.at = "lock" /\ new.start = start /\ new.end = end /\ new.files = {}
    <3>1. end \in 0 .. LastDay
      BY HistoryAssumption
    <3> QED  BY <1>3, <3>1, Outside, Zenon
  <2>2. exporter' = [exporter EXCEPT ![x] = new]
    BY <1>2, <1>6, Zenon
  <2> HIDE DEF new
  <2>3. Progress(new) /\ Free(new) /\ new.at \notin Held
    BY <1>3, <1>6, <2>1 DEF Progress, Free, Held
  <2> QED  BY <1>4, <2>1, <2>2, <2>3, Moved, Zenon
<1> QED  BY <1>5, <1>6, Zenon

\* _namespace_lock and the checks against the generations that are there.
LEMMA LockNamespaceKeeps ==
    ASSUME HistoryInv, NEW x \in Exporters, LockNamespace(x)
    PROVE  HistoryInv'
<1> DEFINE me == exporter[x]
           new == [me EXCEPT !.at = "query", !.pending = Batches(me.start, me.end)]
           refused == \/ ~(leftovers \subseteq Clears(x)) \/ Crowded(archive)
                      \/ \E g \in archive : SameName(g, me) \/ Overlaps(g, me)
<1>1. me \in Export /\ me.at = "lock" /\ me.start < me.end /\ UNCHANGED archive
      /\ me.start \in Int /\ me.end \in Int /\ \A y \in Exporters : ~Holds(y)
  BY DEF HistoryInv, LockNamespace, Progress, Export
<1>2. CASE refused
  BY <1>1, <1>2, Ended, Zenon DEF LockNamespace
<1>3. CASE ~refused
  <2>1. exporter' = [exporter EXCEPT ![x] = new]
    BY <1>3, Zenon DEF LockNamespace
  <2>2. Contiguous(Batches(me.start, me.end), me.start, me.end)
    BY <1>1, BatchesContiguous, Zenon
  <2>3. Batches(me.start, me.end) \in Seq(Int \X Int)
    BY <2>2, Zenon DEF Contiguous
  <2>4. /\ new \in Export /\ new.at = "query" /\ new.start = me.start /\ new.end = me.end
        /\ new.pending = Batches(me.start, me.end) /\ new.files = me.files
    BY <1>1, <2>3, Zenon DEF Export, Held
  <2> HIDE DEF new
  <2>5. QueryProgress(new)
    <3>1. me.files = Payloads(me.start, me.start)
      BY <1>1 DEF Payloads, HistoryInv, Progress
    <3> QED  BY <1>1, <2>2, <2>4, <3>1 DEF QueryProgress
  <2>6. Progress(new) /\ Free(new)
    BY <1>1, <1>3, <2>4, <2>5, Zenon DEF Progress, Free, Overlaps
  <2> QED  BY <1>1, <2>1, <2>4, <2>6, Moved, Zenon
<1> QED  BY <1>2, <1>3, Zenon

\* Two elements are put in front of a sequence together or one after the other.
FrontTwo(p, q, s) ==
    <<p, q>> \o s = <<p>> \o (<<q>> \o s)

\* Two elements in front of a sequence.
LEMMA TwoInFront ==
    ASSUME NEW S, NEW p \in S, NEW q \in S, NEW s \in Seq(S)
    PROVE  FrontTwo(p, q, s)
<1> DEFINE u == <<q>> \o s
           v == <<p>> \o u
           w == <<p, q>> \o s
<1>1. <<p>> \in Seq(S) /\ <<q>> \in Seq(S) /\ <<p, q>> \in Seq(S)
  OBVIOUS
<1>2. u \in Seq(S) /\ Len(u) = Len(s) + 1 /\ u[1] = q /\ \A i \in 1 .. Len(s) : u[i + 1] = s[i]
  BY <1>1
<1> HIDE DEF u
<1>3. v \in Seq(S) /\ Len(v) = Len(u) + 1 /\ v[1] = p /\ \A i \in 1 .. Len(u) : v[i + 1] = u[i]
  BY <1>1, <1>2
<1> HIDE DEF v
<1>4. Len(v) = Len(s) + 2 /\ v[1] = p /\ v[2] = q /\ \A i \in 1 .. Len(s) : v[i + 2] = s[i]
  <2>1. v[2] = q
    <3>1. 1 \in 1 .. Len(u)
      BY <1>2
    <3> QED  BY <1>2, <1>3, <3>1
  <2>2. ASSUME NEW i \in 1 .. Len(s) PROVE v[i + 2] = s[i]
    <3>1. i + 1 \in 1 .. Len(u) /\ (i + 1) + 1 = i + 2
      BY <1>2
    <3> QED  BY <1>2, <1>3, <3>1, Zenon
  <2> QED  BY <1>2, <1>3, <2>1, <2>2
<1>6. w \in Seq(S) /\ Len(w) = Len(s) + 2 /\ w[1] = p /\ w[2] = q
      /\ \A i \in 1 .. Len(s) : w[i + 2] = s[i]
  BY <1>1
<1> HIDE DEF w
<1>7. \A i \in 1 .. Len(w) : v[i] = w[i]
  <2> SUFFICES ASSUME NEW i \in 1 .. Len(w) PROVE v[i] = w[i]
    BY Zenon
  <2>1. i = 1 \/ i = 2 \/ (i - 2 \in 1 .. Len(s) /\ i = (i - 2) + 2)
    BY <1>6
  <2> QED  BY <1>4, <1>6, <2>1, Zenon
<1>8. v = w
  BY <1>3, <1>4, <1>6, <1>7
<1> QED  BY <1>8, Zenon DEF u, v, w, FrontTwo

\* The middle of a batch of several days.
LEMMA Halving ==
    ASSUME NEW a \in Int, NEW b \in Int, a < b, ~(b - a <= 1)
    PROVE  /\ a + (b - a) \div 2 \in Int
           /\ a < a + (b - a) \div 2 /\ a + (b - a) \div 2 < b
OBVIOUS

\* One query: the next batch is taken or split, or the last one has been written.
LEMMA QueryBatchKeeps ==
    ASSUME HistoryInv, NEW x \in Exporters, QueryBatch(x)
    PROVE  HistoryInv'
<1> DEFINE me == exporter[x]
           b == Head(me.pending)
           split == b[1] + (b[2] - b[1]) \div 2
<1>1. me \in Export /\ me.at = "query" /\ me.start < me.end /\ UNCHANGED archive /\ Free(me)
      /\ me.start \in Int /\ me.end \in Int /\ me.pending \in Seq(Int \X Int)
      /\ \A y \in Exporters \ {x} : ~Holds(y)
  <2>1. me \in Export /\ me.at = "query" /\ UNCHANGED archive /\ Progress(me) /\ Free(me)
    BY Zenon DEF HistoryInv, QueryBatch
  <2>2. me.start \in Int /\ me.end \in 0 .. LastDay /\ me.pending \in Seq(Int \X Int)
    BY <2>1, Zenon DEF Export
  <2>3. \A n \in 0 .. LastDay : n \in Int
    BY HistoryAssumption
  <2>4. me.start < me.end
    BY <2>1, Zenon DEF Progress
  <2>5. \A y \in Exporters \ {x} : ~Holds(y)
    BY <2>1, Zenon DEF HistoryInv, Holds
  <2> QED  BY <2>1, <2>2, <2>3, <2>4, <2>5, Zenon
<1>2. PICK d \in Int : /\ Contiguous(me.pending, d, me.end)
                       /\ me.start <= d /\ me.files = Payloads(me.start, d)
  BY <1>1, Zenon DEF HistoryInv, Progress, QueryProgress
<1>3. CASE me.pending = <<>>
  <2> DEFINE new == [me EXCEPT !.at = "manifest"]
  <2>1. exporter' = [exporter EXCEPT ![x] = new]
    BY <1>3, Zenon DEF QueryBatch
  <2>2. /\ new \in Export /\ new.at = "manifest" /\ new.start = me.start /\ new.end = me.end
        /\ new.files = me.files
    BY <1>1, Zenon DEF Export, Held
  <2> HIDE DEF new
  <2>3. d = me.end
    BY <1>2, <1>3, Zenon DEF Contiguous
  <2>4. Progress(new) /\ Free(new)
    BY <1>1, <1>2, <2>2, <2>3, Zenon DEF Progress, Free, Overlaps, Held
  <2> QED  BY <1>1, <2>1, <2>2, <2>4, Moved, Zenon
<1>4. CASE me.pending # <<>>
  <2>1. b \in Int \X Int /\ b[1] = d /\ d < b[2] /\ Contiguous(Tail(me.pending), b[2], me.end)
    BY <1>1, <1>2, <1>4, ContiguousTail, Zenon
  <2>2. Tail(me.pending) \in Seq(Int \X Int) /\ b[2] \in Int
    BY <2>1, Zenon DEF Contiguous
  <2>3. CASE exporter' = [exporter EXCEPT ![x] = NoExport]
    BY <1>1, <2>3, Ended, Zenon
  <2>4. CASE exporter' = [exporter EXCEPT ![x] =
                 [me EXCEPT !.at = "write", !.batch = b, !.pending = Tail(@)]]
    <3> DEFINE new == [me EXCEPT !.at = "write", !.batch = b, !.pending = Tail(@)]
    <3>1. /\ new \in Export /\ new.at = "write" /\ new.start = me.start /\ new.end = me.end
          /\ new.files = me.files /\ new.batch = b /\ new.pending = Tail(me.pending)
      BY <1>1, <2>1, <2>2, Zenon DEF Export, Held
    <3> HIDE DEF new
    <3>2. WriteProgress(new)
      BY <1>2, <2>1, <3>1 DEF WriteProgress
    <3>3. Progress(new) /\ Free(new)
      BY <1>1, <3>1, <3>2, Zenon DEF Progress, Free, Overlaps, Held
    <3> QED  BY <1>1, <2>4, <3>1, <3>3, Moved, Zenon DEF new
  <2>5. CASE ~(b[2] - b[1] <= 1) /\ exporter' = [exporter EXCEPT ![x] =
                 [me EXCEPT !.pending = <<<<b[1], split>>, <<split, b[2]>>>> \o Tail(@)]]
    <3> DEFINE halves == <<<<b[1], split>>, <<split, b[2]>>>> \o Tail(me.pending)
               new == [me EXCEPT !.pending = halves]
    <3>1. split \in Int /\ b[1] < split /\ split < b[2]
      <4>1. b[1] \in Int /\ b[2] \in Int /\ b[1] < b[2] /\ ~(b[2] - b[1] <= 1)
        BY <2>1, <2>2, <2>5, Zenon
      <4> QED  BY <4>1, Halving, Zenon
    <3>2. Contiguous(<<<<split, b[2]>>>> \o Tail(me.pending), split, me.end)
      BY <1>1, <2>1, <2>2, <3>1, ContiguousCons, Zenon
    <3>3. Contiguous(<<<<d, split>>>> \o (<<<<split, b[2]>>>> \o Tail(me.pending)), d, me.end)
      BY <1>1, <2>1, <3>1, <3>2, ContiguousCons, Zenon
    <3>4. halves = <<<<d, split>>>> \o (<<<<split, b[2]>>>> \o Tail(me.pending))
      <4>1. <<b[1], split>> \in Int \X Int /\ <<split, b[2]>> \in Int \X Int
        BY <2>1, <2>2, <3>1, Zenon
      <4>2. halves = <<<<b[1], split>>>> \o (<<<<split, b[2]>>>> \o Tail(me.pending))
        <5>1. PICK p \in Int \X Int : p = <<b[1], split>>
          BY <4>1, Zenon
        <5>2. PICK q \in Int \X Int : q = <<split, b[2]>>
          BY <4>1, Zenon
        <5>3. PICK s \in Seq(Int \X Int) : s = Tail(me.pending)
          BY <2>2, Zenon
        <5>4. <<p, q>> \o s = <<p>> \o (<<q>> \o s)
          <6>1. FrontTwo(p, q, s)
            BY TwoInFront, Zenon
          <6> QED  BY <6>1, Zenon DEF FrontTwo
        <5> QED  BY <5>1, <5>2, <5>3, <5>4, Zenon
      <4> QED  BY <2>1, <4>2, Zenon
    <3>5. Contiguous(halves, d, me.end) /\ halves \in Seq(Int \X Int)
      BY <3>3, <3>4, Zenon DEF Contiguous
    <3> HIDE DEF halves
    <3>6. /\ new \in Export /\ new.at = "query" /\ new.start = me.start /\ new.end = me.end
          /\ new.files = me.files /\ new.pending = halves
      BY <1>1, <3>5, Zenon DEF Export, Held
    <3>7. exporter' = [exporter EXCEPT ![x] = new]
      BY <2>5, Zenon DEF halves
    <3> HIDE DEF new
    <3>8. QueryProgress(new)
      BY <1>2, <3>5, <3>6, Zenon DEF QueryProgress
    <3>9. Progress(new) /\ Free(new)
      BY <1>1, <3>6, <3>8, Zenon DEF Progress, Free, Overlaps, Held
    <3> QED  BY <1>1, <3>6, <3>7, <3>9, Moved, Zenon
  <2>6. \/ exporter' = [exporter EXCEPT ![x] = NoExport]
        \/ exporter' = [exporter EXCEPT ![x] =
                 [me EXCEPT !.at = "write", !.batch = b, !.pending = Tail(@)]]
        \/ ~(b[2] - b[1] <= 1) /\ exporter' = [exporter EXCEPT ![x] =
                 [me EXCEPT !.pending = <<<<b[1], split>>, <<split, b[2]>>>> \o Tail(@)]]
    BY <1>4, Zenon DEF QueryBatch
  <2> QED  BY <2>3, <2>4, <2>5, <2>6, Zenon
<1> QED  BY <1>3, <1>4, Zenon

\* The payloads of one more day.
LEMMA OneMoreDay ==
    ASSUME NEW a \in Int, NEW d \in Int, a <= d
    PROVE  /\ Payloads(a, d + 1)
                = Payloads(a, d) \cup {<<d, "usage-users">>} \cup {<<d, "usage-samples">>}
           /\ <<d, "usage-users">> \notin Payloads(a, d)
<1>1. a .. (d + 1) - 1 = (a .. d - 1) \cup {d} /\ d \notin a .. d - 1
  OBVIOUS
<1> QED  BY <1>1 DEF Payloads, Kinds

\* One payload of a day, or the end of the batch.
LEMMA WriteDayKeeps ==
    ASSUME HistoryInv, NEW x \in Exporters, WriteDay(x)
    PROVE  HistoryInv'
<1> DEFINE me == exporter[x]
           d == me.batch[1]
<1>1. me \in Export /\ me.at = "write" /\ me.start < me.end /\ UNCHANGED archive /\ Free(me)
      /\ me.start \in Int /\ me.end \in Int /\ me.pending \in Seq(Int \X Int)
      /\ me.batch \in Int \X Int /\ me.files \in SUBSET (Int \X Kinds)
      /\ \A y \in Exporters \ {x} : ~Holds(y)
  BY DEF HistoryInv, WriteDay, Progress, Export, Holds
<1>2. WriteProgress(me)
  BY <1>1, Zenon DEF HistoryInv, Progress
<1>3. CASE d = me.batch[2]
  <2> DEFINE new == [me EXCEPT !.at = "query"]
  <2>1. exporter' = [exporter EXCEPT ![x] = new]
    BY <1>3, Zenon DEF WriteDay
  <2>2. /\ new \in Export /\ new.at = "query" /\ new.start = me.start /\ new.end = me.end
        /\ new.files = me.files /\ new.pending = me.pending
    BY <1>1, Zenon DEF Export, Held
  <2> HIDE DEF new
  <2>3. QueryProgress(new)
    BY <1>1, <1>2, <1>3, <2>2, SMTT(30) DEF QueryProgress, WriteProgress
  <2>4. Progress(new) /\ Free(new)
    BY <1>1, <2>2, <2>3, Zenon DEF Progress, Free, Overlaps, Held
  <2> QED  BY <1>1, <2>1, <2>2, <2>4, Moved, Zenon
<1>4. CASE d # me.batch[2] /\ <<d, "usage-users">> \in me.files
  <2> DEFINE new == [me EXCEPT !.files = @ \cup {<<d, "usage-samples">>}, !.batch[1] = d + 1]
  <2>1. exporter' = [exporter EXCEPT ![x] = new]
    BY <1>4, Zenon DEF WriteDay
  <2>2. me.files = Payloads(me.start, d) \cup {<<d, "usage-users">>} /\ d < me.batch[2]
    BY <1>1, <1>2, <1>4, OneMoreDay DEF WriteProgress
  <2>3. /\ new \in Export /\ new.at = "write" /\ new.start = me.start /\ new.end = me.end
        /\ new.files = me.files \cup {<<d, "usage-samples">>} /\ new.pending = me.pending
        /\ new.batch[1] = d + 1 /\ new.batch[2] = me.batch[2]
    <3> DEFINE more == me.files \cup {<<d, "usage-samples">>}
    <3>1. PICK r : r = [me EXCEPT !.files = more]
      BY Zenon
    <3>0. more \in SUBSET (Int \X Kinds)
      BY <1>1 DEF Kinds
    <3> HIDE DEF more
    <3>2. /\ r \in Export /\ r.at = "write" /\ r.start = me.start /\ r.end = me.end
          /\ r.files = more /\ r.pending = me.pending /\ r.batch = me.batch
      BY <1>1, <3>0, <3>1, Zenon DEF Export
    <3>3. PICK e : e = [me.batch EXCEPT ![1] = d + 1]
      BY Zenon
    <3>4. e \in Int \X Int /\ e[1] = d + 1 /\ e[2] = me.batch[2]
      BY <1>1, <3>3
    <3>5. new = [r EXCEPT !.batch = e]
      BY <1>1, <3>1, <3>2, <3>3, Zenon DEF Export, more
    <3> HIDE DEF new
    <3>6. new \in Export /\ new.batch = e /\ new.files = more /\ new.at = r.at /\ new.start = r.start
          /\ new.end = r.end /\ new.pending = r.pending
      BY <3>2, <3>4, <3>5, Zenon DEF Export
    <3> QED  BY <3>2, <3>4, <3>6, Zenon DEF more
  <2> HIDE DEF new
  <2>4. WriteProgress(new)
    <3>1. me.start <= d /\ d \in Int /\ Contiguous(me.pending, me.batch[2], me.end)
      BY <1>1, <1>2, Zenon DEF WriteProgress
    <3>2. new.files = Payloads(me.start, d + 1)
      <4>1. Payloads(me.start, d + 1)
              = Payloads(me.start, d) \cup {<<d, "usage-users">>} \cup {<<d, "usage-samples">>}
        BY <1>1, <3>1, OneMoreDay, Zenon
      <4> QED  BY <2>2, <2>3, <4>1, Zenon
    <3>3. me.start <= d + 1 /\ d + 1 <= me.batch[2]
      BY <1>1, <2>2, <3>1
    <3> QED  BY <2>3, <3>1, <3>2, <3>3, Zenon DEF WriteProgress
  <2>5. Progress(new) /\ Free(new)
    BY <1>1, <2>3, <2>4, Zenon DEF Progress, Free, Overlaps, Held
  <2> QED  BY <1>1, <2>1, <2>3, <2>5, Moved, Zenon
<1>5. CASE d # me.batch[2] /\ <<d, "usage-users">> \notin me.files
  <2> DEFINE new == [me EXCEPT !.files = @ \cup {<<d, "usage-users">>}]
  <2>1. exporter' = [exporter EXCEPT ![x] = new]
    BY <1>5, Zenon DEF WriteDay
  <2>2. me.files = Payloads(me.start, d) /\ d < me.batch[2]
    BY <1>1, <1>2, <1>5, SMTT(30) DEF WriteProgress
  <2>3. /\ new \in Export /\ new.at = "write" /\ new.start = me.start /\ new.end = me.end
        /\ new.files = me.files \cup {<<d, "usage-users">>} /\ new.pending = me.pending
        /\ new.batch = me.batch
    <3> DEFINE more == me.files \cup {<<d, "usage-users">>}
    <3>1. more \in SUBSET (Int \X Kinds)
      BY <1>1 DEF Kinds
    <3> HIDE DEF more
    <3>2. LET r == [me EXCEPT !.files = more]
          IN  r \in Export /\ r.at = "write" /\ r.start = me.start /\ r.end = me.end
              /\ r.files = more /\ r.pending = me.pending /\ r.batch = me.batch
      BY <1>1, <3>1, Zenon DEF Export
    <3> QED  BY <3>2, Zenon DEF more
  <2> HIDE DEF new
  <2>4. WriteProgress(new)
    BY <1>1, <1>2, <2>2, <2>3, Zenon DEF WriteProgress
  <2>5. Progress(new) /\ Free(new)
    BY <1>1, <2>3, <2>4, Zenon DEF Progress, Free, Overlaps, Held
  <2> QED  BY <1>1, <2>1, <2>3, <2>5, Moved, Zenon
<1> QED  BY <1>3, <1>4, <1>5, Zenon

\* The manifest is written when every payload is there.
LEMMA WriteManifestKeeps ==
    ASSUME HistoryInv, NEW x \in Exporters, WriteManifest(x)
    PROVE  HistoryInv'
<1> DEFINE me == exporter[x]
           new == [me EXCEPT !.manifest = TRUE, !.at = "rename"]
<1>1. me \in Export /\ me.at = "manifest" /\ me.start < me.end /\ UNCHANGED archive /\ Free(me)
      /\ me.files = Payloads(me.start, me.end) /\ \A y \in Exporters \ {x} : ~Holds(y)
  BY Zenon DEF HistoryInv, WriteManifest, Progress, Holds
<1>2. exporter' = [exporter EXCEPT ![x] = new]
  BY Zenon DEF WriteManifest, HistoryInv
<1>3. /\ new \in Export /\ new.at = "rename" /\ new.start = me.start /\ new.end = me.end
      /\ new.files = me.files /\ new.manifest = TRUE
  BY <1>1, Zenon DEF Export, Held
<1> HIDE DEF new
<1>4. Progress(new) /\ Free(new)
  BY <1>1, <1>3, Zenon DEF Progress, Free, Overlaps, Held
<1> QED  BY <1>1, <1>2, <1>3, <1>4, Moved, Zenon

\* The rename publishes a complete generation of days that no other holds.
LEMMA PublishKeeps ==
    ASSUME HistoryInv, NEW x \in Exporters, Publish(x)
    PROVE  HistoryInv'
<1> DEFINE me == exporter[x]
           new == [me EXCEPT !.at = "sync"]
           n == Generation(me)
<1>1. me \in Export /\ me.at = "rename" /\ me.start < me.end /\ Free(me) /\ me.manifest
      /\ me.start \in Int /\ me.end \in 0 .. LastDay
      /\ me.files = Payloads(me.start, me.end) /\ \A y \in Exporters \ {x} : ~Holds(y)
  BY Zenon DEF HistoryInv, Publish, Progress, Holds, Export
<1>2. exporter' = [exporter EXCEPT ![x] = new] /\ archive' = archive \cup {n}
  BY Zenon DEF Publish, HistoryInv
<1>3. /\ new \in Export /\ new.at = "sync" /\ new.start = me.start /\ new.end = me.end
  BY <1>1, Zenon DEF Export, Held
<1>4. n.start = me.start /\ n.end = me.end /\ n.files = me.files /\ (n.manifest <=> me.manifest)
  BY Zenon DEF Generation
<1> HIDE DEF new, n
<1>5. Progress(new)
  BY <1>1, <1>3, Zenon DEF Progress, Held
<1>6. exporter' \in [Exporters -> Export] /\ exporter'[x] = new
      /\ \A y \in Exporters \ {x} : exporter'[y] = exporter[y] /\ exporter[y].at \notin Held
  BY <1>1, <1>2, <1>3, Zenon DEF HistoryInv, Holds, Held
<1>7. ValidManifest(n)
  BY <1>1, <1>4, Zenon DEF ValidManifest, CoversRange, Payloads
<1>8. \A g \in archive : ValidManifest(g) /\ ~Overlaps(g, n) /\ g.start \in Int /\ g.end \in Int
                         /\ g.start < g.end
  BY <1>1, <1>4, SMTT(30) DEF HistoryInv, Answered, ValidManifest, Free, Overlaps, Held
<1>9. NonOverlapping(archive')
  <2>1. \A g \in archive : /\ g.start <= n.start => g.end <= n.start
                           /\ n.start <= g.start => n.end <= g.start
    BY <1>1, <1>4, <1>8 DEF Overlaps
  <2> QED  BY <1>2, <2>1, Zenon DEF NonOverlapping, HistoryInv, Answered
<1>10. Answered(archive)'
  BY <1>2, <1>7, <1>8, <1>9, Zenon DEF Answered
<1>11. \A y \in Exporters : Progress(exporter'[y]) /\ (Free(exporter[y]))'
  <2>1. \A y \in Exporters \ {x} : Progress(exporter'[y]) /\ (Free(exporter[y]))'
    BY <1>6, Zenon DEF HistoryInv, Free
  <2>2. Progress(exporter'[x]) /\ (Free(exporter[x]))'
    BY <1>3, <1>5, <1>6, Zenon DEF Free, Held
  <2> QED  BY <2>1, <2>2, Zenon
<1>12. \A y, z \in Exporters : Holds(y)' /\ Holds(z)' => y = z
  BY <1>6, Zenon DEF Holds, Held
<1>13. \A g \in archive' : g.start \in Int /\ g.end \in 0 .. LastDay
  BY <1>1, <1>2, <1>4, Zenon DEF HistoryInv
<1> QED
  BY <1>6, <1>10, <1>11, <1>12, <1>13, Zenon DEF HistoryInv

\* Every step of the archive keeps its invariant.
LEMMA HistoryStep == HistoryInv /\ [HistoryNext]_historyVars => HistoryInv'
<1> SUFFICES ASSUME HistoryInv, [HistoryNext]_historyVars PROVE HistoryInv'
  BY Zenon
<1>1. CASE UNCHANGED historyVars
  BY <1>1, Zenon DEF historyVars, HistoryInv, Free, Holds
<1>2. ASSUME NEW x \in Exporters, LockTimesOut(x) \/ SyncNamespace(x) \/ ExportFails(x) \/ ExportKilled(x)
      PROVE  HistoryInv'
  BY <1>2, Ended, Zenon DEF LockTimesOut, SyncNamespace, ExportFails, ExportKilled
<1> QED
  BY <1>1, <1>2, ResolveKeeps, LockNamespaceKeeps, QueryBatchKeeps, WriteDayKeeps,
     WriteManifestKeeps, PublishKeeps, Zenon DEF HistoryNext

\* HistoryAnswered for any number of concurrent exports, any windows, resolutions and
\* loads, and any failures and kills: `bk admin cluster history export` never publishes a
\* generation that a usage query would refuse or count twice (bk/cluster_history.py).
THEOREM ArchiveAnswers ==
    HistoryInit /\ [][HistoryNext]_historyVars => []HistoryAnswered
<1>1. HistoryInit => HistoryInv
  <2> SUFFICES ASSUME HistoryInit PROVE HistoryInv
    BY Zenon
  <2>1. \A x \in Exporters : exporter[x] = NoExport
    BY Zenon DEF HistoryInit
  <2>2. NoExport \in Export /\ Progress(NoExport) /\ Free(NoExport) /\ NoExport.at \notin Held
    BY Outside, Zenon DEF Progress, Free, Held
  <2> QED  BY <2>1, <2>2, Zenon DEF HistoryInit, HistoryInv, Answered, NonOverlapping, Holds, Held
<1>2. HistoryInv => HistoryAnswered
  BY Zenon DEF HistoryInv, HistoryAnswered
<1> QED  BY <1>1, <1>2, HistoryStep, PTL

-----------------------------------------------------------------------------
(* Job logs.                                                               *)

JobStatus ==
    {"absent", "pending", "claimed", "running", "succeeded", "failed", "interrupted", "missed"}
SegmentFile == Seq(Nat) \cup {Absent}
LogFiles == [current : SegmentFile, rotated : SegmentFile]
PumpState == [at : {"off", "unlink", "rename", "create", "header", "open", "write", "deaf"},
              bytes : Nat]
CleanerState ==
    [at : {"off", "scan", "retention", "quota"}, home : Cleaners \cup {"none"},
     needed : SUBSET Job, groups : SUBSET [job : Job, old : BOOLEAN, size : Nat]]

LogTypes ==
    /\ job \in [Job -> JobStatus] /\ files \in [Job -> LogFiles]
    /\ pump \in [Job -> PumpState] /\ written \in [Job -> Nat] /\ cleaner \in CleanerState
    /\ begun \in [Job -> 0 .. 2]

\* Where the newest chunk n of a log f is while b segments have been begun since: in the
\* current segment, or in the rotated one once the rotation is over.  A segment that is
\* being rotated away has been counted, and one that is written to is there.
LogIs(f, p, n, b) ==
    /\ \/ n = 0 \/ (Segment # 0 /\ b = 2) \/ Carries(f.current, n)
       \/ Segment # 0 /\ b = 1 /\ p.at \notin {"unlink", "rename"} /\ Carries(f.rotated, n)
    /\ p.at \in {"unlink", "rename"} => Segment # 0 /\ b # 0
    /\ p.at \in {"header", "open", "write"} => Present(f.current)

\* The inductive invariant of the job logs: a clean-up knows every job that still needs
\* its log, and the newest output of such a job is where it belongs.
JobLogsInv ==
    /\ LogTypes
    /\ \A j \in Job : pump[j] # NoPump => job[j] \in {"claimed", "running"}
    /\ \A j \in Job : job[j] = "absent" => written[j] = 0
    /\ cleaner.at # "off" => \A j \in Job \ unseen : Needed(j) => j \in cleaner.needed
    /\ \A j \in Job \ unseen : Needed(j) => LogIs(files[j], pump[j], written[j], begun[j])

\* A step that changes one job only.
LEMMA OneJob ==
    ASSUME JobLogsInv, NEW j \in Job, LogTypes', UNCHANGED cleaner,
           \A k \in Job \ {j} : job'[k] = job[k] /\ files'[k] = files[k] /\ pump'[k] = pump[k]
                                /\ written'[k] = written[k] /\ begun'[k] = begun[k],
           ended \subseteq ended', unseen \subseteq unseen',
           pump'[j] # NoPump => job'[j] \in {"claimed", "running"},
           job'[j] = "absent" => written'[j] = 0,
           j \notin unseen' /\ Needed(j)' => /\ LogIs(files'[j], pump'[j], written'[j], begun'[j])
                                             /\ cleaner.at # "off" => j \in cleaner.needed
    PROVE  JobLogsInv'
<1>1. \A k \in Job \ {j} : Needed(k)' => Needed(k)
  BY Zenon DEF Needed
<1>2. \A k \in Job : pump'[k] # NoPump => job'[k] \in {"claimed", "running"}
  BY Zenon DEF JobLogsInv
<1>3. \A k \in Job : job'[k] = "absent" => written'[k] = 0
  BY Zenon DEF JobLogsInv
<1>4. cleaner'.at # "off" => \A k \in Job \ unseen' : Needed(k)' => k \in cleaner'.needed
  BY <1>1, Zenon DEF JobLogsInv
<1>5. \A k \in Job \ unseen' : Needed(k)' => LogIs(files'[k], pump'[k], written'[k], begun'[k])
  BY <1>1, Zenon DEF JobLogsInv
<1>6. \A k \in Job : LogIs(files[k], pump[k], written[k], begun[k])'
                     <=> LogIs(files'[k], pump'[k], written'[k], begun'[k])
  BY Zenon DEF LogIs, Carries, Present
<1> QED
  BY <1>2, <1>3, <1>4, <1>5, <1>6, Zenon DEF JobLogsInv, NoPump

\* Booking, retrying and ending a job.  A job that is booked while a clean-up is under way
\* is unseen; no other becomes one that needs its log.
LEMMA JobSteps ==
    ASSUME JobLogsInv, NEW j \in Job, Book(j) \/ Retry(j) \/ End(j)
    PROVE  JobLogsInv'
<1>1. /\ \A k \in Job \ {j} : job'[k] = job[k]
      /\ job' \in [Job -> JobStatus] /\ UNCHANGED <<files, pump, written, begun, cleaner>>
      /\ ended \subseteq ended' /\ unseen \subseteq unseen'
  BY Zenon DEF Book, Retry, End, JobLogsInv, LogTypes, JobStatus
<1>2. LogTypes'
  BY <1>1, Zenon DEF JobLogsInv, LogTypes
<1>3. pump'[j] # NoPump => job'[j] \in {"claimed", "running"}
  BY <1>1, Zenon DEF Book, Retry, End, JobLogsInv, LogTypes, JobStatus
<1>4. job'[j] # "absent"
  BY <1>1, Zenon DEF Book, Retry, End, JobLogsInv, LogTypes, JobStatus
<1>5. j \notin unseen' /\ Needed(j)' => /\ LogIs(files'[j], pump'[j], written'[j], begun'[j])
                                        /\ cleaner.at # "off" => j \in cleaner.needed
  <2>1. CASE Book(j)
    <3>1. job[j] = "absent" /\ pump[j] = NoPump /\ written[j] = 0 /\ NoPump.at = "off"
      BY <2>1, Zenon DEF Book, JobLogsInv, NoPump
    <3>2. LogIs(files[j], pump[j], written[j], begun[j])
      BY <3>1, Zenon DEF LogIs
    <3>3. j \notin unseen' => cleaner.at = "off"
      BY <2>1, Zenon DEF Book
    <3> QED  BY <1>1, <3>2, <3>3, Zenon
  <2>2. CASE Retry(j) \/ End(j)
    <3>1. Needed(j)' => Needed(j)
      BY <1>1, <2>2, Zenon DEF Retry, End, Needed, JobLogsInv, LogTypes
    <3> QED  BY <1>1, <3>1, Zenon DEF JobLogsInv
  <2> QED  BY <2>1, <2>2, Zenon
<1> QED  BY <1>1, <1>2, <1>3, <1>4, <1>5, OneJob, Zenon

\* What a step of the pump of j changes.
LEMMA PumpStep ==
    ASSUME JobLogsInv, NEW j \in Job, NEW at, NEW bytes, NEW f, Pumped(j, at, bytes, f),
           f \in LogFiles, bytes \in Nat,
           at \in {"unlink", "rename", "create", "header", "open", "write"},
           job' \in [Job -> JobStatus], \A k \in Job \ {j} : job'[k] = job[k],
           written' \in [Job -> Nat], \A k \in Job \ {j} : written'[k] = written[k],
           begun' \in [Job -> 0 .. 2], \A k \in Job \ {j} : begun'[k] = begun[k],
           job'[j] \in {"claimed", "running"}, Needed(j),
           LogIs(files[j], pump[j], written[j], begun[j])
               => LogIs(f, [at |-> at, bytes |-> bytes], written'[j], begun'[j])
    PROVE  JobLogsInv'
<1> DEFINE p == [at |-> at, bytes |-> bytes]
<1>1. /\ pump' = [pump EXCEPT ![j] = p] /\ files' = [files EXCEPT ![j] = f]
      /\ UNCHANGED <<ended, cleaner, unseen>>
  BY Zenon DEF Pumped
<1>2. p \in PumpState
  BY Zenon DEF PumpState
<1> HIDE DEF p
<1>3. /\ pump'[j] = p /\ files'[j] = f /\ pump' \in [Job -> PumpState] /\ files' \in [Job -> LogFiles]
      /\ \A k \in Job \ {j} : pump'[k] = pump[k] /\ files'[k] = files[k]
  BY <1>1, <1>2, Zenon DEF JobLogsInv, LogTypes
<1>4. LogTypes'
  BY <1>1, <1>3, Zenon DEF JobLogsInv, LogTypes
<1>5. j \notin unseen' /\ Needed(j)' => /\ LogIs(files'[j], pump'[j], written'[j], begun'[j])
                                        /\ cleaner.at # "off" => j \in cleaner.needed
  BY <1>1, <1>3, Zenon DEF JobLogsInv, p
<1> QED  BY <1>1, <1>3, <1>4, <1>5, OneJob, Zenon

\* The files of a job before a step of its pump.
LEMMA LogFacts ==
    ASSUME JobLogsInv, NEW j \in Job
    PROVE  /\ files[j] \in LogFiles /\ files[j].current \in SegmentFile
           /\ files[j].rotated \in SegmentFile
           /\ pump[j] \in PumpState /\ pump[j].bytes \in Nat /\ written[j] \in Nat
           /\ Size(files[j].current) \in Nat /\ begun[j] \in 0 .. 2
           /\ job \in [Job -> JobStatus] /\ written \in [Job -> Nat] /\ begun \in [Job -> 0 .. 2]
           /\ pump[j].at # "off" => job[j] \in {"claimed", "running"} /\ Needed(j)
<1>1. /\ files[j] \in LogFiles /\ pump[j] \in PumpState /\ written[j] \in Nat /\ begun[j] \in 0 .. 2
      /\ job \in [Job -> JobStatus] /\ written \in [Job -> Nat] /\ begun \in [Job -> 0 .. 2]
  BY Zenon DEF JobLogsInv, LogTypes
<1>2. pump[j].at # "off" => pump[j] # NoPump
  BY DEF NoPump
<1>3. files[j].current \in SegmentFile /\ files[j].rotated \in SegmentFile
  BY <1>1, Zenon DEF LogFiles
<1>4. pump[j].at # "off" => job[j] \in {"claimed", "running"} /\ Needed(j)
  BY <1>2, Zenon DEF JobLogsInv, Needed
<1>5. Size(files[j].current) \in Nat
  BY <1>3 DEF SegmentFile, Size, Present
<1>6. pump[j].bytes \in Nat
  BY <1>1, Zenon DEF PumpState
<1> QED  BY <1>1, <1>3, <1>4, <1>5, <1>6, Zenon

\* A segment of output is not a missing file.
LEMMA SegmentIsPresent ==
    ASSUME NEW s \in Seq(Nat)
    PROVE  Present(s)
<1>1. s # <<-1>>
  <2> SUFFICES ASSUME s = <<-1>> PROVE FALSE
    BY Zenon
  <2>1. Len(s) = 1 /\ s[1] = -1
    BY Zenon
  <2>2. s[1] \in Nat
    BY <2>1
  <2> QED  BY <2>1, <2>2
<1> QED  BY <1>1, Zenon DEF Present, Absent

\* What is appended to a log leaves the rest of it in place.
LEMMA ExtendedKeeps ==
    ASSUME NEW j \in Job, files[j] \in LogFiles, NEW m \in Nat
    PROVE  LET g == Extended(j, m) IN
           /\ g \in LogFiles /\ g.rotated = files[j].rotated
           /\ \A n : Carries(files[j].current, n) => Carries(g.current, n)
           /\ Present(files[j].current) => Present(g.current) /\ Carries(g.current, m)
<1> DEFINE f == files[j]
           s == f.current
           longer == Append(s, m)
           g == Extended(j, m)
<1>1. CASE Present(s)
  <2>1. s \in Seq(Nat)
    BY <1>1, Zenon DEF Present, LogFiles, SegmentFile
  <2>2. /\ longer \in Seq(Nat) /\ Len(s) + 1 \in DOMAIN longer /\ longer[Len(s) + 1] = m
        /\ \A i \in DOMAIN s : i \in DOMAIN longer /\ longer[i] = s[i]
    <3> HIDE DEF s
    <3> QED  BY <2>1
  <2>3. Present(longer)
    BY <2>2, SegmentIsPresent, Zenon
  <2>4. g = [f EXCEPT !.current = longer]
    BY <1>1, Zenon DEF Extended
  <2> HIDE DEF longer
  <2>5. g \in LogFiles /\ g.rotated = f.rotated /\ g.current = longer
    BY <2>2, <2>4, Zenon DEF LogFiles, SegmentFile
  <2> HIDE DEF g
  <2>6. Carries(longer, m) /\ \A n : Carries(s, n) => Carries(longer, n)
    BY <2>2, <2>3, Zenon DEF Carries
  <2> QED  BY <2>3, <2>5, <2>6, Zenon DEF g
<1>2. CASE ~Present(s)
  BY <1>2, Zenon DEF Extended, Carries
<1> QED  BY <1>1, <1>2, Zenon

\* A further segment is counted, up to two.
LEMMA AnotherSegment ==
    ASSUME NEW b \in 0 .. 2
    PROVE  Another(b) \in {1, 2} /\ (b = 0 <=> Another(b) = 1)
  BY DEF Another

\* A launch opens the log, rotating one that is not empty.
LEMMA OpenPumpKeeps ==
    ASSUME JobLogsInv, NEW j \in Job, OpenPump(j)
    PROVE  JobLogsInv'
<1> DEFINE at == IF Segment # 0 /\ Size(files[j].current) > 0 THEN "unlink" ELSE "create"
           f == files[j]
           p == [at |-> at, bytes |-> 0]
<1>1. /\ job[j] = "pending" /\ Pumped(j, at, 0, f) /\ job' = [job EXCEPT ![j] = "claimed"]
      /\ begun' = [begun EXCEPT ![j] = Another(@)] /\ UNCHANGED written /\ pump[j] = NoPump
  BY Zenon DEF OpenPump
<1>2. /\ f \in LogFiles /\ begun[j] \in 0 .. 2 /\ begun \in [Job -> 0 .. 2]
      /\ job \in [Job -> JobStatus] /\ written \in [Job -> Nat]
  BY LogFacts, Zenon
<1>3. Another(begun[j]) \in {1, 2} /\ (begun[j] = 0 <=> Another(begun[j]) = 1)
  BY <1>2, AnotherSegment, Zenon
<1>4. 1 \in 0 .. 2 /\ 2 \in 0 .. 2 /\ 0 # 1 /\ 1 # 2 /\ 0 # 2
  OBVIOUS
<1>5. /\ begun' \in [Job -> 0 .. 2] /\ begun'[j] = Another(begun[j])
      /\ \A k \in Job \ {j} : begun'[k] = begun[k]
  BY <1>1, <1>2, <1>3, <1>4, Zenon
<1>6. p.at = at /\ at \in {"unlink", "create"} /\ (at = "unlink" => Segment # 0)
  BY Zenon
<1>7. /\ job' \in [Job -> JobStatus] /\ job'[j] = "claimed" /\ \A k \in Job \ {j} : job'[k] = job[k]
      /\ Needed(j)
  BY <1>1, <1>2, Zenon DEF JobStatus, Needed
<1> HIDE DEF f, p, at
<1>8. LogIs(f, pump[j], written[j], begun[j]) => LogIs(f, p, written'[j], begun'[j])
  BY <1>1, <1>3, <1>4, <1>5, <1>6, Zenon DEF LogIs
<1>9. 0 \in Nat
  OBVIOUS
<1> QED  BY <1>1, <1>2, <1>5, <1>6, <1>7, <1>8, <1>9, PumpStep, Zenon DEF f, p

\* The steps of a rotation (_rotate_file).
LEMMA RotationKeeps ==
    ASSUME JobLogsInv, NEW j \in Job, UnlinkRotated(j) \/ RenameCurrent(j)
    PROVE  JobLogsInv'
<1> DEFINE f == files[j]
<1>1. /\ f \in LogFiles /\ f.current \in SegmentFile /\ f.rotated \in SegmentFile
      /\ pump[j].at \in {"unlink", "rename"} /\ begun[j] \in {0, 1, 2}
      /\ job[j] \in {"claimed", "running"} /\ Needed(j) /\ UNCHANGED <<job, written, begun>>
      /\ job' \in [Job -> JobStatus] /\ written' \in [Job -> Nat] /\ begun' \in [Job -> 0 .. 2]
  <2>1. begun[j] \in 0 .. 2
    BY LogFacts, Zenon
  <2>2. begun[j] \in {0, 1, 2}
    BY <2>1
  <2> QED  BY <2>2, LogFacts, Zenon DEF UnlinkRotated, RenameCurrent
<1>2. CASE UnlinkRotated(j)
  <2> DEFINE new == [f EXCEPT !.rotated = Absent]
             p == [at |-> "rename", bytes |-> 0]
  <2>1. Pumped(j, "rename", 0, new) /\ pump[j].at = "unlink"
    BY <1>2, Zenon DEF UnlinkRotated
  <2>2. new \in LogFiles /\ new.current = f.current /\ p.at = "rename" /\ 0 \in Nat
    BY <1>1, Zenon DEF LogFiles, SegmentFile
  <2> HIDE DEF new, f, p
  <2>3. LogIs(f, pump[j], written[j], begun[j]) => LogIs(new, p, written'[j], begun'[j])
    BY <1>1, <2>1, <2>2, Zenon DEF LogIs
  <2> QED  BY <1>1, <2>1, <2>2, <2>3, PumpStep, Zenon DEF f, p
<1>3. CASE RenameCurrent(j)
  <2> DEFINE new == IF Present(f.current) THEN [current |-> Absent, rotated |-> f.current] ELSE f
             p == [at |-> "create", bytes |-> 0]
  <2>1. Pumped(j, "create", 0, new) /\ pump[j].at = "rename" /\ p.at = "create" /\ 0 \in Nat
    BY <1>3, Zenon DEF RenameCurrent
  <2>2. new \in LogFiles
    BY <1>1, Zenon DEF LogFiles, SegmentFile
  <2>3. LogIs(f, pump[j], written[j], begun[j]) => LogIs(new, p, written'[j], begun'[j])
    <3> SUFFICES ASSUME LogIs(f, pump[j], written[j], begun[j])
                 PROVE  LogIs(new, p, written'[j], begun'[j])
      BY Zenon
    <3>1. \/ written[j] = 0 \/ begun[j] = 2
          \/ begun[j] = 1 /\ Carries(f.current, written[j])
      BY <1>1, <2>1, Zenon DEF LogIs
    <3>2. Segment # 0
      BY <2>1, Zenon DEF LogIs
    <3>3. Carries(f.current, written[j]) => new.rotated = f.current
      BY Zenon DEF Carries
    <3> HIDE DEF new, f, p
    <3> QED  BY <1>1, <2>1, <3>1, <3>2, <3>3, Zenon DEF LogIs
  <2> HIDE DEF new, f, p
  <2> QED  BY <1>1, <2>1, <2>2, <2>3, PumpStep, Zenon DEF f, p
<1> QED  BY <1>2, <1>3, Zenon

\* The pump opens the current segment (_open_segment).
LEMMA CreateSegmentKeeps ==
    ASSUME JobLogsInv, NEW j \in Job, CreateSegment(j)
    PROVE  JobLogsInv'
<1> DEFINE f == files[j]
           new == IF Present(f.current) THEN f ELSE [f EXCEPT !.current = <<>>]
           n == Size(f.current)
           p == [at |-> "header", bytes |-> n]
<1>1. /\ f \in LogFiles /\ f.current \in SegmentFile /\ f.rotated \in SegmentFile
      /\ n \in Nat /\ pump[j].at = "create" /\ Pumped(j, "header", n, new) /\ p.at = "header"
      /\ job[j] \in {"claimed", "running"} /\ Needed(j) /\ UNCHANGED <<job, written, begun>>
      /\ job' \in [Job -> JobStatus] /\ written' \in [Job -> Nat] /\ begun' \in [Job -> 0 .. 2]
  BY LogFacts, Zenon DEF CreateSegment
<1>2. <<>> \in Seq(Nat)
  OBVIOUS
<1>3. Present(<<>>)
  BY <1>2, SegmentIsPresent, Zenon
<1>4. new \in LogFiles /\ new.rotated = f.rotated /\ Present(new.current)
      /\ (Present(f.current) => new.current = f.current)
  BY <1>1, <1>2, <1>3, Zenon DEF LogFiles, SegmentFile
<1> HIDE DEF new, f, n, p
<1>5. LogIs(f, pump[j], written[j], begun[j]) => LogIs(new, p, written'[j], begun'[j])
  BY <1>1, <1>4, Zenon DEF LogIs, Carries
<1> QED  BY <1>1, <1>4, <1>5, PumpStep, Zenon DEF f, p

\* The header of the segment.
LEMMA WriteHeaderKeeps ==
    ASSUME JobLogsInv, NEW j \in Job, WriteHeader(j)
    PROVE  JobLogsInv'
<1> DEFINE f == files[j]
           new == Extended(j, Control)
           at == IF job[j] = "running" THEN "write" ELSE "open"
           n == pump[j].bytes + 1
           p == [at |-> at, bytes |-> n]
<1>1. /\ f \in LogFiles /\ pump[j].bytes \in Nat /\ pump[j].at = "header" /\ Pumped(j, at, n, new)
      /\ job[j] \in {"claimed", "running"} /\ Needed(j) /\ UNCHANGED <<job, written, begun>>
      /\ job' \in [Job -> JobStatus] /\ written' \in [Job -> Nat] /\ begun' \in [Job -> 0 .. 2]
      /\ at \in {"open", "write"} /\ p.at = at
  BY LogFacts, Zenon DEF WriteHeader
<1>2. n \in Nat /\ Control \in Nat
  BY <1>1 DEF Control
<1>3. /\ new \in LogFiles /\ new.rotated = f.rotated /\ (Present(f.current) => Present(new.current))
      /\ \A m : Carries(f.current, m) => Carries(new.current, m)
  BY <1>1, <1>2, ExtendedKeeps, Zenon
<1> HIDE DEF new, f, n, p, at
<1>4. LogIs(f, pump[j], written[j], begun[j]) => LogIs(new, p, written'[j], begun'[j])
  BY <1>1, <1>3, Zenon DEF LogIs
<1> QED  BY <1>1, <1>2, <1>3, <1>4, PumpStep, Zenon DEF f, p

\* A chunk of output: appended to the segment, or the reason for a new one.
LEMMA OutputKeeps ==
    ASSUME JobLogsInv, NEW j \in Job, Output(j)
    PROVE  JobLogsInv'
<1> DEFINE f == files[j]
           n == pump[j].bytes + 1
           full == pump[j].at = "open" /\ Segment # 0 /\ n > Segment
<1>1. /\ f \in LogFiles /\ pump[j].at \in {"open", "write"} /\ pump[j].bytes \in Nat
      /\ job[j] \in {"claimed", "running"} /\ Needed(j) /\ UNCHANGED job
      /\ job \in [Job -> JobStatus] /\ written \in [Job -> Nat] /\ begun \in [Job -> 0 .. 2]
      /\ begun[j] \in 0 .. 2 /\ written[j] \in Nat
  BY LogFacts, Zenon DEF Output
<1>2. n \in Nat /\ 0 \in Nat /\ 0 \in 0 .. 2 /\ 1 \in 0 .. 2 /\ 2 \in 0 .. 2 /\ 0 # 1 /\ 1 # 2 /\ 0 # 2
  BY <1>1
<1>3. CASE full
  <2> DEFINE p == [at |-> "unlink", bytes |-> 0]
  <2>1. /\ Pumped(j, "unlink", 0, f) /\ begun' = [begun EXCEPT ![j] = Another(@)]
        /\ UNCHANGED written /\ Segment # 0 /\ p.at = "unlink" /\ pump[j].at = "open"
    BY <1>3, Zenon DEF Output
  <2>2. Another(begun[j]) \in {1, 2} /\ (begun[j] = 0 <=> Another(begun[j]) = 1)
    BY <1>1, AnotherSegment, Zenon
  <2>3. /\ begun' \in [Job -> 0 .. 2] /\ begun'[j] = Another(begun[j])
        /\ \A k \in Job \ {j} : begun'[k] = begun[k]
    BY <1>1, <1>2, <2>1, <2>2, Zenon
  <2> HIDE DEF f, p, full
  <2>4. LogIs(f, pump[j], written[j], begun[j]) => LogIs(f, p, written'[j], begun'[j])
    BY <1>2, <2>1, <2>2, <2>3, Zenon DEF LogIs
  <2> QED  BY <1>1, <1>2, <2>1, <2>3, <2>4, PumpStep, Zenon DEF f, p
<1>4. CASE ~full
  <2> DEFINE m == written[j] + 1
             new == Extended(j, m)
             p == [at |-> "open", bytes |-> n]
  <2>1. /\ Pumped(j, "open", n, new) /\ written' = [written EXCEPT ![j] = @ + 1]
        /\ begun' = [begun EXCEPT ![j] = 0] /\ p.at = "open"
    BY <1>4, Zenon DEF Output
  <2>2. m \in Nat
    BY <1>1
  <2>3. /\ new \in LogFiles
        /\ Present(f.current) => Present(new.current) /\ Carries(new.current, m)
    BY <1>1, <2>2, ExtendedKeeps, Zenon
  <2>4. /\ written' \in [Job -> Nat] /\ written'[j] = m /\ \A k \in Job \ {j} : written'[k] = written[k]
        /\ begun' \in [Job -> 0 .. 2] /\ begun'[j] = 0 /\ \A k \in Job \ {j} : begun'[k] = begun[k]
    BY <1>1, <1>2, <2>1, <2>2, Zenon
  <2> HIDE DEF new, f, p, m, n, full
  <2>5. LogIs(f, pump[j], written[j], begun[j]) => LogIs(new, p, written'[j], begun'[j])
    BY <1>1, <2>1, <2>3, <2>4, Zenon DEF LogIs
  <2> QED  BY <1>1, <1>2, <2>1, <2>3, <2>4, <2>5, PumpStep, Zenon DEF f, p
<1> HIDE DEF full
<1> QED  BY <1>3, <1>4, Zenon

\* The command starts.
LEMMA StartCommandKeeps ==
    ASSUME JobLogsInv, NEW j \in Job, StartCommand(j)
    PROVE  JobLogsInv'
<1>1. /\ UNCHANGED <<ended, files, pump, written, begun, cleaner, unseen>>
      /\ job[j] = "claimed" /\ job' = [job EXCEPT ![j] = "running"]
  BY Zenon DEF StartCommand
<1>2. /\ job' \in [Job -> JobStatus] /\ job'[j] = "running" /\ \A k \in Job \ {j} : job'[k] = job[k]
  BY <1>1, LogFacts, Zenon DEF JobStatus
<1>3. LogTypes' /\ Needed(j)
  BY <1>1, <1>2, Zenon DEF JobLogsInv, LogTypes, Needed
<1> QED  BY <1>1, <1>2, <1>3, OneJob, Zenon DEF JobLogsInv

\* A launch that is given up leaves a control event.
LEMMA AbortLaunchKeeps ==
    ASSUME JobLogsInv, NEW j \in Job, AbortLaunch(j)
    PROVE  JobLogsInv'
<1> DEFINE f == files[j]
           new == Extended(j, Control)
<1>1. /\ UNCHANGED <<ended, written, begun, cleaner, unseen>> /\ pump[j].at = "open"
      /\ pump' = [pump EXCEPT ![j] = NoPump] /\ files' = [files EXCEPT ![j] = new]
      /\ \E st \in {"missed", "failed"} : job' = [job EXCEPT ![j] = st]
  BY Zenon DEF AbortLaunch
<1>2. /\ f \in LogFiles /\ job[j] \in {"claimed", "running"} /\ Needed(j) /\ job \in [Job -> JobStatus]
      /\ Control \in Nat
  BY <1>1, LogFacts, Zenon DEF Control
<1>3. /\ new \in LogFiles /\ new.rotated = f.rotated
      /\ \A m : Carries(f.current, m) => Carries(new.current, m)
  BY <1>2, ExtendedKeeps, Zenon
<1>4. NoPump \in PumpState /\ NoPump.at = "off"
  BY Zenon DEF NoPump, PumpState
<1> HIDE DEF new, f
<1>5. /\ pump' \in [Job -> PumpState] /\ files' \in [Job -> LogFiles] /\ job' \in [Job -> JobStatus]
      /\ pump'[j] = NoPump /\ files'[j] = new /\ job'[j] # "absent"
      /\ \A k \in Job \ {j} : pump'[k] = pump[k] /\ files'[k] = files[k] /\ job'[k] = job[k]
  BY <1>1, <1>2, <1>3, <1>4, Zenon DEF JobLogsInv, LogTypes, JobStatus
<1>6. LogTypes'
  BY <1>1, <1>5, Zenon DEF JobLogsInv, LogTypes
<1>7. LogIs(f, pump[j], written[j], begun[j]) => LogIs(new, NoPump, written[j], begun[j])
  BY <1>1, <1>3, <1>4, Zenon DEF LogIs
<1> QED  BY <1>1, <1>2, <1>5, <1>6, <1>7, OneJob, Zenon DEF JobLogsInv, f

\* A pump that fails or ends leaves the files as they are.
LEMMA PumpEnds ==
    ASSUME JobLogsInv, NEW j \in Job, PumpFails(j) \/ FinishPump(j)
    PROVE  JobLogsInv'
<1>1. /\ pump[j].at # "off" /\ UNCHANGED <<ended, files, cleaner, written, begun, unseen>>
      /\ \/ pump' = [pump EXCEPT ![j] = NoPump]
            /\ \E st \in {"failed", "succeeded"} : job' = [job EXCEPT ![j] = st]
         \/ job[j] # "claimed" /\ pump' = [pump EXCEPT ![j].at = "deaf"] /\ UNCHANGED job
  BY Zenon DEF PumpFails, FinishPump
<1>2. /\ job[j] \in {"claimed", "running"} /\ Needed(j) /\ pump[j] \in PumpState
      /\ job \in [Job -> JobStatus] /\ pump \in [Job -> PumpState]
  BY <1>1, LogFacts, Zenon DEF JobLogsInv, LogTypes
<1>3. NoPump \in PumpState /\ NoPump.at = "off"
  BY Zenon DEF NoPump, PumpState
<1>a. \A p : p.at \in {"off", "deaf"} /\ LogIs(files[j], pump[j], written[j], begun[j])
             => LogIs(files[j], p, written[j], begun[j])
  BY Zenon DEF LogIs
<1>4. CASE pump' = [pump EXCEPT ![j] = NoPump]
           /\ \E st \in {"failed", "succeeded"} : job' = [job EXCEPT ![j] = st]
  <2>1. /\ pump' \in [Job -> PumpState] /\ job' \in [Job -> JobStatus]
        /\ pump'[j] = NoPump /\ job'[j] # "absent"
        /\ \A k \in Job \ {j} : pump'[k] = pump[k] /\ job'[k] = job[k]
    BY <1>2, <1>3, <1>4, Zenon DEF JobStatus
  <2>2. LogTypes'
    BY <1>1, <2>1, Zenon DEF JobLogsInv, LogTypes
  <2> QED  BY <1>1, <1>2, <1>3, <1>a, <2>1, <2>2, OneJob, Zenon DEF JobLogsInv
<1>5. CASE job[j] # "claimed" /\ pump' = [pump EXCEPT ![j].at = "deaf"] /\ UNCHANGED job
  <2> DEFINE p == [pump[j] EXCEPT !.at = "deaf"]
  <2>1. p \in PumpState /\ p.at = "deaf" /\ pump' = [pump EXCEPT ![j] = p]
    BY <1>2, <1>5, Zenon DEF PumpState
  <2> HIDE DEF p
  <2>2. /\ pump' \in [Job -> PumpState] /\ pump'[j] = p /\ UNCHANGED job
        /\ \A k \in Job \ {j} : pump'[k] = pump[k] /\ job'[k] = job[k]
    BY <1>2, <1>5, <2>1, Zenon
  <2>3. LogTypes'
    BY <1>1, <2>2, Zenon DEF JobLogsInv, LogTypes
  <2> QED  BY <1>1, <1>2, <1>a, <2>1, <2>2, <2>3, OneJob, Zenon DEF JobLogsInv
<1> QED  BY <1>1, <1>4, <1>5, Zenon

\* The worker is killed: its jobs are found interrupted, their logs stay.
LEMMA WorkerKilledKeeps ==
    ASSUME JobLogsInv, WorkerKilled
    PROVE  JobLogsInv'
<1>1. /\ UNCHANGED <<ended, files, cleaner, written, begun, unseen>> /\ pump' = [j \in Job |-> NoPump]
      /\ job' = [j \in Job |-> IF job[j] \in {"claimed", "running"} THEN "interrupted" ELSE job[j]]
  BY Zenon DEF WorkerKilled
<1>2. NoPump \in PumpState /\ NoPump.at = "off"
  BY Zenon DEF NoPump, PumpState
<1>3. LogTypes'
  BY <1>1, <1>2, Zenon DEF JobLogsInv, LogTypes, JobStatus
<1>4. \A j \in Job : (Needed(j)' => Needed(j)) /\ pump'[j] = NoPump
                     /\ (job'[j] = "absent" => job[j] = "absent")
  BY <1>1, Zenon DEF Needed
<1>5. \A j \in Job : LogIs(files[j], pump[j], written[j], begun[j]) => LogIs(files[j], NoPump, written[j], begun[j])
  BY <1>2, Zenon DEF LogIs
<1>6. \A j \in Job \ unseen' : Needed(j)' => LogIs(files[j], pump[j], written[j], begun[j])'
  BY <1>1, <1>4, <1>5, Zenon DEF JobLogsInv
<1>7. \A j \in Job : (pump[j] # NoPump)' => job'[j] \in {"claimed", "running"}
  BY <1>4, Zenon DEF NoPump
<1>8. \A j \in Job : job'[j] = "absent" => written'[j] = 0
  BY <1>1, <1>4, Zenon DEF JobLogsInv, Size, Present
<1>9. cleaner'.at # "off" => \A j \in Job \ unseen' : Needed(j)' => j \in cleaner'.needed
  BY <1>1, <1>4, Zenon DEF JobLogsInv
<1> QED
  BY <1>3, <1>6, <1>7, <1>8, <1>9, Zenon DEF JobLogsInv

\* A clean-up that starts reads which jobs need their logs; one that has read the
\* directory goes on, or ends.
LEMMA CleanerMoves ==
    ASSUME JobLogsInv, UNCHANGED <<job, ended, files, pump, written, begun, unseen>>,
           cleaner' \in CleanerState,
           cleaner'.at # "off" => \A j \in Job \ unseen : Needed(j) => j \in cleaner'.needed
    PROVE  JobLogsInv'
<1>1. LogTypes'
  BY Zenon DEF JobLogsInv, LogTypes
<1>2. \A j \in Job : /\ Needed(j)' <=> Needed(j)
                     /\ LogIs(files[j], pump[j], written[j], begun[j])' <=> LogIs(files[j], pump[j], written[j], begun[j])
  BY Zenon DEF Needed, LogIs, Carries, Present
<1> QED  BY <1>1, <1>2, Zenon DEF JobLogsInv, NoPump

\* A log that is removed belongs to no job that needs it.
LEMMA RemoveGroupKeeps ==
    ASSUME JobLogsInv, NEW g \in Removable, RemoveGroup(g), cleaner.at # "off",
           UNCHANGED <<job, ended, pump, written, begun, unseen>>
    PROVE  JobLogsInv'
<1>1. /\ cleaner' = [cleaner EXCEPT !.groups = @ \ {g}] /\ files' = [files EXCEPT ![g.job] = NoLog]
      /\ g \in cleaner.groups /\ g.job \notin cleaner.needed
  BY Zenon DEF RemoveGroup, Removable
<1>2. cleaner \in CleanerState /\ g.job \in Job
  BY <1>1, Zenon DEF JobLogsInv, LogTypes, CleanerState
<1>3. cleaner' \in CleanerState /\ cleaner'.needed = cleaner.needed /\ cleaner'.at = cleaner.at
  BY <1>1, <1>2, Zenon DEF CleanerState
<1>4. NoLog \in LogFiles
  BY Zenon DEF NoLog, LogFiles, SegmentFile, Size, Present
<1>5. LogTypes'
  BY <1>1, <1>3, <1>4, Zenon DEF JobLogsInv, LogTypes
<1>6. \A j \in Job : Needed(j)' <=> Needed(j)
  BY Zenon DEF Needed
<1>7. g.job \in unseen \/ ~Needed(g.job)
  BY <1>1, <1>2, Zenon DEF JobLogsInv
<1>8. \A j \in Job \ unseen : Needed(j) => files'[j] = files[j]
  BY <1>1, <1>7, Zenon DEF JobLogsInv, LogTypes
<1>9. \A j \in Job : files'[j] = files[j] \/ files'[j] = NoLog
  BY <1>1, Zenon DEF JobLogsInv, LogTypes
<1>10. \A j \in Job \ unseen' : Needed(j)' => LogIs(files[j], pump[j], written[j], begun[j])'
  BY <1>6, <1>8, Zenon DEF JobLogsInv
<1>11. \A j \in Job : (pump[j] # NoPump)' => job'[j] \in {"claimed", "running"}
  BY Zenon DEF JobLogsInv, NoPump
<1>12. \A j \in Job : job'[j] = "absent" => written'[j] = 0
  BY <1>4, <1>9, Zenon DEF JobLogsInv, Size, Present
<1>13. cleaner'.at # "off" => \A j \in Job \ unseen' : Needed(j)' => j \in cleaner'.needed
  BY <1>3, <1>6, Zenon DEF JobLogsInv
<1> QED
  BY <1>5, <1>10, <1>11, <1>12, <1>13, Zenon DEF JobLogsInv

\* A clean-up takes a step.
LEMMA CleanUpKeeps ==
    ASSUME JobLogsInv, \A j \in Job, d \in Cleaners : Home[j] = d,
           (\E d \in Cleaners : LoadReferences(d)) \/ ScanLogs \/ Retention \/ EnforceQuota
    PROVE  JobLogsInv'
<1>1. cleaner \in CleanerState /\ files \in [Job -> LogFiles]
  BY Zenon DEF JobLogsInv, LogTypes
<1>2. CASE \E d \in Cleaners : LoadReferences(d)
  <2>1. PICK d \in Cleaners :
            /\ cleaner' = [at |-> "scan", home |-> d, groups |-> {},
                           needed |-> {j \in Job : Home[j] = d /\ Needed(j)}]
            /\ UNCHANGED <<job, ended, files, pump, written, begun, unseen>>
    BY <1>2, Zenon DEF LoadReferences
  <2>2. cleaner' \in CleanerState
    BY <2>1, Zenon DEF CleanerState
  <2>3. \A j \in Job \ unseen : Needed(j) => j \in cleaner'.needed
    BY <2>1, Zenon
  <2> QED  BY <2>1, <2>2, <2>3, CleanerMoves, Zenon
<1>3. CASE ScanLogs
  <2> DEFINE groups == {[job |-> j, old |-> j \in aged,
                         size |-> Size(files[j].current) + Size(files[j].rotated)] :
                        j \in {i \in Job : files[i] # NoLog}}
  <2>1. /\ cleaner.at = "scan" /\ cleaner' = [cleaner EXCEPT !.at = "retention", !.groups = groups]
        /\ UNCHANGED <<job, ended, files, pump, written, begun, unseen>>
    BY <1>3, Zenon DEF ScanLogs
  <2>2. \A s \in SegmentFile : Size(s) \in Nat
    BY DEF SegmentFile, Size
  <2>3. \A j \in Job : Size(files[j].current) + Size(files[j].rotated) \in Nat
    BY <1>1, <2>2 DEF LogFiles
  <2>4. \A j \in Job : (j \in aged) \in BOOLEAN
    OBVIOUS
  <2>5. \A j \in Job, o \in BOOLEAN, n \in Nat :
            [job |-> j, old |-> o, size |-> n] \in [job : Job, old : BOOLEAN, size : Nat]
    BY Zenon
  <2>6. groups \in SUBSET [job : Job, old : BOOLEAN, size : Nat]
    <3> SUFFICES ASSUME NEW j \in Job
                 PROVE  [job |-> j, old |-> j \in aged,
                         size |-> Size(files[j].current) + Size(files[j].rotated)]
                        \in [job : Job, old : BOOLEAN, size : Nat]
      BY Zenon
    <3> QED  BY <2>3, <2>4, <2>5, Zenon
  <2> HIDE DEF groups
  <2>7. cleaner' \in CleanerState /\ cleaner'.needed = cleaner.needed
    BY <1>1, <2>1, <2>6, Zenon DEF CleanerState
  <2> QED  BY <2>1, <2>7, CleanerMoves, Zenon DEF JobLogsInv
<1>4. CASE Retention
  <2>1. CASE \E g \in Removable : g.old /\ RemoveGroup(g)
    BY <1>4, <2>1, RemoveGroupKeeps, Zenon DEF Retention
  <2>2. CASE cleaner' = [cleaner EXCEPT !.at = "quota"] /\ UNCHANGED <<files, aged>>
    <3>1. /\ cleaner' \in CleanerState /\ cleaner'.needed = cleaner.needed /\ cleaner.at = "retention"
          /\ UNCHANGED <<job, ended, files, pump, written, begun, unseen>>
      BY <1>1, <1>4, <2>2, Zenon DEF CleanerState, Retention
    <3> QED  BY <3>1, CleanerMoves, Zenon DEF JobLogsInv
  <2> QED  BY <1>4, <2>1, <2>2, Zenon DEF Retention
<1>5. CASE EnforceQuota
  <2>1. CASE \E g \in Removable : RemoveGroup(g)
    BY <1>5, <2>1, RemoveGroupKeeps, Zenon DEF EnforceQuota
  <2>2. CASE cleaner' = NoCleaner /\ UNCHANGED <<files, aged>>
    <3>1. /\ cleaner' \in CleanerState /\ cleaner'.at = "off"
          /\ UNCHANGED <<job, ended, files, pump, written, begun, unseen>>
      BY <1>5, <2>2, Zenon DEF CleanerState, EnforceQuota, NoCleaner
    <3> QED  BY <3>1, CleanerMoves, Zenon
  <2> QED  BY <1>5, <2>1, <2>2, Zenon DEF EnforceQuota
<1> QED  BY <1>2, <1>3, <1>4, <1>5, Zenon

\* Every step of pumps, jobs and clean-ups preserves the invariant.
LEMMA JobLogsStep ==
    ASSUME JobLogsInv, \A j \in Job, d \in Cleaners : Home[j] = d, [JobLogsNext]_logs
    PROVE  JobLogsInv'
<1>1. CASE Age \/ UNCHANGED logs
  <2>1. UNCHANGED <<job, ended, files, pump, written, begun, unseen, cleaner>>
    BY <1>1, Zenon DEF Age, logs
  <2> QED  BY <2>1, CleanerMoves, Zenon DEF JobLogsInv, LogTypes
<1>2. CASE \E j \in Job : Book(j) \/ Retry(j) \/ End(j)
  BY <1>2, JobSteps, Zenon
<1>3. CASE \E j \in Job : OpenPump(j) \/ UnlinkRotated(j) \/ RenameCurrent(j)
  BY <1>3, OpenPumpKeeps, RotationKeeps, Zenon
<1>4. CASE \E j \in Job : CreateSegment(j) \/ WriteHeader(j) \/ Output(j)
  BY <1>4, CreateSegmentKeeps, WriteHeaderKeeps, OutputKeeps, Zenon
<1>5. CASE \E j \in Job : StartCommand(j) \/ AbortLaunch(j) \/ PumpFails(j) \/ FinishPump(j)
  BY <1>5, StartCommandKeeps, AbortLaunchKeeps, PumpEnds, Zenon
<1>6. CASE (\E d \in Cleaners : LoadReferences(d)) \/ ScanLogs \/ Retention \/ EnforceQuota
  BY <1>6, CleanUpKeeps, Zenon
<1> QED
  BY <1>1, <1>2, <1>3, <1>4, <1>5, <1>6, WorkerKilledKeeps, Zenon DEF JobLogsNext

\* While at most one segment has been begun since a job that runs or may be retried wrote
\* its newest output, that output is in its log: for any number of jobs, segment size,
\* quota, number of retries, clean-ups, kills and failed writes, when the account has one
\* data directory (all of an account's directories share one log directory, and a clean-up
\* knows the jobs of its own only).
THEOREM LogsAreKept ==
    ASSUME \A j \in Job, d \in Cleaners : Home[j] = d
    PROVE  JobLogsInit /\ [][JobLogsNext]_logs => []NewestOutputKept
<1>1. JobLogsInit => JobLogsInv
  <2> SUFFICES ASSUME JobLogsInit PROVE JobLogsInv
    BY Zenon
  <2>1. NoLog \in LogFiles
    BY Zenon DEF NoLog, LogFiles, SegmentFile
  <2>2. NoPump \in PumpState /\ NoCleaner \in CleanerState /\ NoCleaner.at = "off"
    BY Zenon DEF NoPump, NoCleaner, PumpState, CleanerState
  <2>3. /\ job = [j \in Job |-> "absent"] /\ files = [j \in Job |-> NoLog]
        /\ pump = [j \in Job |-> NoPump] /\ written = [j \in Job |-> 0] /\ cleaner = NoCleaner
        /\ begun = [j \in Job |-> 0]
    BY Zenon DEF JobLogsInit
  <2>4. 0 \in 0 .. 2
    OBVIOUS
  <2>5. LogTypes
    BY <2>1, <2>2, <2>3, <2>4, Zenon DEF LogTypes, JobStatus
  <2>6. \A j \in Job : ~Needed(j) /\ pump[j] = NoPump /\ written[j] = 0
    BY <2>3, Zenon DEF Needed
  <2> QED  BY <2>2, <2>3, <2>5, <2>6, Zenon DEF JobLogsInv
<1>2. JobLogsInv /\ [JobLogsNext]_logs => JobLogsInv'
  BY JobLogsStep, Zenon
<1>3. JobLogsInv => NewestOutputKept
  <2> SUFFICES ASSUME JobLogsInv, NEW j \in Job \ unseen,
                      Needed(j), written[j] # 0, Segment = 0 \/ begun[j] <= 1
               PROVE  Carries(files[j].rotated, written[j]) \/ Carries(files[j].current, written[j])
    BY Zenon DEF NewestOutputKept
  <2>1. ~(Segment # 0 /\ begun[j] = 2)
    OBVIOUS
  <2>2. LogIs(files[j], pump[j], written[j], begun[j])
    BY Zenon DEF JobLogsInv
  <2> QED  BY <2>1, <2>2, Zenon DEF LogIs
<1> QED
  BY <1>1, <1>2, <1>3, PTL

-----------------------------------------------------------------------------
(* The worker's lease: for any number of workers, data directories and     *)
(* concurrent status commands.                                             *)

Serving == {"truncate", "write", "up"}
Leased == Serving \cup {"instance", "leaving"}

\* The state of a status command.
ProbeState ==
    [at : {"off", "main", "instance", "close", "done"}, raw : {"none", ""} \cup DataDir,
     answer : {"", "not-seen", "stopped", "running", "other-instance", "unverified"},
     steady : BOOLEAN, seen : BOOLEAN]

LeaseTypes ==
    /\ flock \in [{Main} \cup DataDir -> [ex : SUBSET Workers, sh : SUBSET Probes]]
    /\ meta \in {"none", ""} \cup DataDir
    /\ worker \in [Workers -> [at : {"off", "main"} \cup Leased, tries : Int]]
    /\ probe \in [Probes -> ProbeState]

\* The locks are held by the workers whose position says so, and by no other process.
LocksHeld ==
    /\ \A w \in Workers : worker[w].at \in Leased => flock[Main].ex = {w}
    /\ \A w \in Workers : worker[w].at \in Serving => flock[Serves[w]].ex = {w}
    /\ \A d \in DataDir : \A w \in flock[d].ex : Serves[w] = d /\ worker[w].at \in Serving

\* Before the first worker there is no lease file.
NoFileNoWorker == meta = "none" => \A w \in Workers : worker[w].at = "off"

\* What a status command may have concluded at its step.
ProbeHonest(q) ==
    /\ probe[q].at # "off" => /\ probe[q].steady => Up(worker, AsksFor[q])
                              /\ Up(worker, AsksFor[q]) => probe[q].seen
    /\ probe[q].at = "close" => ~probe[q].steady /\ probe[q].answer # "running"
    /\ probe[q].at = "done" => /\ probe[q].answer = "running" => probe[q].seen
                               /\ probe[q].steady => probe[q].answer = "running"

LeaseInv == LeaseTypes /\ LocksHeld /\ NoFileNoWorker /\ \A q \in Probes : ProbeHonest(q)

-----------------------------------------------------------------------------
\* When a worker moves, each probe under way only adds what it noted.
LEMMA MovesNote ==
    ASSUME LeaseTypes, NEW w \in Workers, NEW new, Moves(w, new), NEW q \in Probes
    PROVE  /\ probe'[q] \in ProbeState
           /\ probe'[q].at = probe[q].at /\ probe'[q].answer = probe[q].answer
           /\ probe[q].at # "off" =>
                 /\ probe'[q].steady <=> probe[q].steady /\ Up(worker', AsksFor[q])
                 /\ probe'[q].seen <=> probe[q].seen \/ Up(worker', AsksFor[q])
<1> DEFINE steady == probe[q].steady /\ Up(worker', AsksFor[q])
           seen == probe[q].seen \/ Up(worker', AsksFor[q])
<1>1. steady \in BOOLEAN /\ seen \in BOOLEAN
  BY Zenon
<1>2. probe'[q] = IF probe[q].at = "off" THEN probe[q]
                  ELSE [probe[q] EXCEPT !.steady = steady, !.seen = seen]
  BY Zenon DEF Moves
<1>3. probe[q] \in ProbeState
  BY Zenon DEF LeaseTypes, ProbeState
<1> HIDE DEF steady, seen
<1>4. /\ probe'[q] \in ProbeState
      /\ probe'[q].at = probe[q].at /\ probe'[q].answer = probe[q].answer
      /\ probe[q].at # "off" => probe'[q].steady = steady /\ probe'[q].seen = seen
  BY <1>1, <1>2, <1>3, Zenon DEF ProbeState
<1>5. QED
  BY <1>4, Zenon DEF steady, seen

\* When a worker moves, what the probes under way note stays honest.
LEMMA MovesKeepProbes ==
    ASSUME LeaseTypes, \A q \in Probes : ProbeHonest(q), NEW w \in Workers, NEW new, Moves(w, new)
    PROVE  \A q \in Probes : ProbeHonest(q)'
<1> SUFFICES ASSUME NEW q \in Probes PROVE ProbeHonest(q)'
  BY Zenon
<1>1. Up(worker', AsksFor[q]) <=> Up(worker, AsksFor[q])'
  BY Zenon DEF Up
<1>2. ProbeHonest(q)
  BY Zenon
<1>3. QED
  BY <1>1, <1>2, MovesNote, Zenon DEF ProbeHonest

\* ... and well typed.
LEMMA MovesKeepTypes ==
    ASSUME LeaseTypes, NEW w \in Workers,
           NEW new \in [at : {"off", "main"} \cup Leased, tries : Int], Moves(w, new)
    PROVE  /\ worker' \in [Workers -> [at : {"off", "main"} \cup Leased, tries : Int]]
           /\ worker'[w] = new
           /\ \A v \in Workers \ {w} : worker'[v] = worker[v]
           /\ probe' \in [Probes -> ProbeState]
<1>1. \A q \in Probes : probe'[q] \in ProbeState
  BY MovesNote, Zenon
<1>2. probe' = [q \in Probes |-> probe'[q]]
  BY Zenon DEF Moves
<1>3. probe' \in [Probes -> ProbeState]
  BY <1>1, <1>2, Zenon
<1>4. QED
  BY <1>3, Zenon DEF LeaseTypes, Moves

\* A status command that has not begun.
LEMMA NoProbeState == NoProbe \in ProbeState /\ NoProbe.at = "off"
<1>1. NoProbe \in ProbeState
  BY Zenon DEF NoProbe, ProbeState
<1>2. NoProbe.at = "off"
  BY Zenon DEF NoProbe
<1>3. QED
  BY <1>1, <1>2, Zenon

\* Lock files and data directories are told apart.
LEMMA Directories ==
    /\ \A w \in Workers : Serves[w] \in DataDir
    /\ \A q \in Probes : AsksFor[q] \in DataDir
    /\ Main \notin DataDir /\ "none" \notin DataDir
BY LeaseAssumption, Zenon DEF DataDir

\* What the files are after worker w moved to position `at`: it holds the locks that its
\* position says, and the locks of the other workers are as they were.
FilesFollow(w, at) ==
    /\ meta' \in {"none", ""} \cup DataDir /\ (meta' = "none" => meta = "none" /\ at = "off")
    /\ flock' \in [{Main} \cup DataDir -> [ex : SUBSET Workers, sh : SUBSET Probes]]
    /\ at \in Leased => flock'[Main].ex = {w}
    /\ at \in Serving => flock'[Serves[w]].ex = {w}
    /\ \A f \in {Main} \cup DataDir, v \in Workers \ {w} : flock[f].ex = {v} => flock'[f].ex = {v}
    /\ \A d \in DataDir : /\ flock'[d].ex \subseteq flock[d].ex \cup {w}
                          /\ w \in flock'[d].ex => Serves[w] = d /\ at \in Serving

\* The invariant survives a move with which the files agree.
LEMMA WorkerStep ==
    ASSUME LeaseInv, NEW w \in Workers, NEW new \in [at : {"off", "main"} \cup Leased, tries : Int],
           Moves(w, new), FilesFollow(w, new.at)
    PROVE  LeaseInv'
<1>1. LeaseTypes'
  BY MovesKeepTypes, Zenon DEF LeaseInv, LeaseTypes, FilesFollow
<1>2. /\ worker'[w] = new
      /\ \A v \in Workers \ {w} : worker'[v] = worker[v]
  BY MovesKeepTypes, Zenon DEF LeaseInv
<1>3. LocksHeld'
  <2>1. ASSUME NEW v \in Workers, worker'[v].at \in Leased PROVE flock'[Main].ex = {v}
    <3>1. CASE v = w
      BY <1>2, <2>1, <3>1, Zenon DEF FilesFollow
    <3>2. CASE v # w
      BY <1>2, <2>1, <3>2, Zenon DEF LeaseInv, LocksHeld, FilesFollow
    <3>3. QED
      BY <3>1, <3>2, Zenon
  <2>2. \A v \in Workers : worker'[v].at \in Serving => flock'[Serves[v]].ex = {v}
    BY <1>2, Directories, Zenon DEF LeaseInv, LocksHeld, FilesFollow
  <2>3. ASSUME NEW d \in DataDir, NEW v \in flock'[d].ex
        PROVE  Serves[v] = d /\ worker'[v].at \in Serving
    <3>1. v \in Workers
      BY <1>1, Zenon DEF LeaseTypes
    <3>2. /\ flock'[d].ex \subseteq flock[d].ex \cup {w}
          /\ w \in flock'[d].ex => Serves[w] = d /\ new.at \in Serving
      BY Zenon DEF FilesFollow
    <3>3. CASE v = w
      BY <1>2, <3>2, <3>3, Zenon
    <3>4. CASE v # w
      <4>1. v \in flock[d].ex
        BY <3>2, <3>4, Zenon
      <4>2. QED
        BY <1>2, <3>1, <3>4, <4>1, Zenon DEF LeaseInv, LocksHeld
    <3>5. QED
      BY <3>3, <3>4, Zenon
  <2>4. QED
    BY <2>1, <2>2, <2>3, Zenon DEF LocksHeld
<1>4. NoFileNoWorker'
  BY <1>2, Zenon DEF LeaseInv, NoFileNoWorker, FilesFollow
<1>5. \A q \in Probes : ProbeHonest(q)'
  BY MovesKeepProbes, Zenon DEF LeaseInv
<1>6. QED
  BY <1>1, <1>3, <1>4, <1>5, Zenon DEF LeaseInv

\* A worker that gives up all its locks and leaves.
LEMMA Leaves ==
    ASSUME LeaseInv, NEW w \in Workers, Moves(w, NotStarted), meta' = meta,
           flock' = [f \in DOMAIN flock |-> [flock[f] EXCEPT !.ex = @ \ {w}]]
    PROVE  LeaseInv'
<1>1. FilesFollow(w, "off")
  BY Directories, Zenon DEF LeaseInv, LeaseTypes, FilesFollow, Leased, Serving
<1>2. NotStarted \in [at : {"off", "main"} \cup Leased, tries : Int] /\ NotStarted.at = "off"
  BY DEF NotStarted
<1>3. QED
  BY <1>1, <1>2, WorkerStep, Zenon

\* One attempt on a lock file keeps the invariant.
LEMMA AttemptKeepsInv ==
    ASSUME LeaseInv, NEW w \in Workers, NEW f, NEW then, Attempt(w, f, then), meta' = meta,
           \/ f = Main /\ then = "instance" /\ worker[w].at = "main"
           \/ f = Serves[w] /\ then = "truncate" /\ worker[w].at = "instance"
    PROVE  LeaseInv'
<1> DEFINE State == [at : {"off", "main"} \cup Leased, tries : Int]
<1>1. worker[w] \in State /\ meta \in {"none", ""} \cup DataDir
      /\ flock \in [{Main} \cup DataDir -> [ex : SUBSET Workers, sh : SUBSET Probes]]
      /\ f \in {Main} \cup DataDir
  BY Directories, Zenon DEF LeaseInv, LeaseTypes
<1>2. meta # "none"
  BY Zenon DEF LeaseInv, NoFileNoWorker
<1>3. CASE FreeForOne(f)
  <2> DEFINE new == [at |-> then, tries |-> 0]
  <2>1. flock' = [flock EXCEPT ![f].ex = {w}] /\ Moves(w, new)
    BY <1>3, Zenon DEF Attempt
  <2>2. new \in State /\ new.at = then
    BY DEF Leased, Serving
  <2>3. /\ flock' \in [{Main} \cup DataDir -> [ex : SUBSET Workers, sh : SUBSET Probes]]
        /\ flock'[f].ex = {w} /\ flock[f].ex = {}
        /\ \A g \in ({Main} \cup DataDir) \ {f} : flock'[g] = flock[g]
    BY <1>1, <1>3, <2>1, Zenon DEF FreeForOne
  <2>4. then \in Leased => flock'[Main].ex = {w}
    BY <2>3, Directories, Zenon DEF LeaseInv, LocksHeld, Leased
  <2>5. \A d \in DataDir : w \in flock[d].ex => worker[w].at \in Serving
    BY Zenon DEF LeaseInv, LocksHeld
  <2>6. FilesFollow(w, then)
    BY <1>1, <1>2, <2>3, <2>4, <2>5, Directories, Zenon DEF FilesFollow, Leased, Serving
  <2> HIDE DEF new
  <2>7. QED
    BY <2>1, <2>2, <2>6, WorkerStep, Zenon
<1>4. CASE ~FreeForOne(f) /\ worker[w].tries + 1 < Attempts
  <2> DEFINE new == [worker[w] EXCEPT !.tries = @ + 1]
  <2>1. flock' = flock /\ Moves(w, new)
    BY <1>4, Zenon DEF Attempt
  <2>2. new \in State /\ new.at = worker[w].at
    <3>1. worker[w].tries \in Int
      BY <1>1, Zenon
    <3>2. \A n : [worker[w] EXCEPT !.tries = n].at = worker[w].at
      BY <1>1, Zenon
    <3>3. \A n \in Int : [worker[w] EXCEPT !.tries = n] \in State
      BY <1>1, Zenon
    <3>4. worker[w].tries + 1 \in Int
      BY <3>1
    <3>5. QED
      BY <3>2, <3>3, <3>4, Zenon
  <2>3. FilesFollow(w, worker[w].at)
    BY <1>1, <1>2, <2>1, Zenon DEF FilesFollow, LeaseInv, LocksHeld
  <2> HIDE DEF new
  <2>4. QED
    BY <2>1, <2>2, <2>3, WorkerStep, Zenon
<1>5. CASE ~FreeForOne(f) /\ ~(worker[w].tries + 1 < Attempts)
  BY <1>5, Leaves, Zenon DEF Attempt
<1>6. QED
  BY <1>3, <1>4, <1>5, Zenon

\* The steps of a worker.
LEMMA WorkersKeepInv ==
    ASSUME LeaseInv, NEW w \in Workers,
           \/ OpenLease(w) \/ TakeMain(w) \/ TakeInstance(w) \/ RecordLease(w)
           \/ ReleaseInstance(w) \/ ReleaseMain(w) \/ Vanish(w)
    PROVE  LeaseInv'
<1> DEFINE State == [at : {"off", "main"} \cup Leased, tries : Int]
<1>0. worker[w] \in State /\ meta \in {"none", ""} \cup DataDir
      /\ flock \in [{Main} \cup DataDir -> [ex : SUBSET Workers, sh : SUBSET Probes]]
      /\ LocksHeld
  BY Zenon DEF LeaseInv, LeaseTypes
<1>1. CASE OpenLease(w)
  <2> DEFINE new == [NotStarted EXCEPT !.at = "main"]
  <2>1. new \in State /\ new.at = "main"
    BY DEF NotStarted
  <2>2. FilesFollow(w, "main")
    BY <1>0, <1>1, Directories, Zenon DEF OpenLease, FilesFollow, LocksHeld, Leased, Serving
  <2>3. Moves(w, new)
    BY <1>1, Zenon DEF OpenLease
  <2> HIDE DEF new
  <2>4. QED
    BY <2>1, <2>2, <2>3, WorkerStep, Zenon
<1>2. CASE TakeMain(w)
  BY <1>2, AttemptKeepsInv, Zenon DEF TakeMain
<1>3. CASE TakeInstance(w)
  BY <1>3, AttemptKeepsInv, Zenon DEF TakeInstance
<1>4. CASE RecordLease(w)
  <2> DEFINE new == [worker[w] EXCEPT !.at = IF @ = "truncate" THEN "write" ELSE "up"]
  <2>1. new \in State /\ new.at \in {"write", "up"}
    BY <1>0, Zenon DEF Leased, Serving
  <2>2. Moves(w, new) /\ flock' = flock /\ meta' \in {""} \cup DataDir
        /\ worker[w].at \in Serving \cap Leased
    BY <1>4, Directories, Zenon DEF RecordLease, Serving, Leased
  <2>3. \A at \in {"write", "up"} : FilesFollow(w, at)
    BY <1>0, <2>2, Directories, Zenon DEF FilesFollow, LocksHeld, Leased, Serving
  <2> HIDE DEF new
  <2>4. QED
    BY <2>1, <2>2, <2>3, WorkerStep, Zenon
<1>5. CASE ReleaseInstance(w)
  <2> DEFINE new == [worker[w] EXCEPT !.at = "leaving"]
  <2>1. new \in State /\ new.at = "leaving"
    BY <1>0, Zenon DEF Leased, Serving
  <2>2. Moves(w, new) /\ flock' = [flock EXCEPT ![Serves[w]].ex = {}] /\ meta' = meta
        /\ worker[w].at = "up"
    BY <1>5, Zenon DEF ReleaseInstance
  <2>3. /\ flock' \in [{Main} \cup DataDir -> [ex : SUBSET Workers, sh : SUBSET Probes]]
        /\ flock'[Serves[w]].ex = {}
        /\ \A g \in ({Main} \cup DataDir) \ {Serves[w]} : flock'[g] = flock[g]
    BY <1>0, <2>2, Directories, Zenon
  <2>4. flock[Serves[w]].ex = {w} /\ flock[Main].ex = {w} /\ meta # "none"
    BY <2>2, Zenon DEF LeaseInv, LocksHeld, NoFileNoWorker, Leased, Serving
  <2>5. FilesFollow(w, "leaving")
    <3>1. \A f \in {Main} \cup DataDir, v \in Workers \ {w} : flock[f].ex = {v} => flock'[f].ex = {v}
      BY <2>3, <2>4, Zenon
    <3>2. \A e \in DataDir : flock'[e].ex \subseteq flock[e].ex /\ w \notin flock'[e].ex
      BY <1>0, <2>3, Zenon DEF LocksHeld
    <3>3. flock'[Main].ex = {w}
      BY <2>3, <2>4, Directories, Zenon
    <3>4. QED
      BY <1>0, <2>2, <2>3, <2>4, <3>1, <3>2, <3>3, Zenon DEF FilesFollow, Serving
  <2> HIDE DEF new
  <2>6. QED
    BY <2>1, <2>2, <2>5, WorkerStep, Zenon
<1>6. CASE ReleaseMain(w)
  <2>1. Moves(w, NotStarted) /\ flock' = [flock EXCEPT ![Main].ex = {}] /\ meta' = meta
        /\ worker[w].at = "leaving"
    BY <1>6, Zenon DEF ReleaseMain
  <2>2. /\ flock' \in [{Main} \cup DataDir -> [ex : SUBSET Workers, sh : SUBSET Probes]]
        /\ flock'[Main].ex = {}
        /\ \A g \in DataDir : flock'[g] = flock[g]
    BY <1>0, <2>1, Directories, Zenon
  <2>3. flock[Main].ex = {w} /\ meta # "none"
    BY <2>1, Zenon DEF LeaseInv, LocksHeld, NoFileNoWorker, Leased
  <2>4. NotStarted \in State /\ NotStarted.at = "off"
    BY DEF NotStarted
  <2>5. FilesFollow(w, "off")
    <3>1. \A f \in {Main} \cup DataDir, v \in Workers \ {w} : flock[f].ex = {v} => flock'[f].ex = {v}
      BY <2>2, <2>3, Zenon
    <3>2. \A e \in DataDir : flock'[e].ex \subseteq flock[e].ex /\ w \notin flock'[e].ex
      BY <1>0, <2>1, <2>2, Zenon DEF LocksHeld, Serving
    <3>3. QED
      BY <1>0, <2>1, <2>2, <3>1, <3>2, Zenon DEF FilesFollow, Leased, Serving
  <2>6. QED
    BY <2>1, <2>4, <2>5, WorkerStep, Zenon
<1>7. CASE Vanish(w)
  BY <1>7, Leaves, Zenon DEF Vanish
<1>8. QED
  BY <1>1, <1>2, <1>3, <1>4, <1>5, <1>6, <1>7, Zenon

\* The steps of a status command.
LEMMA ProbesKeepInv ==
    ASSUME LeaseInv, NEW q \in Probes,
           \/ ReadLease(q) \/ ProbeMain(q) \/ ProbeInstance(q) \/ CloseProbe(q) \/ ShowStatus(q)
    PROVE  LeaseInv'
<1> DEFINE d == AsksFor[q]
           Files == [{Main} \cup DataDir -> [ex : SUBSET Workers, sh : SUBSET Probes]]
           up == Up(worker, d)
<1>0. /\ d \in DataDir /\ Main \notin DataDir /\ flock \in Files
      /\ meta \in {"none", ""} \cup DataDir /\ probe \in [Probes -> ProbeState]
      /\ probe[q] \in ProbeState
  BY Directories, Zenon DEF LeaseInv, LeaseTypes
<1>1. worker' = worker /\ meta' = meta /\ \E new : probe' = [probe EXCEPT ![q] = new]
  BY Zenon DEF ReadLease, ProbeMain, ProbeInstance, CloseProbe, ShowStatus, Probing
<1>2. \A p \in Probes \ {q} : probe'[p] = probe[p]
  BY <1>0, <1>1, Zenon
<1>3. \A x : Up(worker, x)' <=> Up(worker, x)
  BY <1>1, Zenon DEF Up
<1>4. ASSUME NEW p \in Probes \ {q} PROVE ProbeHonest(p)'
  BY <1>2, <1>3, Zenon DEF LeaseInv, ProbeHonest
<1>5. up <=> flock[d].ex # {}
  <2>1. ASSUME up PROVE flock[d].ex # {}
    BY <2>1, Zenon DEF LeaseInv, LocksHeld, Up, Serving
  <2>2. ASSUME flock[d].ex # {} PROVE up
    <3>1. PICK w \in flock[d].ex : TRUE
      BY <2>2, Zenon
    <3>2. w \in Workers
      BY <1>0, Zenon
    <3>3. Serves[w] = d /\ worker[w].at \in Serving
      BY <1>0, Zenon DEF LeaseInv, LocksHeld
    <3>4. QED
      BY <3>2, <3>3, Zenon DEF Up, Serving
  <2>3. QED
    BY <2>1, <2>2, Zenon
<1>6. up => flock[Main].ex # {} /\ meta # "none"
  BY Zenon DEF LeaseInv, LocksHeld, NoFileNoWorker, Up, Serving, Leased
<1>7. SUFFICES /\ flock' \in Files /\ \A f \in {Main} \cup DataDir : flock'[f].ex = flock[f].ex
               /\ probe'[q] \in ProbeState /\ ProbeHonest(q)'
  <2>1. LeaseTypes'
    BY <1>0, <1>1, <1>2, <1>7, Zenon DEF LeaseInv, LeaseTypes
  <2>2. LocksHeld' /\ NoFileNoWorker'
    BY <1>1, <1>7, Directories, Zenon DEF LeaseInv, LocksHeld, NoFileNoWorker
  <2>3. QED
    BY <1>4, <1>7, <2>1, <2>2, Zenon DEF LeaseInv
<1>8. CASE ReadLease(q)
  <2>1. up \in BOOLEAN
    BY Zenon DEF Up
  <2>2. PICK at \in {"main", "done"} :
          /\ at = "done" => meta = "none"
          /\ probe' = [probe EXCEPT ![q] = [at |-> at, raw |-> meta, answer |-> "not-seen",
                                           steady |-> up, seen |-> up]]
    BY <1>8, Zenon DEF ReadLease, Probing
  <2> HIDE DEF up
  <2>3. /\ probe'[q] \in ProbeState /\ probe'[q].at = at /\ probe'[q].answer = "not-seen"
        /\ probe'[q].steady = up /\ probe'[q].seen = up
    BY <1>0, <2>1, <2>2, Zenon DEF ProbeState
  <2>4. ProbeHonest(q)'
    BY <1>3, <1>6, <2>2, <2>3, Zenon DEF ProbeHonest, up
  <2>5. QED
    BY <1>0, <1>8, <2>3, <2>4, Zenon DEF ReadLease
<1>9. CASE ProbeMain(q)
  <2>1. CASE FreeToShare(Main)
    <3>1. /\ flock' = [flock EXCEPT ![Main].sh = @ \cup {q}]
          /\ probe' = [probe EXCEPT ![q] = [probe[q] EXCEPT !.at = "close", !.answer = "stopped"]]
      BY <1>9, <2>1, Zenon DEF ProbeMain, Probing
    <3>2. ~up
      BY <1>6, <2>1, Zenon DEF FreeToShare
    <3>3. /\ probe'[q] \in ProbeState /\ probe'[q].at = "close" /\ probe'[q].answer = "stopped"
          /\ probe'[q].steady = probe[q].steady /\ probe'[q].seen = probe[q].seen
      BY <1>0, <3>1, Zenon DEF ProbeState
    <3>4. ProbeHonest(q)'
      BY <1>3, <1>9, <3>2, <3>3, Zenon DEF ProbeHonest, LeaseInv, ProbeMain
    <3>5. flock' \in Files /\ \A f \in {Main} \cup DataDir : flock'[f].ex = flock[f].ex
      BY <1>0, <3>1, Zenon
    <3>6. QED
      BY <3>3, <3>4, <3>5, Zenon
  <2>2. CASE ~FreeToShare(Main)
    <3>1. flock' = flock /\ probe' = [probe EXCEPT ![q] = [probe[q] EXCEPT !.at = "instance"]]
      BY <1>9, <2>2, Zenon DEF ProbeMain, Probing
    <3>2. /\ probe'[q] \in ProbeState /\ probe'[q].at = "instance"
          /\ probe'[q].steady = probe[q].steady /\ probe'[q].seen = probe[q].seen
      BY <1>0, <3>1, Zenon DEF ProbeState
    <3>3. ProbeHonest(q)'
      BY <1>3, <1>9, <3>2, Zenon DEF ProbeHonest, LeaseInv, ProbeMain
    <3>4. QED
      BY <1>0, <3>1, <3>2, <3>3, Zenon
  <2>3. QED
    BY <2>1, <2>2, Zenon
<1>10. CASE ProbeInstance(q)
  <2> DEFINE free == FreeToShare(d)
  <2>1. free <=> ~up
    BY <1>5, Zenon DEF FreeToShare
  <2>2. PICK answer \in {"running", "other-instance", "unverified"} :
          /\ answer = "running" <=> ~free
          /\ probe' = [probe EXCEPT ![q] =
                          [probe[q] EXCEPT !.at = IF free THEN "close" ELSE "done", !.answer = answer]]
    BY <1>10, Zenon DEF ProbeInstance, Probing, Verdict
  <2>3. flock' = IF free THEN [flock EXCEPT ![d].sh = @ \cup {q}] ELSE flock
    BY <1>10, Zenon DEF ProbeInstance
  <2> HIDE DEF free
  <2>4. /\ probe'[q] \in ProbeState /\ probe'[q].at = (IF free THEN "close" ELSE "done")
        /\ probe'[q].answer = answer
        /\ probe'[q].steady = probe[q].steady /\ probe'[q].seen = probe[q].seen
    BY <1>0, <2>2, Zenon DEF ProbeState
  <2>5. ProbeHonest(q)'
    BY <1>3, <1>10, <2>1, <2>2, <2>4 DEF ProbeHonest, LeaseInv, ProbeInstance
  <2>6. flock' \in Files /\ \A f \in {Main} \cup DataDir : flock'[f].ex = flock[f].ex
    BY <1>0, <2>3, Zenon
  <2>7. QED
    BY <2>4, <2>5, <2>6, Zenon
<1>11. CASE CloseProbe(q)
  <2>1. /\ flock' = [f \in DOMAIN flock |-> [flock[f] EXCEPT !.sh = @ \ {q}]]
        /\ probe' = [probe EXCEPT ![q] = [probe[q] EXCEPT !.at = "done"]]
    BY <1>11, Zenon DEF CloseProbe, Probing
  <2>2. /\ probe'[q] \in ProbeState /\ probe'[q].at = "done" /\ probe'[q].answer = probe[q].answer
        /\ probe'[q].steady = probe[q].steady /\ probe'[q].seen = probe[q].seen
    BY <1>0, <2>1, Zenon DEF ProbeState
  <2>3. ProbeHonest(q)'
    BY <1>3, <1>11, <2>2, Zenon DEF ProbeHonest, LeaseInv, CloseProbe
  <2>4. flock' \in Files /\ \A f \in {Main} \cup DataDir : flock'[f].ex = flock[f].ex
    BY <1>0, <2>1, Zenon
  <2>5. QED
    BY <2>2, <2>3, <2>4, Zenon
<1>12. CASE ShowStatus(q)
  <2>1. probe'[q] = NoProbe /\ flock' = flock
    BY <1>0, <1>12, Zenon DEF ShowStatus, Probing
  <2>2. probe'[q] \in ProbeState
    BY <2>1, NoProbeState, Zenon
  <2>3. probe'[q].at = "off"
    BY <2>1, NoProbeState, Zenon
  <2>4. ProbeHonest(q)'
    BY <2>3, Zenon DEF ProbeHonest
  <2>5. QED
    BY <1>0, <2>1, <2>2, <2>4, Zenon
<1>13. QED
  BY <1>8, <1>9, <1>10, <1>11, <1>12, Zenon

\* The locks agree with the positions of the workers and the probes with the locks, at all
\* times.
THEOREM AlwaysLeased == LeaseSpec => []LeaseInv
<1>1. LeaseInit => LeaseInv
  <2> SUFFICES ASSUME LeaseInit PROVE LeaseInv
    BY Zenon
  <2>1. LeaseTypes
    BY NoProbeState DEF LeaseInit, LeaseTypes, NotStarted
  <2>2. LocksHeld /\ NoFileNoWorker /\ \A q \in Probes : ProbeHonest(q)
    BY Zenon DEF LeaseInit, LocksHeld, NoFileNoWorker, ProbeHonest, NotStarted, NoProbe, Serving, Leased
  <2>3. QED
    BY <2>1, <2>2, Zenon DEF LeaseInv
<1>2. LeaseInv /\ [LeaseNext]_lease => LeaseInv'
  <2> SUFFICES ASSUME LeaseInv, [LeaseNext]_lease PROVE LeaseInv'
    BY Zenon
  <2>1. CASE LeaseNext
    BY <2>1, WorkersKeepInv, ProbesKeepInv, Zenon DEF LeaseNext
  <2>2. CASE UNCHANGED lease
    BY <2>2, Zenon DEF lease, LeaseInv, LeaseTypes, LocksHeld, NoFileNoWorker, ProbeHonest, Up
  <2>3. QED
    BY <2>1, <2>2, Zenon
<1>3. QED
  BY <1>1, <1>2, PTL DEF LeaseSpec

\* The state that `bk worker status` reports is true of the time of the inspection, with
\* any number of workers, data directories and concurrent inspections.
THEOREM StatusIsTruthful == LeaseSpec => []StatusTruthful
<1>1. LeaseInv => StatusTruthful
  BY Zenon DEF LeaseInv, ProbeHonest, StatusTruthful
<1>2. QED
  BY <1>1, AlwaysLeased, PTL

===============================================================================
