-------------------------- MODULE LedgerStoreAudit --------------------------
(***************************************************************************)
(* What ops.log holds: no event twice while the power stays on, and every  *)
(* event of an accepted transaction while no reset() removes the log.      *)
(***************************************************************************)
EXTENDS LedgerStoreTraces

\* The records of journal j in ops.log are its first ones, in order, at the end.
Trailing(j) ==
    j # NoJournal =>
        \E b \in 0 .. Len(log) :
            \A i \in DOMAIN log : IF i <= b THEN log[i][1] # j.id ELSE log[i] = <<j.id, i - b>>

\* All audit events of transaction t are in ops.log.
Logged(t) == \A i \in 1 .. batch[t] : <<t, i>> \in Range(log)

OnceInv ==
    outages = 0 =>
        /\ \A i, j \in DOMAIN log : log[i] = log[j] => i = j
        /\ Trailing(journal)

\* The lock holder has appended the events of the journal before it writes a backup,
\* and a transaction only starts once those of an earlier journal are in ops.log.
CompleteAt(p) ==
    /\ op[p] # "reset" /\ pc[p] \notin {"unlinkLog", "unlinkJournal", "unlinkBackups"}
    /\ pc[p] \in {"backup", "clear"} => Logged(hand[p].id)
    /\ pc[p] \in {"recovered", "journal"} => journal = NoJournal \/ Logged(journal.id)
    /\ pc[p] = "journal" =>
         \A t \in Txn : t \in hand[p].ledger.txns => Logged(t) \/ hand[p].id = t

\* Which transactions have their events in ops.log while neither an outage nor a
\* reset took them: all that a document mentions but the journal's own.
CompleteInv ==
    outages = 0 /\ resets = 0 =>
        /\ \A t \in Txn :
             \/ t \in ledger.txns \cup journal.ledger.txns
             \/ status[t] \in {"ok", "warned"}
             => Logged(t) \/ journal.id = t
        /\ \A t \in Txn : t \in LatestBackup.txns => Logged(t)
        /\ \A p \in Proc : CompleteAt(p)
-----------------------------------------------------------------------------
(* ops.log holds an event once.                                            *)

\* Events k + 1 to k + a of transaction t.
Run(t, k, a) == [m \in 1 .. a |-> <<t, k + m>>]

\* A sequence whose elements are in T is a sequence over T.
LEMMA Retyped ==
    ASSUME NEW S, NEW T, NEW x \in Seq(S), NEW n, n = Len(x), \A i \in 1 .. n : x[i] \in T
    PROVE  x \in Seq(T)
OBVIOUS

\* What two sequences put together consist of.
LEMMA Joined ==
    ASSUME NEW S, NEW x \in Seq(S), NEW y \in Seq(S)
    PROVE  /\ x \o y \in Seq(S) /\ Len(x \o y) = Len(x) + Len(y)
           /\ \A i \in 1 .. Len(x) : (x \o y)[i] = x[i]
           /\ \A i \in 1 .. Len(y) : (x \o y)[Len(x) + i] = y[i]
OBVIOUS

\* Two sequences with the same elements are equal, an element at the end makes a
\* sequence longer by one, and a sequence starts with its first and ends
\* with its last elements.
LEMMA Sequence ==
    ASSUME NEW S, NEW x \in Seq(S)
    PROVE  /\ \A y \in Seq(S) : Len(x) = Len(y) /\ (\A m \in 1 .. Len(x) : x[m] = y[m]) => x = y
           /\ \A e \in S : /\ Append(x, e) \in Seq(S) /\ Len(Append(x, e)) = Len(x) + 1
                           /\ Append(x, e)[Len(x) + 1] = e
                           /\ \A m \in 1 .. Len(x) : Append(x, e)[m] = x[m]
           /\ \A b \in 0 .. Len(x) : /\ SubSeq(x, 1, b) \in Seq(S) /\ Len(SubSeq(x, 1, b)) = b
                                     /\ \A m \in 1 .. b : SubSeq(x, 1, b)[m] = x[m]
           /\ \A c \in 0 .. Len(x) :
                /\ SubSeq(x, c + 1, Len(x)) \in Seq(S) /\ Len(SubSeq(x, c + 1, Len(x))) = Len(x) - c
                /\ \A m \in 1 .. Len(x) - c : SubSeq(x, c + 1, Len(x))[m] = x[c + m]
OBVIOUS

\* A run is a sequence, and the next event makes it longer by one.
LEMMA Runs ==
    ASSUME NEW t, NEW k \in Nat, NEW a \in Nat
    PROVE  /\ Run(t, k, a) \in Seq({t} \X Nat) /\ Len(Run(t, k, a)) = a
           /\ \A m \in 1 .. a : Run(t, k, a)[m] = <<t, k + m>>
           /\ Append(Run(t, k, a), <<t, k + a + 1>>) = Run(t, k, a + 1)
           /\ \A b \in 0 .. a : SubSeq(Run(t, k, a), 1, b) = Run(t, k, b)
<1> DEFINE S == {t} \X Nat
           e == <<t, k + a + 1>>
           r == Run(t, k, a)
<1>1. \A c \in Nat : /\ Run(t, k, c) \in Seq(S) /\ Len(Run(t, k, c)) = c
                     /\ \A m \in 1 .. c : Run(t, k, c)[m] = <<t, k + m>>
  BY DEF Run
<1>2. e \in S /\ a + 1 \in Nat
  OBVIOUS
<1>3. Append(r, e) = Run(t, k, a + 1)
  <2> DEFINE y == Run(t, k, a + 1)
  <2>1. r \in Seq(S) /\ Len(r) = a /\ y \in Seq(S) /\ Len(y) = a + 1
    BY <1>1, <1>2, Zenon
  <2>2. y[a + 1] = e /\ \A m \in 1 .. a : y[m] = r[m]
    <3>1. a + 1 \in 1 .. a + 1 /\ k + (a + 1) = k + a + 1 /\ \A m \in 1 .. a : m \in 1 .. a + 1
      OBVIOUS
    <3>2. y[a + 1] = <<t, k + (a + 1)>>
      BY <1>1, <1>2, <3>1, Zenon
    <3>3. \A m \in 1 .. a : y[m] = <<t, k + m>> /\ r[m] = <<t, k + m>>
      BY <1>1, <1>2, <3>1, Zenon
    <3> QED  BY <3>1, <3>2, <3>3, Zenon
  <2> HIDE DEF y, r, e, S
  <2>3. /\ Append(r, e) \in Seq(S) /\ Len(Append(r, e)) = a + 1
        /\ Append(r, e)[a + 1] = e
        /\ \A m \in 1 .. a : Append(r, e)[m] = r[m]
    BY <1>2, <2>1, Sequence
  <2>4. \A m \in 1 .. a + 1 : Append(r, e)[m] = y[m]
    BY <2>2, <2>3
  <2>5. Append(r, e) = y
    BY <2>1, <2>3, <2>4, Sequence
  <2> QED  BY <2>5, Zenon DEF y
<1>4. ASSUME NEW b \in 0 .. a PROVE SubSeq(r, 1, b) = Run(t, k, b)
  <2> DEFINE y == Run(t, k, b)
  <2>1. r \in Seq(S) /\ Len(r) = a /\ y \in Seq(S) /\ Len(y) = b
    BY <1>1
  <2>2. \A m \in 1 .. b : y[m] = r[m]
    <3>1. b \in Nat /\ \A m \in 1 .. b : m \in 1 .. a
      OBVIOUS
    <3>2. \A m \in 1 .. b : y[m] = <<t, k + m>> /\ r[m] = <<t, k + m>>
      BY <1>1, <3>1, Zenon
    <3> QED  BY <3>2, Zenon
  <2> HIDE DEF y, r, S
  <2>3. SubSeq(r, 1, b) \in Seq(S) /\ Len(SubSeq(r, 1, b)) = b /\ \A m \in 1 .. b : SubSeq(r, 1, b)[m] = r[m]
    BY <2>1, Sequence
  <2>4. SubSeq(r, 1, b) = y
    BY <2>1, <2>2, <2>3, Sequence
  <2> QED  BY <2>4, Zenon DEF y
<1> QED  BY <1>1, <1>3, <1>4, Zenon

\* When the first k events of a batch are present, the scan finds the others missing.
LEMMA WithoutFirst ==
    ASSUME NEW t, NEW n \in Nat, NEW k \in 0 .. n, NEW present,
           \A i \in 1 .. n : <<t, i>> \in present <=> i <= k
    PROVE  Without(Batch(t, n), present) = Run(t, k, n - k)
<1> DEFINE logs == Batch(t, n)
<1> DEFINE S == {t} \X Nat
<1>1. logs \in Seq(S) /\ Len(logs) = n /\ \A i \in 1 .. n : logs[i] = <<t, i>>
  BY DEF Batch
<1> HIDE DEF logs, S
<1>2. PICK f \in [0 .. Len(logs) -> Seq(S)] : Scan(f, logs, present) /\ Without(logs, present) = f[Len(logs)]
  BY <1>1, WithoutScans, Zenon
<1> DEFINE Found(i) == f[i] = Run(t, k, IF i <= k THEN 0 ELSE i - k)
           G == {i \in Nat : i <= n => Found(i)}
<1>3. Found(0)
  <2>1. f[0] = <<>> /\ Run(t, k, 0) = <<>>
    BY <1>2 DEF Scan, Run
  <2> QED  BY <2>1
<1>4. ASSUME NEW i \in Nat, i + 1 <= n, Found(i) PROVE Found(i + 1)
  <2>1. f[i + 1] = Kept(f[i], <<t, i + 1>>, present)
    <3>1. i + 1 \in 1 .. Len(logs) /\ (i + 1) - 1 = i /\ logs[i + 1] = <<t, i + 1>>
      BY <1>1, <1>4, SMTT(30)
    <3> QED  BY <1>2, <3>1, Zenon DEF Scan
  <2>2. CASE i + 1 <= k
    <3>1. <<t, i + 1>> \in present /\ i <= k
      BY <1>4, <2>2
    <3> QED  BY <1>4, <2>1, <2>2, <3>1, Zenon DEF Kept
  <2>3. CASE ~(i + 1 <= k)
    <3>1. <<t, i + 1>> \notin present
      BY <1>4, <2>3
    <3>2. f[i + 1] = Append(f[i], <<t, i + 1>>)
      BY <2>1, <3>1, Zenon DEF Kept
    <3>3. f[i] = Run(t, k, i - k) /\ i - k \in Nat /\ i + 1 = k + (i - k) + 1
      BY <1>4, <2>3
    <3>4. f[i + 1] = Run(t, k, (i - k) + 1)
      <4> DEFINE a == i - k
      <4>1. a \in Nat /\ f[i] = Run(t, k, a) /\ i + 1 = k + a + 1 /\ k \in Nat
        BY <3>3
      <4> HIDE DEF a
      <4>2. f[i + 1] = Append(Run(t, k, a), <<t, k + a + 1>>)
        BY <3>2, <4>1, Zenon
      <4> QED  BY <4>1, <4>2, Runs, Zenon DEF a
    <3> QED  BY <2>3, <3>3, <3>4
  <2> QED  BY <2>2, <2>3, Zenon
<1> HIDE DEF Found
<1>5. Found(n)
  <2>1. 0 \in G /\ \A i \in Nat : i \in G => i + 1 \in G
    BY <1>3, <1>4
  <2>2. n \in G
    <3> HIDE DEF G
    <3> QED  BY <2>1, Induction, Zenon
  <2> QED  BY <2>2
<1>6. f[n] = Run(t, k, n - k)
  <2>1. CASE n <= k
    <3>1. n - k = 0
      BY <2>1
    <3> QED  BY <1>5, <2>1, <3>1, Zenon DEF Found
  <2>2. CASE ~(n <= k)
    BY <1>5, <2>2, Zenon DEF Found
  <2> QED  BY <2>1, <2>2, Zenon
<1>7. Without(logs, present) = Run(t, k, n - k)
  BY <1>1, <1>2, <1>6, Zenon
<1> QED  BY <1>7, Zenon DEF logs

\* The length of the first events of a batch, for every number of them.
Counted(f, s) == f[0] = 0 /\ \A i \in 1 .. Len(s) : f[i] = f[i - 1] + Size[s[i]]

\* Bytes is the end of that count.
LEMMA BytesCounted ==
    ASSUME NEW s \in Seq(Event)
    PROVE  \E f \in [0 .. Len(s) -> Nat] : Counted(f, s) /\ Bytes(s) = f[Len(s)]
<1> DEFINE N == Len(s)
           Part(n) == \E f \in [0 .. n -> Nat] :
                        f[0] = 0 /\ \A i \in 1 .. n : f[i] = f[i - 1] + Size[s[i]]
           G == {n \in Nat : n <= N => Part(n)}
<1>0. N \in Nat /\ \A i \in 1 .. N : Size[s[i]] \in Nat
  BY SizeAssumption DEF Event
<1>1. Part(0)
  <2> DEFINE f == [i \in 0 .. 0 |-> 0]
  <2>1. f \in [0 .. 0 -> Nat] /\ f[0] = 0 /\ 1 .. 0 = {}
    OBVIOUS
  <2> QED  BY <2>1, Zenon
<1>2. ASSUME NEW n \in Nat, n + 1 <= N, Part(n) PROVE Part(n + 1)
  <2>1. PICK f \in [0 .. n -> Nat] : f[0] = 0 /\ \A i \in 1 .. n : f[i] = f[i - 1] + Size[s[i]]
    BY <1>2, Zenon
  <2> DEFINE g == [i \in 0 .. n + 1 |-> IF i <= n THEN f[i] ELSE f[n] + Size[s[n + 1]]]
  <2>2. f[n] \in Nat /\ Size[s[n + 1]] \in Nat
    BY <1>0, <1>2
  <2>3. g \in [0 .. n + 1 -> Nat] /\ g[0] = 0
    BY <2>1, <2>2
  <2>4. \A i \in 1 .. n + 1 : g[i] = g[i - 1] + Size[s[i]]
    <3> TAKE i \in 1 .. n + 1
    <3>1. CASE i <= n
      BY <2>1, <3>1
    <3>2. CASE i = n + 1
      BY <3>2
    <3> QED  BY <3>1, <3>2
  <2> HIDE DEF g
  <2> QED  BY <2>3, <2>4, Zenon
<1> HIDE DEF Part
<1>3. Part(N)
  <2>1. 0 \in G /\ \A n \in Nat : n \in G => n + 1 \in G
    BY <1>0, <1>1, <1>2
  <2>2. N \in G
    <3> HIDE DEF G
    <3> QED  BY <1>0, <2>1, Induction, Zenon
  <2> QED  BY <1>0, <2>2
<1>4. PICK f \in [0 .. N -> Nat] : Counted(f, s)
  BY <1>3, Zenon DEF Counted, Part
<1> DEFINE Line(g, i) == IF i = 0 THEN 0 ELSE g[i - 1] + Size[s[i]]
           h == CHOOSE g : g = [i \in 0 .. N |-> Line(g, i)]
<1>5. \A i \in 0 .. N : f[i] = Line(f, i)
  <2> TAKE i \in 0 .. N
  <2>1. CASE i = 0
    BY <1>4, <2>1, Zenon DEF Counted
  <2>2. CASE i # 0
    <3>1. i \in 1 .. N
      BY <1>0, <2>2
    <3> QED  BY <1>4, <2>2, <3>1, Zenon DEF Counted
  <2> QED  BY <2>1, <2>2, Zenon
<1>6. Bytes(s) = h[N]
  BY Zenon DEF Bytes
<1>7. h = [i \in 0 .. N |-> Line(h, i)]
  <2> HIDE DEF Line
  <2>1. f = [i \in 0 .. N |-> Line(f, i)]
    BY <1>5, Zenon
  <2> QED  BY <2>1, Zenon
<1> HIDE DEF h
<1>8. \A i \in 0 .. N : h[i] = Line(h, i)
  BY <1>7, Zenon
<1>9. h[0] = 0 /\ \A i \in 1 .. N : h[i] = h[i - 1] + Size[s[i]]
  BY <1>0, <1>8
<1>10. \A i \in 0 .. N : h[i] \in Nat
  <2> DEFINE T == {n \in Nat : n <= N => h[n] \in Nat}
  <2>1. 0 \in T
    BY <1>9
  <2>2. ASSUME NEW n \in Nat, n + 1 <= N, h[n] \in Nat PROVE h[n + 1] \in Nat
    BY <1>0, <1>9, <2>2
  <2>3. \A n \in Nat : n \in T => n + 1 \in T
    BY <1>0, <2>2
  <2>4. Nat \subseteq T
    <3> HIDE DEF T
    <3> QED  BY <2>1, <2>3, Induction, Zenon
  <2> QED  BY <1>0, <2>4
<1>11. h \in [0 .. N -> Nat]
  BY <1>7, <1>10, Zenon
<1> QED  BY <1>6, <1>9, <1>11, Zenon DEF Counted

\* A sum of weights grows with every term, and the sum of d terms after the first e
\* is at most that of the first e + d.
LEMMA SumsGrow ==
    ASSUME NEW n \in Nat, NEW w \in [1 .. n -> Nat], NEW g \in [0 .. n -> Nat],
           \A j \in 1 .. n : g[j] = g[j - 1] + w[j],
           NEW e \in Nat, NEW d \in Nat, e + d <= n, NEW f \in [0 .. d -> Nat], f[0] = 0,
           \A j \in 1 .. d : f[j] = f[j - 1] + w[e + j]
    PROVE  f[d] <= g[n]
<1> DEFINE Under(j) == f[j] <= g[e + j]
           A == {j \in Nat : j <= d => Under(j)}
<1>1. Under(0)
  OBVIOUS
<1>2. ASSUME NEW j \in Nat, j + 1 <= d, Under(j) PROVE Under(j + 1)
  <2>1. j + 1 \in 1 .. d /\ e + (j + 1) \in 1 .. n /\ (j + 1) - 1 = j /\ (e + (j + 1)) - 1 = e + j
    BY <1>2
  <2>2. f[j + 1] = f[j] + w[e + (j + 1)] /\ g[e + (j + 1)] = g[e + j] + w[e + (j + 1)]
    BY <2>1, Zenon
  <2>3. j \in 0 .. d /\ e + j \in 0 .. n
    BY <1>2
  <2>4. f[j] \in Nat /\ g[e + j] \in Nat /\ w[e + (j + 1)] \in Nat
    BY <2>1, <2>3, Zenon
  <2>5. \A a, b, c \in Nat : a <= b => a + c <= b + c
    OBVIOUS
  <2> QED  BY <1>2, <2>2, <2>4, <2>5, Zenon
<1> HIDE DEF Under
<1>3. Under(d)
  <2>1. 0 \in A /\ \A j \in Nat : j \in A => j + 1 \in A
    BY <1>1, <1>2
  <2>2. d \in A
    <3> HIDE DEF A
    <3> QED  BY <2>1, Induction, Zenon
  <2> QED  BY <2>2
<1> DEFINE Over(j) == g[e + d] <= g[e + d + j]
           B == {j \in Nat : e + d + j <= n => Over(j)}
<1>4. Over(0)
  OBVIOUS
<1>5. ASSUME NEW j \in Nat, e + d + (j + 1) <= n, Over(j) PROVE Over(j + 1)
  <2>1. e + d + (j + 1) \in 1 .. n /\ (e + d + (j + 1)) - 1 = e + d + j
    BY <1>5
  <2>2. g[e + d + (j + 1)] = g[e + d + j] + w[e + d + (j + 1)]
    BY <2>1, Zenon
  <2>3. g[e + d] \in Nat /\ g[e + d + j] \in Nat /\ w[e + d + (j + 1)] \in Nat
    BY <1>5, <2>1
  <2>4. g[e + d] <= g[e + d + j]
    BY <1>5, Zenon
  <2> QED  BY <2>2, <2>3, <2>4
<1> HIDE DEF Over
<1>6. Over(n - (e + d))
  <2>1. 0 \in B /\ \A j \in Nat : j \in B => j + 1 \in B
    BY <1>4, <1>5
  <2>2. n - (e + d) \in Nat
    OBVIOUS
  <2>3. n - (e + d) \in B
    <3> HIDE DEF B
    <3> QED  BY <2>1, <2>2, Induction, Zenon
  <2> QED  BY <2>2, <2>3
<1>7. f[d] \in Nat /\ g[e + d] \in Nat /\ g[n] \in Nat /\ e + d + (n - (e + d)) = n
  OBVIOUS
<1>8. f[d] <= g[e + d] /\ g[e + d] <= g[n]
  BY <1>3, <1>6, <1>7, Zenon DEF Under, Over
<1> QED  BY <1>7, <1>8

\* Part of a batch is no longer than the batch: the d records after the first e are,
\* with nothing behind them, in the tail of ops.log that is scanned.
LEMMA RunFits ==
    ASSUME NEW t \in Txn, NEW n \in Nat, n <= MaxLogs, NEW e \in Nat, NEW d \in Nat, e + d <= n,
           NEW x \in Seq(Event), Len(x) = d, \A j \in 1 .. d : x[j] = <<t, e + j>>
    PROVE  Bytes(x) <= Bytes(Batch(t, n))
<1> DEFINE y == Batch(t, n)
           w == [j \in 1 .. n |-> Size[<<t, j>>]]
<1>1. \A j \in 1 .. n : <<t, j>> \in Event /\ Size[<<t, j>>] \in Nat
  <2>1. \A j \in 1 .. n : j \in 1 .. MaxLogs
    BY StoreAssumption
  <2>2. \A j \in 1 .. n : <<t, j>> \in Txn \X (1 .. MaxLogs)
    BY <2>1, Zenon
  <2> QED  BY <2>2, SizeAssumption, Zenon DEF Event
<1>2. y \in Seq(Event) /\ Len(y) = n /\ \A j \in 1 .. n : y[j] = <<t, j>>
  <2>1. \A E : (\A j \in 1 .. n : <<t, j>> \in E) => y \in Seq(E) /\ Len(y) = n /\ \A j \in 1 .. n : y[j] = <<t, j>>
    BY DEF Batch
  <2> HIDE DEF y
  <2> QED  BY <1>1, <2>1, Zenon
<1>3. w \in [1 .. n -> Nat] /\ \A j \in 1 .. n : w[j] = Size[<<t, j>>]
  BY <1>1, Zenon
<1> HIDE DEF y, w
<1>4. PICK f \in [0 .. Len(x) -> Nat] : Counted(f, x) /\ Bytes(x) = f[Len(x)]
  BY BytesCounted, Zenon
<1>5. PICK g \in [0 .. Len(y) -> Nat] : Counted(g, y) /\ Bytes(y) = g[Len(y)]
  BY <1>2, BytesCounted, Zenon
<1>6. \A j \in 1 .. d : e + j \in 1 .. n
  OBVIOUS
<1>7. /\ f \in [0 .. d -> Nat] /\ Bytes(x) = f[d] /\ f[0] = 0
      /\ \A j \in 1 .. d : f[j] = f[j - 1] + w[e + j]
  BY <1>3, <1>4, <1>6, Zenon DEF Counted
<1>8. /\ g \in [0 .. n -> Nat] /\ Bytes(y) = g[n]
      /\ \A j \in 1 .. n : g[j] = g[j - 1] + w[j]
  BY <1>2, <1>3, <1>5, Zenon DEF Counted
<1>9. f[d] <= g[n]
  BY <1>3, <1>7, <1>8, SumsGrow, Zenon
<1> QED  BY <1>7, <1>8, <1>9, Zenon DEF y

\* The sequence x ends in the first k events of t, after b others.
EndsIn(x, b, t) == \A i \in DOMAIN x : IF i <= b THEN x[i][1] # t ELSE x[i] = <<t, i - b>>

\* The sequence y continues x, of length L, with the a events of t from event k + 1 on.
GoesOn(x, y, L, k, a, t) ==
    (\A i \in 1 .. L : y[i] = x[i]) /\ (\A i \in 1 .. a : y[L + i] = <<t, k + i>>)

\* A sequence that ends in a run of t's events, continued by the run's next events.
LEMMA Continues ==
    ASSUME NEW S, NEW x \in Seq(S), NEW y \in Seq(S), NEW t, NEW L \in Nat, NEW k \in Nat,
           NEW b \in Nat, NEW a \in Nat, b + k = L, L = Len(x), Len(y) = Len(x) + a
    PROVE  GoesOn(x, y, L, k, a, t) /\ EndsIn(x, b, t) => EndsIn(y, b, t)
<1>1. SUFFICES ASSUME \A i \in 1 .. L : y[i] = x[i],
                      \A i \in 1 .. a : y[L + i] = <<t, k + i>>, EndsIn(x, b, t)
               PROVE  EndsIn(y, b, t)
  BY Zenon DEF GoesOn
<1>2. DOMAIN y = 1 .. L + a /\ DOMAIN x = 1 .. L
  OBVIOUS
<1>3. SUFFICES ASSUME NEW i \in 1 .. L + a PROVE IF i <= b THEN y[i][1] # t ELSE y[i] = <<t, i - b>>
  BY <1>2, Zenon DEF EndsIn
<1>4. CASE i <= L
  <2>1. i \in 1 .. L
    BY <1>4
  <2> QED  BY <1>1, <1>2, <2>1, Zenon DEF EndsIn
<1>5. CASE ~(i <= L)
  <2>1. i - L \in 1 .. a /\ i = L + (i - L) /\ k + (i - L) = i - b /\ ~(i <= b)
    BY <1>5
  <2>2. y[L + (i - L)] = <<t, k + (i - L)>>
    BY <1>1, <2>1, Zenon
  <2> QED  BY <2>1, <2>2, Zenon
<1> QED  BY <1>4, <1>5, Zenon

\* Replay appends the events that are not there yet, in order: a log that ends in the
\* first events of the journal goes on with the next ones.
LEMMA AppendsInOrder ==
    ASSUME TypeInv, TraceInv, DurabilityInv, OnceInv, outages = 0, journal \in Journal, UNCHANGED journal,
           NEW m, m = Missing(journal.logs), NEW a \in 0 .. Len(m), log' = log \o SubSeq(m, 1, a)
    PROVE  OnceInv'
<1> DEFINE t == journal.id
           n == batch[t]
<1>1. t \in Txn /\ n \in Nat /\ n <= MaxLogs /\ journal.logs = Batch(t, n) /\ log \in Seq(Event)
  <2>1. <<ledger, journal>> \in survivors /\ journal # NoJournal
    BY Records, Zenon DEF DurabilityInv, HistoryInv
  <2>2. Batched(journal)
    BY <2>1, Zenon DEF TraceInv
  <2>3. t \in Txn
    BY Records, Zenon
  <2>4. n \in 0 .. MaxLogs
    BY <2>3, Zenon DEF TypeInv, TypeOK, HistoryTypeOK
  <2>5. log \in Seq(Event)
    BY Zenon DEF TraceInv, Recorded
  <2>6. \A z \in 0 .. MaxLogs : z \in Nat /\ z <= MaxLogs
    BY StoreAssumption
  <2> QED  BY <2>1, <2>2, <2>3, <2>4, <2>5, <2>6, Zenon DEF Batched
<1>2. PICK b \in 0 .. Len(log) :
        \A i \in DOMAIN log : IF i <= b THEN log[i][1] # t ELSE log[i] = <<t, i - b>>
  <2>1. journal # NoJournal
    BY Records, Zenon
  <2> QED  BY <2>1, Zenon DEF OnceInv, Trailing
<1>2a. PICK k \in Nat, L \in Nat : L = Len(log) /\ k = L - b
  <2>1. Len(log) \in Nat
    <3>1. \A s \in Seq(Event) : Len(s) \in Nat
      OBVIOUS
    <3> QED  BY <1>1, <3>1, Zenon
  <2>2. \A x \in Nat : \A y \in 0 .. x : x - y \in Nat
    OBVIOUS
  <2>3. Len(log) - b \in Nat
    BY <2>1, <2>2, Zenon
  <2> QED  BY <2>1, <2>3, Zenon
<1>2b. b \in Nat /\ b + k = L
  <2>1. b \in 0 .. L
    BY <1>2a, Zenon
  <2>2. k = L - b
    BY <1>2a, Zenon
  <2> QED  BY <2>1, <2>2
<1>2c. DOMAIN log = 1 .. L
  <2>1. \A s \in Seq(Event) : DOMAIN s = 1 .. Len(s)
    OBVIOUS
  <2> QED  BY <1>1, <1>2a, <2>1, Zenon
<1>2d. n \in Nat /\ n <= MaxLogs /\ MaxLogs \in Nat
  BY <1>1, StoreAssumption, Zenon
<1>3. k \in 0 .. n
  <2>1. CASE k = 0
    BY <1>2d, <2>1
  <2>2. CASE k # 0
    <3>1. Len(log) \in DOMAIN log /\ ~(Len(log) <= b)
      <4>1. L \in 1 .. L /\ ~(L <= b)
        BY <1>2b, <2>2
      <4> QED  BY <1>2a, <1>2c, <4>1, Zenon
    <3>2. log[Len(log)] = <<t, k>>
      BY <1>2, <1>2a, <3>1, Zenon
    <3>3. log[Len(log)][2] <= batch[log[Len(log)][1]]
      BY <3>1, Zenon DEF TraceInv, Recorded
    <3>4. k <= n
      <4>1. <<t, k>>[1] = t /\ <<t, k>>[2] = k
        BY Zenon
      <4> QED  BY <3>2, <3>3, <4>1, Zenon
    <3> QED  BY <1>2d, <3>4
  <2> QED  BY <2>1, <2>2, Zenon
<1> HIDE DEF t, n
<1>4. \E present : /\ m = Without(Batch(t, n), present)
                   /\ \A i \in 1 .. n : <<t, i>> \in present <=> i <= k
  <2> DEFINE present == Recent(Batch(t, n))
  <2>1. m = Without(Batch(t, n), present)
    BY <1>1, Zenon DEF Missing
  <2>2. present \subseteq Range(log)
    BY Zenon DEF Recent, Range
  <2>3. ASSUME NEW i \in 1 .. n PROVE <<t, i>> \in Range(log) <=> i <= k
    <3>1. ASSUME <<t, i>> \in Range(log) PROVE i <= k
      <4>1. PICK j \in DOMAIN log : log[j] = <<t, i>>
        BY <3>1, Zenon DEF Range
      <4>2. j \in 1 .. L /\ ~(j <= b)
        <5>1. <<t, i>>[1] = t
          BY Zenon
        <5> QED  BY <1>2, <1>2c, <4>1, <5>1, Zenon
      <4>3. log[j] = <<t, j - b>>
        BY <1>2, <4>1, <4>2, Zenon
      <4>4. i = j - b
        <5>1. <<t, i>>[2] = i /\ <<t, j - b>>[2] = j - b
          BY Zenon
        <5> QED  BY <4>1, <4>3, <5>1, Zenon
      <4> QED  BY <1>2b, <4>2, <4>4
    <3>2. ASSUME i <= k PROVE <<t, i>> \in Range(log)
      <4>1. b + i \in 1 .. L /\ ~(b + i <= b) /\ (b + i) - b = i
        BY <1>2b, <3>2
      <4>2. log[b + i] = <<t, i>>
        BY <1>2, <1>2c, <4>1, Zenon
      <4> QED  BY <1>2c, <4>1, <4>2, Zenon DEF Range
    <3> QED  BY <3>1, <3>2, Zenon
  <2>4. ASSUME NEW i \in 1 .. n, i <= k PROVE <<t, i>> \in present
    <3>1. b + i \in 1 .. L /\ ~(b + i <= b) /\ (b + i) - b = i
      BY <1>2b, <2>4
    <3>2. log[b + i] = <<t, i>>
      BY <1>2, <1>2c, <3>1, Zenon
    <3>3. PICK e \in Nat, d \in Nat : e + 1 = i /\ e + d = k
      <4>1. i - 1 \in Nat /\ k - (i - 1) \in Nat /\ (i - 1) + 1 = i /\ (i - 1) + (k - (i - 1)) = k
        BY <2>4
      <4> QED  BY <4>1, Zenon
    <3>4. b + e \in 0 .. L /\ (b + e) + 1 = b + i /\ L - (b + e) = d /\ e + d <= n
      BY <1>2b, <1>2d, <1>3, <3>1, <3>3
    <3> DEFINE x == SubSeq(log, b + i, Len(log))
    <3>5. x \in Seq(Event) /\ Len(x) = d /\ \A j \in 1 .. d : x[j] = log[(b + e) + j]
      <4>1. \A c \in 0 .. Len(log) :
              /\ SubSeq(log, c + 1, Len(log)) \in Seq(Event) /\ Len(SubSeq(log, c + 1, Len(log))) = Len(log) - c
              /\ \A j \in 1 .. Len(log) - c : SubSeq(log, c + 1, Len(log))[j] = log[c + j]
        BY <1>1, Sequence, Zenon
      <4> QED  BY <1>2a, <3>4, <4>1, Zenon
    <3> HIDE DEF x
    <3>6. \A j \in 1 .. d : x[j] = <<t, e + j>>
      <4> TAKE j \in 1 .. d
      <4>1. (b + e) + j \in 1 .. L /\ ~((b + e) + j <= b) /\ ((b + e) + j) - b = e + j
        BY <1>2b, <3>3, <3>4
      <4> QED  BY <1>2, <1>2c, <3>5, <4>1, Zenon
    <3>7. Bytes(x) <= Bytes(Batch(t, n))
      BY <1>1, <1>2d, <3>4, <3>5, <3>6, RunFits, Zenon
    <3> QED  BY <1>2c, <3>1, <3>2, <3>7, Zenon DEF Recent, x
  <2> QED  BY <2>1, <2>2, <2>3, <2>4, Zenon
<1>5. m = Run(t, k, n - k)
  BY <1>1, <1>3, <1>4, WithoutFirst, Zenon
<1> DEFINE r == Run(t, k, a)
<1>6. /\ a \in Nat /\ a <= n - k /\ SubSeq(m, 1, a) = r
      /\ r \in Seq({t} \X Nat) /\ Len(r) = a /\ \A i \in 1 .. a : r[i] = <<t, k + i>>
  <2>1. PICK w \in Nat : w = n - k
    BY <1>2d, <1>3
  <2>2. m = Run(t, k, w)
    BY <1>5, <2>1, Zenon
  <2>3. Len(Run(t, k, w)) = w /\ \A c \in 0 .. w : SubSeq(Run(t, k, w), 1, c) = Run(t, k, c)
    BY Runs, Zenon
  <2>4. a \in Nat /\ a \in 0 .. w /\ a <= w
    <3>1. a \in 0 .. w
      BY <2>2, <2>3, Zenon
    <3> QED  BY <3>1
  <2>5. SubSeq(m, 1, a) = r
    BY <2>2, <2>3, <2>4, Zenon
  <2>6. r \in Seq({t} \X Nat) /\ Len(r) = a /\ \A i \in 1 .. a : r[i] = <<t, k + i>>
    BY <2>4, Runs, Zenon
  <2> HIDE DEF r
  <2> QED  BY <2>1, <2>4, <2>5, <2>6, Zenon
<1>7. Event = Txn \X (1 .. MaxLogs) /\ k + a <= n /\ a \in Nat
  <2>1. a \in Nat /\ a <= n - k
    BY <1>6, Zenon
  <2>2. k + a <= n
    BY <1>2d, <1>3, <2>1
  <2> QED  BY <2>1, <2>2, Zenon DEF Event
<1>8. r \in Seq(Event)
  <2>0. \A i \in 1 .. a : k + i \in 1 .. MaxLogs
    <3>1. k + a <= n /\ a \in Nat
      BY <1>7, Zenon
    <3> QED  BY <1>2d, <3>1
  <2>1. \A i \in 1 .. a : <<t, k + i>> \in Event
    BY <1>1, <1>7, <2>0, Zenon
  <2> HIDE DEF r
  <2>2. \A i \in 1 .. a : r[i] \in Event
    BY <1>6, <2>1, Zenon
  <2> QED  BY <1>6, <2>2, Retyped, Zenon
<1> HIDE DEF r
<1>9. /\ log' \in Seq(Event) /\ Len(log') = Len(log) + a
      /\ \A i \in 1 .. Len(log) : log'[i] = log[i]
      /\ \A i \in 1 .. a : log'[Len(log) + i] = r[i]
  <2>1. log' = log \o r /\ Len(r) = a
    BY <1>6, Zenon
  <2>2. /\ log \o r \in Seq(Event) /\ Len(log \o r) = Len(log) + Len(r)
        /\ \A i \in 1 .. Len(log) : (log \o r)[i] = log[i]
        /\ \A i \in 1 .. Len(r) : (log \o r)[Len(log) + i] = r[i]
    BY <1>1, <1>8, Joined
  <2> QED  BY <2>1, <2>2, Zenon
<1>10. \A i \in DOMAIN log' : IF i <= b THEN log'[i][1] # t ELSE log'[i] = <<t, i - b>>
  <2>1. \A i \in 1 .. a : log'[L + i] = <<t, k + i>>
    BY <1>2a, <1>6, <1>9, Zenon
  <2>2. PICK y : y = log'
    BY Zenon
  <2>3. y \in Seq(Event) /\ Len(y) = Len(log) + a /\ (\A i \in 1 .. Len(log) : y[i] = log[i])
    BY <1>9, <2>2, Zenon
  <2>4. \A i \in 1 .. a : y[L + i] = <<t, k + i>>
    BY <2>1, <2>2, Zenon
  <2>5. a \in Nat
    BY <1>6, Zenon
  <2>6. EndsIn(log, b, t)
    BY <1>2, Zenon DEF EndsIn
  <2>7. EndsIn(y, b, t)
    <3>1. \A i \in 1 .. L : y[i] = log[i]
      BY <1>2a, <2>3, Zenon
    <3>2. GoesOn(log, y, L, k, a, t) /\ EndsIn(log, b, t) => EndsIn(y, b, t)
      BY <1>1, <1>2a, <1>2b, <2>3, <2>5, Continues, Zenon
    <3> QED  BY <2>4, <2>6, <3>1, <3>2, Zenon DEF GoesOn
  <2> QED  BY <2>2, <2>7, Zenon DEF EndsIn
<1>11. Trailing(journal)'
  <2>1. b \in 0 .. Len(log')
    <3>1. Len(log') = L + a /\ a \in Nat
      BY <1>2a, <1>7, <1>9, Zenon
    <3> QED  BY <1>2b, <3>1
  <2> QED  BY <1>10, <2>1, Zenon DEF Trailing, t
<1>12. ASSUME NEW i \in DOMAIN log', NEW j \in DOMAIN log', log'[i] = log'[j] PROVE i = j
  <2>0. i \in Nat /\ j \in Nat /\ b \in Nat
    BY <1>9
  <2>1. CASE i <= b /\ j <= b
    <3>1. i \in DOMAIN log /\ j \in DOMAIN log /\ log[i] = log[j]
      BY <1>1, <1>9, <1>12, <2>0, <2>1
    <3> QED  BY <3>1, Zenon DEF OnceInv
  <2>2. CASE ~(i <= b) /\ ~(j <= b)
    <3>1. log'[i] = <<t, i - b>> /\ log'[j] = <<t, j - b>>
      BY <1>10, <2>2, Zenon
    <3>2. <<t, i - b>> = <<t, j - b>>
      BY <1>12, <3>1, Zenon
    <3>3. i - b = j - b
      BY <3>2, Zenon
    <3> QED  BY <2>0, <3>3
  <2>3. CASE i <= b /\ ~(j <= b)
    <3>1. log'[i][1] # t /\ log'[j] = <<t, j - b>>
      BY <1>10, <2>3, Zenon
    <3>2. <<t, j - b>>[1] = t
      BY Zenon
    <3> QED  BY <1>12, <3>1, <3>2, Zenon
  <2>4. CASE ~(i <= b) /\ j <= b
    <3>1. log'[j][1] # t /\ log'[i] = <<t, i - b>>
      BY <1>10, <2>4, Zenon
    <3>2. <<t, i - b>>[1] = t
      BY Zenon
    <3> QED  BY <1>12, <3>1, <3>2, Zenon
  <2> QED  BY <2>1, <2>2, <2>3, <2>4, Zenon
<1> QED  BY <1>11, <1>12, Zenon DEF OnceInv

\* A step that appends nothing keeps OnceInv: at most the log is emptied, and the
\* journal unlinked or replaced by one whose transaction has no event in the log.
LEMMA OnceKept ==
    ASSUME TypeInv, DurabilityInv, TraceInv, OnceInv, UNCHANGED outages, log' \in {log, <<>>},
           \/ journal' \in {journal, NoJournal}
           \/ \E p \in Proc : pc[p] = "journal" /\ journal' = hand[p]
    PROVE  OnceInv'
<1>1. log \in Seq(Event)
  BY Zenon DEF TraceInv, Recorded
<1>2. SUFFICES ASSUME outages = 0
               PROVE  (\A i, j \in DOMAIN log' : log'[i] = log'[j] => i = j) /\ Trailing(journal)'
  BY Zenon DEF OnceInv
<1>3. CASE log' = <<>>
  <2>1. DOMAIN log' = {} /\ 0 \in 0 .. Len(log')
    BY <1>3
  <2> QED  BY <2>1, Zenon DEF Trailing
<1>4. CASE log' = log
  <2>1. \A i, j \in DOMAIN log' : log'[i] = log'[j] => i = j
    BY <1>2, <1>4, Zenon DEF OnceInv
  <2>2. CASE journal' \in {journal, NoJournal}
    BY <1>2, <1>4, <2>1, <2>2, Zenon DEF OnceInv, Trailing
  <2>3. ASSUME NEW p \in Proc, pc[p] = "journal", journal' = hand[p] PROVE Trailing(journal)'
    <3>1. hand[p].id \in Txn /\ status[hand[p].id] = "open"
      BY <2>3, Inside, Records, Zenon DEF HandOK, Critical, Holding
    <3>2. Withheld(hand[p].id)
      BY <2>3, <3>1, Zenon DEF Withheld
    <3>3. \A i \in DOMAIN log : log[i][1] # hand[p].id
      BY <3>1, <3>2, Zenon DEF TraceInv, Absent
    <3>4. Len(log) \in 0 .. Len(log) /\ \A i \in DOMAIN log : i <= Len(log)
      BY <1>1
    <3> QED  BY <1>4, <2>3, <3>3, <3>4, Zenon DEF Trailing
  <2> QED  BY <2>1, <2>2, <2>3, Zenon
<1> QED  BY <1>3, <1>4, Zenon

\* Every step of the store keeps OnceInv.
LEMMA OnceStep == TypeInv /\ DurabilityInv /\ TraceInv /\ OnceInv /\ [Next]_vars => OnceInv'
<1> SUFFICES ASSUME TypeInv, DurabilityInv, TraceInv, OnceInv, [Next]_vars PROVE OnceInv'
  BY Zenon
<1>0. outages \in Nat
  BY Zenon DEF TypeInv, TypeOK, HistoryTypeOK
<1>1. ASSUME NEW p \in Proc, pc[p] = "log", UNCHANGED <<outages, journal>>, NEW m, m = Missing(hand[p].logs),
             log' \in {log, log \o m} \/ \E k \in 0 .. Len(m) : log' = log \o SubSeq(m, 1, k)
      PROVE  OnceInv'
  <2>1. hand[p] = journal /\ journal \in Journal
    BY <1>1, Inside, Zenon DEF HandOK, Critical, Holding
  <2>2. m \in Seq(Event)
    <3>1. PICK present : m = Without(journal.logs, present)
      BY <1>1, <2>1, Zenon DEF Missing
    <3> QED  BY <2>1, <3>1, WithoutEvents, Zenon DEF Journal
  <2>3. Len(m) \in 0 .. Len(m) /\ SubSeq(m, 1, Len(m)) = m
    BY <2>2
  <2>4. CASE log' = log
    BY <1>1, <2>4, OnceKept, Zenon
  <2>5. CASE \E k \in 0 .. Len(m) : log' = log \o SubSeq(m, 1, k)
    <3>1. CASE outages = 0
      BY <1>1, <2>1, <2>5, <3>1, AppendsInOrder, Zenon
    <3>2. CASE outages # 0
      BY <1>1, <3>2, Zenon DEF OnceInv
    <3> QED  BY <3>1, <3>2, Zenon
  <2>6. CASE log' = log \o m
    BY <2>3, <2>5, <2>6, Zenon
  <2> QED  BY <1>1, <2>4, <2>5, <2>6, Zenon
<1>2. ASSUME NEW p \in Proc, Begin(p) \/ Acquire(p) \/ LockTimeout(p) \/ RecoverFails(p)
                                \/ Recovered(p) \/ Read(p) \/ LoadReturns(p)
      PROVE  OnceInv'
  <2>1. UNCHANGED <<log, journal, outages>>
    BY <1>2, Zenon DEF Begin, Acquire, LockTimeout, RecoverFails, Recovered, Read, LoadReturns, files, bounds, env
  <2> QED  BY <2>1, OnceKept, Zenon
<1>3. ASSUME NEW p \in Proc, ApplyLedger(p) \/ ApplyLedgerFails(p) \/ Backup(p) \/ Mutate(p) \/ Reread(p) \/ ResetFails(p)
      PROVE  OnceInv'
  <2>1. UNCHANGED <<log, journal, outages>>
    BY <1>3, Zenon DEF ApplyLedger, ApplyLedgerFails, Backup, Mutate, Reread, ResetFails, files, env
  <2> QED  BY <2>1, OnceKept, Zenon
<1>4. ASSUME NEW p \in Proc, ResetLedger(p) \/ ResetLog(p) \/ ResetJournal(p) \/ ResetBackups(p) \/ ClearJournal(p)
      PROVE  OnceInv'
  <2>1. UNCHANGED outages /\ log' \in {log, <<>>} /\ journal' \in {journal, NoJournal}
    BY <1>4, Zenon DEF ResetLedger, ResetLog, ResetJournal, ResetBackups, ClearJournal, bounds, env
  <2> QED  BY <2>1, OnceKept, Zenon
<1>5. ASSUME NEW p \in Proc, WriteJournal(p) \/ WriteJournalFails(p) PROVE OnceInv'
  <2>1. pc[p] = "journal" /\ UNCHANGED <<outages, log>> /\ (journal' = journal \/ journal' = hand[p])
    BY <1>5, Zenon DEF WriteJournal, WriteJournalFails, At, bounds, env
  <2> QED  BY <2>1, OnceKept, Zenon
<1>6. ASSUME NEW p \in Proc, AppendLogs(p) PROVE OnceInv'
  <2>1. pc[p] = "log" /\ UNCHANGED <<outages, journal>> /\ log' \in {log, log \o Missing(hand[p].logs)}
    BY <1>6, Zenon DEF AppendLogs, At, bounds, env
  <2> QED  BY <1>1, <2>1, Zenon
<1>7. ASSUME NEW p \in Proc, AppendLogsFails(p) PROVE OnceInv'
  <2>1. pc[p] = "log" /\ UNCHANGED <<outages, journal>> /\ (log' = log \/ PartialAppend(p))
    BY <1>7, Zenon DEF AppendLogsFails, At, env
  <2> QED  BY <1>1, <2>1, Zenon DEF PartialAppend
<1>8. ASSUME NEW p \in Proc, Crash(p) PROVE OnceInv'
  <2>1. UNCHANGED outages
    BY <1>8, Zenon DEF Crash
  <2>2. \/ log' = log /\ journal' \in {journal, NoJournal}
        \/ log' = log /\ pc[p] = "journal" /\ journal' = hand[p]
        \/ pc[p] = "log" /\ PartialAppend(p) /\ UNCHANGED journal
    BY <1>8, Zenon DEF Crash, At, files
  <2> QED  BY <1>1, <2>1, <2>2, OnceKept, Zenon DEF PartialAppend
<1>9. CASE PowerLoss
  <2>1. outages' # 0
    BY <1>0, <1>9 DEF PowerLoss
  <2> QED  BY <2>1, Zenon DEF OnceInv
<1>10. CASE Damage \/ UNCHANGED vars
  <2>1. UNCHANGED <<log, journal, outages>>
    BY <1>10, Zenon DEF Damage, vars, files, bounds, env
  <2> QED  BY <2>1, OnceKept, Zenon
<1> QED
  BY <1>2, <1>3, <1>4, <1>5, <1>6, <1>7, <1>8, <1>9, <1>10, Zenon DEF Next, Step

\* However often a journal is replayed, ops.log holds an audit event once as long as
\* the power has not failed, and only events that transactions prepared; for every
\* number of processes, transactions, events and incidents.
THEOREM AuditedOnce == Spec => []AuditOnce
<1>1. Init => OnceInv
  <2>1. Init => DOMAIN log = {} /\ journal = NoJournal
    BY DEF Init
  <2> QED  BY <2>1, Zenon DEF OnceInv, Trailing
<1>2. TypeInv /\ TraceInv /\ OnceInv => AuditOnce
  <2> SUFFICES ASSUME TypeInv, TraceInv, OnceInv, NEW i \in DOMAIN log
               PROVE  log[i][2] \in 1 .. batch[log[i][1]]
    BY Zenon DEF AuditOnce, OnceInv
  <2>1. log[i][1] \in Txn /\ log[i][2] \in 1 .. MaxLogs /\ log[i][2] <= batch[log[i][1]]
    BY DEF TraceInv, Recorded, Event
  <2>2. batch[log[i][1]] \in 0 .. MaxLogs
    BY <2>1, Zenon DEF TypeInv, TypeOK, HistoryTypeOK
  <2> QED  BY <2>1, <2>2, StoreAssumption
<1> QED
  BY <1>1, <1>2, TypeInit, TypeStep, DurabilityInit, DurabilityStep,
     BackupsInit, BackupsStep, TraceInit, TraceStep, OnceStep, PTL DEF Spec

\* What ops.log holds stays there when something is appended.
LEMMA LoggedMore ==
    ASSUME TraceInv, NEW s \in Seq(Event), log' = log \o s, batch' = batch
    PROVE  \A t \in Txn : Logged(t) => Logged(t)'
<1>1. log \in Seq(Event)
  BY Zenon DEF TraceInv, Recorded
<1>2. \A i \in DOMAIN log : i \in DOMAIN log' /\ log'[i] = log[i]
  BY <1>1
<1> QED  BY <1>2, Zenon DEF Logged, Range

\* Once the missing events of the journal are appended, all its events are there.
LEMMA AppendedAll ==
    ASSUME TypeInv, TraceInv, DurabilityInv, journal \in Journal, UNCHANGED <<journal, batch>>,
           log' = log \o Missing(journal.logs)
    PROVE  Logged(journal.id)'
<1> DEFINE b == journal.logs
           m == Missing(b)
<1>1. PICK present : m = Without(b, present) /\ present \subseteq Range(log)
  BY Zenon DEF Missing, Recent, Range
<1>2. m \in Seq(Event) /\ \A i \in DOMAIN b : b[i] \in present \/ \E j \in DOMAIN m : m[j] = b[i]
  BY <1>1, WithoutEvents DEF Journal
<1>3. b = Batch(journal.id, batch[journal.id])
  BY Records, Zenon DEF TraceInv, DurabilityInv, HistoryInv, Batched
<1>4. ASSUME NEW i \in 1 .. batch[journal.id] PROVE i \in DOMAIN b /\ b[i] = <<journal.id, i>>
  BY <1>3, Zenon DEF Batch
<1>5. log \in Seq(Event) /\ log' = log \o m
  BY Zenon DEF TraceInv, Recorded
<1> HIDE DEF b, m
<1>6. /\ \A i \in DOMAIN log : i \in DOMAIN log' /\ log'[i] = log[i]
      /\ \A j \in DOMAIN m : Len(log) + j \in DOMAIN log' /\ log'[Len(log) + j] = m[j]
  BY <1>2, <1>5
<1>7. Range(log) \subseteq Range(log') /\ \A j \in DOMAIN m : m[j] \in Range(log')
  BY <1>6, Zenon DEF Range
<1>8. \A i \in 1 .. batch[journal.id] : <<journal.id, i>> \in Range(log')
  BY <1>1, <1>2, <1>4, <1>7, Zenon
<1> QED  BY <1>8, Zenon DEF Logged

\* A step of process p that loses no record and changes only what it may.
LEMMA CompleteBy ==
    ASSUME TypeInv, DurabilityInv, CompleteInv, outages = 0, resets = 0,
           NEW p \in Proc, NEW l, Goto(p, l),
           l \notin {"journal", "unlinkLog", "unlinkJournal", "unlinkBackups"},
           \A q \in Proc : op'[q] = op[q] \/ op'[q] # "reset",
           batch' = batch, \A t \in Txn : Logged(t) => Logged(t)',
           ledger' \in {ledger, journal.ledger},
           LatestBackup' = LatestBackup \/ (LatestBackup' = journal.ledger /\ pc[p] = "backup"),
           \/ journal' = journal
           \/ journal' = NoJournal /\ pc[p] = "clear"
           \/ journal' = hand[p] /\ pc[p] = "journal",
           \A t \in Txn : status'[t] \in {"ok", "warned"} =>
               status[t] \in {"ok", "warned"} \/ Logged(t)' \/ journal'.id = t,
           l \in {"backup", "clear"} => Logged(hand[p].id)',
           l = "recovered" => journal' = NoJournal \/ Logged(journal.id)',
           \A q \in Proc \ {p} : hand'[q] = hand[q]
    PROVE  CompleteInv'
<1>1. /\ \A t \in Txn : \/ t \in ledger.txns \cup journal.ledger.txns
                        \/ status[t] \in {"ok", "warned"}
                        => Logged(t) \/ journal.id = t
      /\ \A t \in Txn : t \in LatestBackup.txns => Logged(t)
      /\ \A q \in Proc : CompleteAt(q)
  BY Zenon DEF CompleteInv
<1>2. pc'[p] = l /\ \A q \in Proc \ {p} : pc'[q] = pc[q]
  BY Zenon DEF Goto, TypeInv, TypeOK, ProcsTypeOK
<1>3. /\ pc[p] \in {"backup", "clear"} => hand[p] = journal /\ Logged(journal.id)
      /\ pc[p] = "journal" => journal = NoJournal \/ Logged(journal.id)
      /\ NoJournal.ledger.txns \cap Txn = {} /\ NoJournal.id \notin Txn
  <2>1. NoJournal.ledger.txns \cap Txn = {} /\ NoJournal.id \notin Txn
    BY StoreAssumption, Zenon DEF NoJournal, NoLedger
  <2>2. pc[p] \in {"backup", "clear"} => hand[p] = journal
    BY Inside, Zenon DEF HandOK, Critical, Holding
  <2>3. CompleteAt(p)
    BY <1>1, Zenon
  <2> QED  BY <2>1, <2>2, <2>3, Zenon DEF CompleteAt
<1>4. ASSUME NEW t \in Txn, t \in ledger'.txns \cup journal'.ledger.txns \/ status'[t] \in {"ok", "warned"}
      PROVE  Logged(t)' \/ journal'.id = t
  <2>1. CASE t \in ledger.txns \cup journal.ledger.txns \/ status[t] \in {"ok", "warned"}
    <3>1. Logged(t) \/ journal.id = t
      BY <1>1, <2>1, Zenon
    <3>2. journal.id = t => Logged(t) \/ journal' = journal
      BY <1>3, Zenon
    <3> QED  BY <3>1, <3>2, Zenon
  <2>2. CASE t \in hand[p].ledger.txns /\ journal' = hand[p] /\ pc[p] = "journal"
    <3>1. CompleteAt(p)
      BY <1>1, Zenon
    <3> QED  BY <2>2, <3>1, Zenon DEF CompleteAt
  <2> QED  BY <1>3, <1>4, <2>1, <2>2, Zenon
<1>5. \A t \in Txn : t \in LatestBackup'.txns => Logged(t)'
  <2> SUFFICES ASSUME NEW t \in Txn, t \in LatestBackup'.txns PROVE Logged(t)'
    BY Zenon
  <2>1. Logged(t)
    BY <1>1, <1>3, Zenon
  <2> QED  BY <2>1, Zenon
<1>6. ASSUME NEW q \in Proc PROVE CompleteAt(q)'
  <2>1. CompleteAt(q)
    BY <1>1, Zenon
  <2>2. CASE q = p
    BY <1>2, <2>1, <2>2, Zenon DEF CompleteAt
  <2>3. CASE q # p
    <3>1. pc'[q] = pc[q] /\ hand'[q] = hand[q]
      BY <1>2, <2>3, Zenon
    <3>2. CASE pc[q] \notin Critical
      BY <2>1, <3>1, <3>2, Zenon DEF CompleteAt, Critical, Holding
    <3>3. CASE pc[q] \in Critical
      <4>1. pc[p] \notin Critical
        BY <2>3, <3>3, Inside, Zenon
      <4>2. journal' = journal
        BY <4>1, Zenon DEF Critical, Holding
      <4>3. (journal \in Journal \cup {NoJournal}) /\ hand[q] \in Journal \cup {NoJournal}
        BY Zenon DEF TypeInv, TypeOK, FilesTypeOK, ProcsTypeOK
      <4>4. ASSUME NEW j \in Journal \cup {NoJournal}, j = NoJournal \/ Logged(j.id) PROVE j = NoJournal \/ Logged(j.id)'
        BY <4>4, Records, Zenon
      <4>5. pc[q] \in {"recovered", "journal"} => journal' = NoJournal \/ Logged(journal.id)'
        BY <2>1, <4>2, <4>3, <4>4, Zenon DEF CompleteAt
      <4>6. pc[q] \in {"backup", "clear"} => Logged(hand[q].id)'
        <5>1. pc[q] \in {"backup", "clear"} => hand[q] # NoJournal
          BY <3>3, Inside, Records, Zenon DEF Critical, Holding
        <5> QED  BY <2>1, <3>1, <4>3, <4>4, <5>1, Zenon DEF CompleteAt
      <4> QED  BY <2>1, <3>1, <4>5, <4>6, Zenon DEF CompleteAt
    <3> QED  BY <3>2, <3>3, Zenon
  <2> QED  BY <2>2, <2>3, Zenon
<1> QED  BY <1>4, <1>5, <1>6, Zenon DEF CompleteInv

\* The steps of a call outside the lock, the reads and the writes of documents and
\* journals keep CompleteInv: they leave ops.log alone.
LEMMA CompleteQuiet ==
    ASSUME TypeInv, DurabilityInv, TraceInv, CompleteInv, outages = 0, resets = 0, NEW p \in Proc,
           \/ Begin(p) /\ UNCHANGED resets
           \/ Acquire(p) \/ LockTimeout(p) \/ RecoverFails(p) \/ Recovered(p) \/ Read(p) \/ LoadReturns(p)
           \/ ApplyLedger(p) \/ Backup(p) \/ WriteJournal(p) \/ (Mutate(p) /\ Return(p) /\ UNCHANGED <<status, batch>>)
    PROVE  CompleteInv'
<1> DEFINE Removing == {"unlinkLog", "unlinkJournal", "unlinkBackups"}
<1>1. ASSUME UNCHANGED <<log, batch>> PROVE \A t \in Txn : Logged(t) => Logged(t)'
  BY <1>1, Zenon DEF Logged
<1>2. CompleteAt(p) /\ op = [q \in Proc |-> op[q]] /\ hand = [q \in Proc |-> hand[q]]
  BY Zenon DEF CompleteInv, TypeInv, TypeOK, ProcsTypeOK
<1>3. ASSUME NEW l, l \notin {"journal"} \cup Removing, Goto(p, l),
             op' \in {op, [op EXCEPT ![p] = "none"], [op EXCEPT ![p] = "transaction"], [op EXCEPT ![p] = "load"]},
             hand' \in {hand, [hand EXCEPT ![p] = NoJournal], [hand EXCEPT ![p] = journal]},
             UNCHANGED <<log, batch, status>>, ledger' \in {ledger, journal.ledger},
             LatestBackup' = LatestBackup \/ (LatestBackup' = journal.ledger /\ pc[p] = "backup"),
             journal' = journal \/ (journal' = hand[p] /\ pc[p] = "journal"),
             l \in {"backup", "clear"} => hand' = hand /\ pc[p] = "backup",
             l = "recovered" => journal' = NoJournal
      PROVE  CompleteInv'
  <2>1. \A q \in Proc : op'[q] = op[q] \/ op'[q] # "reset"
    BY <1>2, <1>3, Zenon
  <2>2. \A q \in Proc \ {p} : hand'[q] = hand[q]
    BY <1>2, <1>3, Zenon
  <2>3. l \in {"backup", "clear"} => Logged(hand[p].id)'
    BY <1>2, <1>3, Zenon DEF CompleteAt, Logged
  <2>4. \A t \in Txn : Logged(t) => Logged(t)'
    BY <1>1, <1>3, Zenon
  <2> HIDE DEF Removing
  <2> QED  BY <1>3, <2>1, <2>2, <2>3, <2>4, CompleteBy, Zenon DEF Removing
<1>4. CASE Begin(p) /\ UNCHANGED resets
  <2>1. resets \in Nat
    BY Zenon DEF TypeInv, TypeOK, HistoryTypeOK
  <2>2. \E l \in {"lock", "read"} : Goto(p, l)
    BY <1>4, Zenon DEF Begin, LoadEntry
  <2>3. /\ op' \in {[op EXCEPT ![p] = "transaction"], [op EXCEPT ![p] = "load"]}
        /\ UNCHANGED <<ledger, journal, log, backups, hand, batch, status>>
    BY <1>4, <2>1 DEF Begin, files, history
  <2> QED  BY <1>3, <2>2, <2>3, Zenon DEF LatestBackup
<1>5. CASE Acquire(p)
  <2>1. (Goto(p, "recovered") /\ UNCHANGED hand /\ journal = NoJournal)
        \/ (Goto(p, "ledger") /\ hand' = [hand EXCEPT ![p] = journal])
    BY <1>5, Zenon DEF Acquire
  <2>2. UNCHANGED <<ledger, journal, log, backups, op, batch, status>>
    BY <1>5, Zenon DEF Acquire, files, history
  <2> QED  BY <1>3, <2>1, <2>2, Zenon DEF LatestBackup
<1>6. CASE LockTimeout(p) \/ RecoverFails(p) \/ Recovered(p) \/ Read(p) \/ LoadReturns(p)
  <2>1. \E l \in {"idle", "read", "loaded"} : Goto(p, l)
    BY <1>6, Zenon DEF LockTimeout, RecoverFails, Recovered, Read, LoadReturns
  <2>2. op' \in {op, [op EXCEPT ![p] = "none"]} /\ UNCHANGED <<ledger, journal, log, backups, hand, batch, status>>
    BY <1>6, Zenon DEF LockTimeout, RecoverFails, Recovered, Read, LoadReturns, files, history
  <2> QED  BY <1>3, <2>1, <2>2, Zenon DEF LatestBackup
<1>7. CASE ApplyLedger(p)
  <2>1. pc[p] = "ledger" /\ Goto(p, "log") /\ UNCHANGED <<log, backups, op, hand, batch, status>>
    BY <1>7, Zenon DEF ApplyLedger, At, history
  <2>2. hand[p] = journal
    BY <2>1, Inside, Zenon DEF HandOK, Critical, Holding
  <2>3. UNCHANGED journal /\ ledger' \in {ledger, hand[p].ledger}
    BY <1>7, Zenon DEF ApplyLedger
  <2> QED  BY <1>3, <2>1, <2>2, <2>3, Zenon DEF LatestBackup
<1>8. CASE Backup(p)
  <2>1. pc[p] = "backup" /\ Goto(p, "clear") /\ UNCHANGED <<ledger, journal, log, op, hand, batch, status>>
    BY <1>8, Zenon DEF Backup, At, history
  <2>2. hand[p] = journal /\ hand[p].ledger \in Ledger
    BY <2>1, Inside, Records, Zenon DEF HandOK, Critical, Holding, TypeInv, HandInv
  <2>3. LatestBackup' = LatestBackup \/ LatestBackup' = journal.ledger
    BY <1>8, <2>2, BackupOutcome, Zenon
  <2> QED  BY <1>3, <2>1, <2>2, <2>3, Zenon
<1>9. CASE WriteJournal(p)
  <2>1. /\ pc[p] = "journal" /\ Goto(p, "ledger") /\ journal' = hand[p]
        /\ UNCHANGED <<ledger, log, backups, op, hand, batch, status>>
    BY <1>9, Zenon DEF WriteJournal, At, history
  <2> QED  BY <1>3, <2>1, Zenon DEF LatestBackup
<1>10. CASE Mutate(p) /\ Return(p) /\ UNCHANGED <<status, batch>>
  <2>1. UNCHANGED <<ledger, journal, log, backups>>
    BY <1>10, Zenon DEF Mutate, files
  <2>2. Goto(p, "idle") /\ op' = [op EXCEPT ![p] = "none"] /\ hand' = [hand EXCEPT ![p] = NoJournal]
    BY <1>10, Zenon DEF Return
  <2> QED  BY <1>3, <1>10, <2>1, <2>2, Zenon DEF LatestBackup
<1> QED  BY <1>4, <1>5, <1>6, <1>7, <1>8, <1>9, <1>10, Zenon

\* The steps that append, clear the journal, report or die keep CompleteInv.
LEMMA CompleteApply ==
    ASSUME TypeInv, DurabilityInv, TraceInv, CompleteInv, outages = 0, resets = 0, NEW p \in Proc,
           \/ ApplyLedgerFails(p) \/ AppendLogs(p) \/ AppendLogsFails(p) \/ ClearJournal(p)
           \/ WriteJournalFails(p) \/ Reread(p) \/ Crash(p)
    PROVE  CompleteInv'
<1>1. CompleteAt(p) /\ op = [q \in Proc |-> op[q]] /\ hand = [q \in Proc |-> hand[q]]
  BY Zenon DEF CompleteInv, TypeInv, TypeOK, ProcsTypeOK
<1>2. ASSUME UNCHANGED <<log, batch>> PROVE \A t \in Txn : Logged(t) => Logged(t)'
  BY <1>2, Zenon DEF Logged
<1>3. ASSUME pc[p] \in Holding, NEW m, m = Missing(hand[p].logs), hand[p] = journal, UNCHANGED batch, PartialAppend(p)
      PROVE  \A t \in Txn : Logged(t) => Logged(t)'
  <2>1. journal \in Journal
    BY <1>3, Inside, Zenon DEF Critical
  <2>2. PICK k \in 0 .. Len(m) : log' = log \o SubSeq(m, 1, k)
    BY <1>3, Zenon DEF PartialAppend
  <2>3. m \in Seq(Event)
    BY <1>3, <2>1, <2>2, CarriedMore, Zenon
  <2>4. SubSeq(m, 1, k) \in Seq(Event)
    BY <2>2, <2>3
  <2> QED  BY <1>3, <2>2, <2>4, LoggedMore, Zenon
<1>4. ASSUME Return(p), batch' = batch, \A t \in Txn : Logged(t) => Logged(t)',
             ledger' \in {ledger, journal.ledger}, UNCHANGED backups,
             \/ journal' = journal
             \/ journal' = NoJournal /\ pc[p] = "clear"
             \/ journal' = hand[p] /\ pc[p] = "journal",
             \A t \in Txn : status'[t] \in {"ok", "warned"} =>
                 status[t] \in {"ok", "warned"} \/ Logged(t)' \/ journal'.id = t
      PROVE  CompleteInv'
  <2>1. /\ \A q \in Proc : op'[q] = op[q] \/ op'[q] # "reset"
        /\ \A q \in Proc \ {p} : hand'[q] = hand[q]
        /\ Goto(p, "idle") /\ LatestBackup' = LatestBackup
    BY <1>1, <1>4, Zenon DEF Return, LatestBackup
  <2> QED  BY <1>4, <2>1, CompleteBy, Zenon
<1>5. ASSUME NEW o, NEW h, h = hand[p].id, Report(p, o), NEW t \in Txn, status'[t] \in {"ok", "warned"}
      PROVE  status[t] \in {"ok", "warned"} \/ (t = h /\ o \in {"ok", "warned"})
  BY <1>5, Zenon DEF Report, TypeInv, TypeOK, HistoryTypeOK
<1>6. ASSUME pc[p] \in Holding \ {"journal"}, ApplyFailed(p), UNCHANGED journal
      PROVE  /\ Return(p) /\ batch' = batch
             /\ \A t \in Txn : status'[t] \in {"ok", "warned"} => status[t] \in {"ok", "warned"} \/ journal'.id = t
  <2>1. hand[p] = journal
    BY <1>6, Inside, Zenon DEF HandOK, Critical
  <2> QED  BY <1>5, <1>6, <2>1, Zenon DEF ApplyFailed
<1>7. CASE ApplyLedgerFails(p)
  <2>1. pc[p] = "ledger" /\ ApplyFailed(p) /\ ledger' \in {ledger, hand[p].ledger} /\ UNCHANGED <<journal, log, backups>>
    BY <1>7, Zenon DEF ApplyLedgerFails, At
  <2>2. hand[p] = journal
    BY <2>1, Inside, Zenon DEF HandOK, Critical, Holding
  <2> QED  BY <1>2, <1>4, <1>6, <2>1, <2>2, Zenon DEF Holding
<1>8. CASE AppendLogs(p)
  <2>1. pc[p] = "log" /\ UNCHANGED <<ledger, journal, backups, op, hand, batch, status>> /\ Goto(p, AfterLogs(p))
    BY <1>8, Zenon DEF AppendLogs, At, history
  <2>2. hand[p] = journal /\ journal \in Journal
    BY <2>1, Inside, Zenon DEF HandOK, Critical, Holding
  <2>3. PICK m : m = Missing(journal.logs)
    BY Zenon
  <2>4. m \in Seq(Event) /\ log \in Seq(Event)
    <3>1. PICK present : m = Without(journal.logs, present)
      BY <2>3, Zenon DEF Missing
    <3> QED  BY <2>2, <3>1, WithoutEvents, Zenon DEF Journal, TraceInv, Recorded
  <2>5. log' = log \o m
    <3>1. CASE m = <<>>
      BY <1>8, <2>2, <2>3, <2>4, <3>1 DEF AppendLogs
    <3>2. CASE m # <<>>
      BY <1>8, <2>2, <2>3, <3>2, Zenon DEF AppendLogs
    <3> QED  BY <3>1, <3>2, Zenon
  <2>6. Logged(journal.id)' /\ \A t \in Txn : Logged(t) => Logged(t)'
    BY <2>1, <2>2, <2>3, <2>4, <2>5, AppendedAll, LoggedMore, Zenon
  <2>7. hand'[p] = journal'
    BY <2>1, <2>2, Zenon
  <2>8. Logged(hand[p].id)'
    BY <2>6, <2>7, Zenon
  <2>9. AfterLogs(p) \in {"backup", "clear"} /\ LatestBackup' = LatestBackup
    BY <2>1, Zenon DEF AfterLogs, LatestBackup
  <2>10. PICK l \in {"backup", "clear"} : l = AfterLogs(p)
    BY <2>9, Zenon
  <2> QED  BY <2>1, <2>6, <2>8, <2>9, <2>10, CompleteBy, Zenon
<1>9. CASE AppendLogsFails(p)
  <2>1. /\ pc[p] = "log" /\ ApplyFailed(p) /\ UNCHANGED <<ledger, journal, backups>>
        /\ UNCHANGED log \/ PartialAppend(p)
    BY <1>9, Zenon DEF AppendLogsFails, At
  <2>2. hand[p] = journal /\ UNCHANGED batch
    BY <2>1, Inside, Zenon DEF HandOK, Critical, Holding, ApplyFailed
  <2>3. \A t \in Txn : Logged(t) => Logged(t)'
    BY <1>2, <1>3, <2>1, <2>2, Zenon DEF Holding
  <2> QED  BY <1>4, <1>6, <2>1, <2>3, Zenon DEF Holding
<1>10. CASE ClearJournal(p)
  <2>1. /\ pc[p] = "clear" /\ UNCHANGED <<ledger, log, backups, batch>>
        /\ journal' \in {journal, NoJournal}
    BY <1>10, Zenon DEF ClearJournal, At
  <2>2. hand[p] = journal /\ journal \in Journal /\ Logged(journal.id)
    BY <1>1, <2>1, Inside, Zenon DEF HandOK, Critical, Holding, CompleteAt
  <2>3. PICK h \in Txn : h = journal.id
    BY <2>2, Records, Zenon
  <2>4. Logged(h)' /\ \A t \in Txn : Logged(t) => Logged(t)'
    BY <1>2, <2>1, <2>2, <2>3, Zenon
  <2>5. CASE Own(p)
    <3>1. Return(p) /\ Report(p, "ok")
      BY <1>10, <2>5, Zenon DEF ClearJournal
    <3>2. \A t \in Txn : status'[t] \in {"ok", "warned"} => status[t] \in {"ok", "warned"} \/ Logged(t)'
      BY <1>5, <2>2, <2>3, <2>4, <3>1, Zenon
    <3> QED  BY <1>4, <2>1, <2>4, <3>1, <3>2, Zenon
  <2>6. CASE ~Own(p)
    <3>1. Goto(p, "recovered") /\ hand' = [hand EXCEPT ![p] = NoJournal] /\ UNCHANGED <<op, status>>
      BY <1>10, <2>6, Zenon DEF ClearJournal
    <3>2. journal' = NoJournal \/ Logged(journal.id)'
      BY <2>1, <2>3, <2>4, Zenon
    <3>3. LatestBackup' = LatestBackup /\ \A q \in Proc \ {p} : hand'[q] = hand[q]
      BY <1>1, <2>1, <3>1, Zenon DEF LatestBackup
    <3> QED  BY <2>1, <2>4, <3>1, <3>2, <3>3, CompleteBy, Zenon
  <2> QED  BY <2>5, <2>6, Zenon
<1>11. CASE WriteJournalFails(p)
  <2>1. pc[p] = "journal" /\ UNCHANGED <<ledger, log, backups, batch>>
    BY <1>11, Zenon DEF WriteJournalFails, At
  <2>2. CASE Return(p) /\ Report(p, "error") /\ UNCHANGED journal
    <3>1. \A t \in Txn : status'[t] \in {"ok", "warned"} => status[t] \in {"ok", "warned"}
      BY <1>5, <2>2, Zenon
    <3> QED  BY <1>2, <1>4, <2>1, <2>2, <3>1, Zenon
  <2>3. CASE journal' = hand[p] /\ Goto(p, "reread") /\ UNCHANGED <<op, hand, status>>
    <3>1. LatestBackup' = LatestBackup /\ \A t \in Txn : Logged(t) => Logged(t)'
      BY <1>2, <2>1, Zenon DEF LatestBackup
    <3> QED  BY <2>1, <2>3, <3>1, CompleteBy, Zenon
  <2> QED  BY <1>11, <2>2, <2>3, Zenon DEF WriteJournalFails
<1>12. CASE Reread(p)
  <2>1. /\ pc[p] = "reread" /\ UNCHANGED <<ledger, journal, log, backups, batch>> /\ Return(p)
        /\ \E o : Report(p, o)
    BY <1>12, Zenon DEF Reread, At, files
  <2>2. hand[p] = journal
    BY <2>1, Inside, Zenon DEF HandOK, Critical, Holding
  <2>3. \A t \in Txn : status'[t] \in {"ok", "warned"} => status[t] \in {"ok", "warned"} \/ journal'.id = t
    BY <1>5, <2>1, <2>2, Zenon
  <2> QED  BY <1>2, <1>4, <2>1, <2>3, Zenon
<1>13. CASE Crash(p)
  <2>1. Return(p) /\ UNCHANGED <<backups, batch>> /\ Abandon({p}, {})
    BY <1>13, Zenon DEF Crash, files
  <2>2. \A t \in Txn : status'[t] \in {"ok", "warned"} => status[t] \in {"ok", "warned"}
    BY <2>1, Zenon DEF Abandon
  <2>3. pc[p] \in {"ledger", "log", "clear"} => hand[p] = journal
    BY Inside, Zenon DEF HandOK, Critical, Holding
  <2>4. \/ UNCHANGED <<ledger, journal, log>>
        \/ pc[p] = "journal" /\ journal' = hand[p] /\ UNCHANGED <<ledger, log>>
        \/ pc[p] = "ledger" /\ ledger' = hand[p].ledger /\ UNCHANGED <<journal, log>>
        \/ pc[p] = "log" /\ PartialAppend(p) /\ UNCHANGED <<ledger, journal>>
        \/ pc[p] = "clear" /\ journal' = NoJournal /\ UNCHANGED <<ledger, log>>
    BY <1>13, Zenon DEF Crash, At, files
  <2>5. \A t \in Txn : Logged(t) => Logged(t)'
    BY <1>2, <1>3, <2>1, <2>3, <2>4, Zenon DEF Holding
  <2> QED  BY <1>4, <2>1, <2>2, <2>3, <2>4, <2>5, Zenon
<1> QED  BY <1>7, <1>8, <1>9, <1>10, <1>11, <1>12, <1>13, Zenon

\* A transaction that is being prepared has no record yet, and its document holds
\* only transactions whose events are in ops.log.
LEMMA CompletePrepare ==
    ASSUME TypeInv, DurabilityInv, TraceInv, CompleteInv, outages = 0, resets = 0, NEW p \in Proc, Mutate(p)
    PROVE  CompleteInv'
<1>1. pc[p] = "recovered" /\ UNCHANGED <<ledger, journal, log, backups>>
  BY Zenon DEF Mutate, At, files
<1>2. /\ hand[p] = NoJournal /\ \A q \in Proc \ {p} : pc[q] \notin Critical
  BY <1>1, Inside, Zenon DEF Critical, Holding
<1>3. ASSUME NEW v \in {ledger, LatestBackup}, NEW u \in Txn, NEW changed \in BOOLEAN, NEW n \in 0 .. MaxLogs,
             Prepare(p, v, u, changed, n)
      PROVE  CompleteInv'
  <2> DEFINE d == IF changed THEN [last |-> u, txns |-> v.txns \cup {u}] ELSE NoLedger
             h == [id |-> u, ledger |-> d, logs |-> [i \in 1 .. n |-> <<u, i>>]]
  <2>1. /\ status[u] = "new" /\ hand' = [hand EXCEPT ![p] = h]
        /\ status' = [status EXCEPT ![u] = "open"] /\ batch' = [batch EXCEPT ![u] = n]
        /\ Goto(p, "journal") /\ UNCHANGED op
    BY <1>3, Zenon DEF Prepare
  <2>2. h.id = u /\ h.ledger = d /\ \A t \in Txn : t \in d.txns => t = u \/ t \in v.txns
    BY StoreAssumption, Zenon DEF NoLedger
  <2> HIDE DEF d, h
  <2>3. /\ \A t \in Txn : status'[t] = IF t = u THEN "open" ELSE status[t]
        /\ \A t \in Txn : t # u => batch'[t] = batch[t]
        /\ pc'[p] = "journal" /\ hand'[p] = h
        /\ \A q \in Proc \ {p} : pc'[q] = pc[q]
    BY <2>1, Zenon DEF Goto, TypeInv, TypeOK, HistoryTypeOK, ProcsTypeOK
  <2>4. <<ledger, journal>> \in survivors /\ Absent(u)
    BY <2>1, Zenon DEF Withheld, TraceInv, DurabilityInv, HistoryInv
  <2>5. u \notin ledger.txns \cup journal.ledger.txns \cup LatestBackup.txns /\ journal.id # u
    BY <2>4, NotNewest, Zenon DEF Absent
  <2>6. /\ \A t \in Txn : \/ t \in ledger.txns \cup journal.ledger.txns
                          \/ status[t] \in {"ok", "warned"}
                          => Logged(t) \/ journal.id = t
        /\ \A t \in Txn : t \in LatestBackup.txns => Logged(t)
        /\ \A q \in Proc : CompleteAt(q)
    BY Zenon DEF CompleteInv
  <2>7. \A t \in Txn : t # u /\ Logged(t) => Logged(t)'
    BY <1>1, <2>3, Zenon DEF Logged
  <2>8. LatestBackup' = LatestBackup /\ journal \in Journal \cup {NoJournal}
    BY <1>1, Zenon DEF LatestBackup, TypeInv, TypeOK, FilesTypeOK
  <2>9. \A t \in Txn : t = journal.id => Logged(t)
    <3>1. CompleteAt(p)
      BY <2>6, Zenon
    <3> QED  BY <1>1, <2>8, <3>1, Records, StoreAssumption, Zenon DEF CompleteAt
  <2>10. \A t \in Txn : \/ t \in ledger'.txns \cup journal'.ledger.txns
                        \/ status'[t] \in {"ok", "warned"}
                        => Logged(t)' \/ journal'.id = t
    BY <1>1, <2>3, <2>5, <2>6, <2>7, Zenon
  <2>11. \A t \in Txn : t \in LatestBackup'.txns => Logged(t)'
    BY <2>5, <2>6, <2>7, <2>8, Zenon
  <2>12. CompleteAt(p)'
    <3>1. op'[p] # "reset"
      BY <2>1, <2>6, Zenon DEF CompleteAt
    <3>2. journal' = NoJournal \/ Logged(journal.id)'
      <4>1. CASE journal = NoJournal
        BY <1>1, <4>1, Zenon
      <4>2. CASE journal \in Journal
        <5>1. PICK t \in Txn : t = journal.id
          BY <4>2, Records, Zenon
        <5>2. Logged(t)'
          BY <2>5, <2>7, <2>9, <5>1, Zenon
        <5> QED  BY <1>1, <5>1, <5>2, Zenon
      <4> QED  BY <2>8, <4>1, <4>2, Zenon
    <3>3. \A t \in Txn : t \in v.txns => Logged(t)' /\ t # u
      BY <2>5, <2>6, <2>7, <2>9, Zenon
    <3>4. \A t \in Txn : t \in hand'[p].ledger.txns => Logged(t)' \/ hand'[p].id = t
      BY <2>2, <2>3, <3>3, Zenon
    <3> QED  BY <2>3, <3>1, <3>2, <3>4, Zenon DEF CompleteAt
  <2>13. ASSUME NEW q \in Proc, q # p PROVE CompleteAt(q)'
    <3>1. pc'[q] = pc[q] /\ pc[q] \notin Critical /\ op'[q] # "reset"
      BY <1>2, <2>1, <2>3, <2>6, <2>13, Zenon DEF CompleteAt
    <3> QED  BY <3>1, Zenon DEF CompleteAt, Critical, Holding
  <2> QED  BY <2>10, <2>11, <2>12, <2>13, Zenon DEF CompleteInv
<1>4. CASE Return(p) /\ UNCHANGED <<status, batch>>
  BY <1>4, CompleteQuiet, Zenon
<1> QED  BY <1>3, <1>4, Zenon DEF Mutate

\* Every step of the store keeps CompleteInv.
LEMMA CompleteStep == TypeInv /\ DurabilityInv /\ TraceInv /\ CompleteInv /\ [Next]_vars => CompleteInv'
<1>1. SUFFICES ASSUME TypeInv, DurabilityInv, TraceInv, CompleteInv, [Next]_vars, outages' = 0, resets' = 0
               PROVE  CompleteInv'
  BY Zenon DEF CompleteInv
<1>2. outages \in Nat /\ resets \in Nat
  BY <1>1, Zenon DEF TypeInv, TypeOK, HistoryTypeOK
<1>3. ASSUME NEW p \in Proc, Step(p) PROVE outages' = outages /\ resets' \in {resets, resets + 1}
  <2>1. CASE Begin(p)
    BY <2>1, Zenon DEF Begin
  <2>2. CASE \/ Acquire(p) \/ LockTimeout(p) \/ RecoverFails(p) \/ ApplyLedger(p) \/ ApplyLedgerFails(p)
            \/ AppendLogs(p) \/ AppendLogsFails(p)
    BY <2>2, Zenon DEF Acquire, LockTimeout, RecoverFails, ApplyLedger, ApplyLedgerFails, AppendLogs,
                      AppendLogsFails, bounds, env
  <2>3. CASE Backup(p) \/ ClearJournal(p) \/ Mutate(p) \/ WriteJournal(p) \/ WriteJournalFails(p) \/ Reread(p)
    BY <2>3, Zenon DEF Backup, ClearJournal, Mutate, WriteJournal, WriteJournalFails, Reread, bounds, env
  <2>4. CASE Recovered(p) \/ Read(p) \/ LoadReturns(p) \/ ResetFails(p) \/ ResetLedger(p) \/ ResetLog(p)
    BY <2>4, Zenon DEF Recovered, Read, LoadReturns, ResetFails, ResetLedger, ResetLog, bounds, env
  <2>5. CASE ResetJournal(p) \/ ResetBackups(p) \/ Crash(p)
    BY <2>5, Zenon DEF ResetJournal, ResetBackups, Crash, bounds, env
  <2> QED  BY <1>3, <2>1, <2>2, <2>3, <2>4, <2>5, Zenon DEF Step
<1>4. ASSUME NEW p \in Proc, Step(p) PROVE CompleteInv'
  <2>1. outages = 0 /\ resets = 0 /\ UNCHANGED resets
    BY <1>1, <1>2, <1>3, <1>4
  <2>2. CompleteAt(p)
    BY <1>1, <2>1, Zenon DEF CompleteInv
  <2>3. ~(ResetFails(p) \/ ResetLedger(p) \/ ResetLog(p) \/ ResetJournal(p) \/ ResetBackups(p))
    BY <2>2, Zenon DEF CompleteAt, ResetFails, ResetLedger, ResetLog, ResetJournal, ResetBackups, At
  <2> QED  BY <1>1, <1>4, <2>1, <2>3, CompleteQuiet, CompleteApply, CompletePrepare, Zenon DEF Step
<1>5. CASE PowerLoss
  BY <1>1, <1>2, <1>5 DEF PowerLoss
<1>6. CASE Damage
  <2>1. /\ ledger' = NoLedger /\ LatestBackup' = LatestBackup
        /\ UNCHANGED <<journal, log, pc, op, hand, status, batch, outages, resets>>
    BY <1>6, Zenon DEF Damage, LatestBackup, procs, history, env
  <2>2. (\A t \in Txn : t \notin NoLedger.txns) /\ \A t \in Txn : Logged(t)' <=> Logged(t)
    BY <2>1, StoreAssumption, Zenon DEF NoLedger, Logged
  <2>3. \A p \in Proc : CompleteAt(p)' <=> CompleteAt(p)
    BY <2>1, Zenon DEF CompleteAt, Logged
  <2> QED  BY <1>1, <2>1, <2>2, <2>3, Zenon DEF CompleteInv
<1>7. CASE UNCHANGED vars
  <2>1. UNCHANGED <<ledger, journal, log, backups, pc, op, hand, status, batch, outages, resets>>
    BY <1>7, Zenon DEF vars, files, procs, history, bounds, env
  <2> QED  BY <1>1, <2>1, Zenon DEF CompleteInv, CompleteAt, Logged, LatestBackup
<1> QED  BY <1>1, <1>4, <1>5, <1>6, <1>7, Zenon DEF Next

\* As long as the power has not failed and nobody called reset(), kills, failed I/O
\* and replays of the journal leave no accepted transaction without its audit events;
\* for every number of processes, transactions, events and incidents.
THEOREM AuditedCompletely == Spec => []AuditCompleteWhilePowered
<1>1. Init => CompleteInv
  <2> SUFFICES ASSUME Init PROVE CompleteInv
    BY Zenon
  <2>0. ledger = EmptyLedger /\ journal = NoJournal /\ backups = <<>>
    BY Zenon DEF Init
  <2>1. ledger.txns = {} /\ \A t \in Txn : t \notin journal.ledger.txns /\ t \notin LatestBackup.txns
    <3>1. LatestBackup = NoLedger
      BY <2>0, Zenon DEF LatestBackup
    <3>2. NoLedger.txns = {None} /\ None \notin Txn
      BY StoreAssumption, Zenon DEF NoLedger
    <3> QED  BY <2>0, <3>1, <3>2, Records, Zenon
  <2>2. (\A t \in Txn : status[t] = "new") /\ \A p \in Proc : pc[p] = "idle" /\ op[p] = "none"
    BY Zenon DEF Init
  <2> QED  BY <2>1, <2>2, Zenon DEF CompleteInv, CompleteAt
<1>2. CompleteInv => AuditCompleteWhilePowered
  <2> SUFFICES ASSUME CompleteInv, outages = 0, resets = 0, NEW t \in Txn, journal.id # t,
                      t \in Current.txns \/ status[t] \in {"ok", "warned"}
               PROVE  Logged(t)
    BY Zenon DEF AuditCompleteWhilePowered, AuditComplete, Logged
  <2> QED  BY Zenon DEF CompleteInv, Current
<1> QED
  BY <1>1, <1>2, TypeInit, TypeStep, DurabilityInit, DurabilityStep,
     BackupsInit, BackupsStep, TraceInit, TraceStep, CompleteStep, PTL DEF Spec
=============================================================================
