--------------------------- MODULE MetricsProofs ----------------------------
(***************************************************************************)
(* Proofs about Metrics, for every window size, cap and number of          *)
(* handlers and writers: the ring with its wrapping position implements a  *)
(* sliding window, every request has one outcome, trimming a history loses *)
(* nothing recent, percentiles split the samples and the trend is their    *)
(* mean rise.  What sorting and summing yield for every number of samples  *)
(* is shown by induction over sets of naturals, which have least elements. *)
(***************************************************************************)
EXTENDS Metrics, FiniteSetTheorems, SequenceTheorems, WellFoundedInduction, TLAPS

Rings(size) == [data : [0..(size - 1) -> Nat], pos : 0..(size - 1), full : BOOLEAN]

\* The entries of s are the numbers of the latest of count appends, in order.
Suffix(s, count) ==
    /\ s \in Seq(Nat) /\ Len(s) <= Cap /\ Len(s) <= count
    /\ Len(s) >= Keep \/ Len(s) = count
    /\ \A i \in 1..Len(s) : s[i] = count - Len(s) + i

Ledger == OutcomeLedger /\ IsFiniteSet(Active) /\ totalErrors \in Nat

Windows == latency \in Rings(LatencySize) /\ rps \in Rings(RPSSize)

Histories == Suffix(completed, ended) /\ Suffix(events, notified) /\ Suffix(verbose, logged)

IInv == TypeOK /\ Ledger /\ Windows /\ Histories

-----------------------------------------------------------------------------
(* Rings.                                                                  *)

\* What % is on positions of a ring that were moved by less than its size.
LEMMA Modulo ==
    ASSUME NEW n \in Nat \ {0}, NEW x \in Nat, x < 2 * n
    PROVE  (x < n => x % n = x) /\ (x >= n => x % n = x - n)
  OBVIOUS

LEMMA FunctionIsSeq ==
    ASSUME NEW m \in Nat, NEW f \in [1..m -> Nat]
    PROVE  f \in Seq(Nat) /\ Len(f) = m
  OBVIOUS

LEMMA RingSize ==
    ASSUME NEW n \in Nat \ {0}, NEW w \in Rings(n)
    PROVE  SizeOf(w) = n
  <1>1. DOMAIN w.data = 0..(n - 1)
    BY DEF Rings
  <1>2. Cardinality(0..(n - 1)) = n
    <2>1. 0 \in Int /\ n - 1 \in Int /\ ~(0 > n - 1) /\ (n - 1) - 0 + 1 = n
      OBVIOUS
    <2> QED
      BY <2>1, FS_Interval
  <1> QED
    BY <1>1, <1>2 DEF SizeOf

\* RollingWindow.Add keeps the ring well formed.
LEMMA AddToFacts ==
    ASSUME NEW n \in Nat \ {0}, NEW w \in Rings(n), NEW v \in Nat
    PROVE  /\ AddTo(w, v) \in Rings(n)
           /\ AddTo(w, v).data = [w.data EXCEPT ![w.pos] = v]
           /\ w.pos + 1 < n => AddTo(w, v).pos = w.pos + 1 /\ (AddTo(w, v).full <=> w.full)
           /\ w.pos + 1 = n => AddTo(w, v).pos = 0 /\ AddTo(w, v).full
  <1>1. /\ w.data \in [0..(n - 1) -> Nat] /\ w.pos \in 0..(n - 1) /\ w.full \in BOOLEAN
        /\ w.pos \in Int
    BY DEF Rings
  <1> DEFINE d == [w.data EXCEPT ![w.pos] = v]
             wraps == w.pos + 1 >= n
             p == IF wraps THEN 0 ELSE w.pos + 1
             f == w.full \/ wraps
  <1>2. AddTo(w, v) = [data |-> d, pos |-> p, full |-> f]
    BY RingSize DEF AddTo
  <1>3. d \in [0..(n - 1) -> Nat]
    BY <1>1
  <1>4. p \in 0..(n - 1) /\ f \in BOOLEAN
    BY <1>1
  <1>5. w.pos + 1 < n => ~wraps
    BY <1>1
  <1>6. w.pos + 1 = n => wraps
    BY <1>1
  <1>7. ~wraps => p = w.pos + 1 /\ (f <=> w.full)
    BY <1>1
  <1>8. wraps => p = 0 /\ f
    BY <1>1
  <1> HIDE DEF d, wraps, p, f
  <1>9. AddTo(w, v) \in Rings(n)
    BY <1>2, <1>3, <1>4 DEF Rings
  <1>10. AddTo(w, v).data = d /\ AddTo(w, v).pos = p /\ AddTo(w, v).full = f
    BY <1>2
  <1> QED
    BY <1>5, <1>6, <1>7, <1>8, <1>9, <1>10 DEF d

\* RollingWindow.Values: as many samples as were added, at most the size.
LEMMA ValuesFacts ==
    ASSUME NEW n \in Nat \ {0}, NEW w \in Rings(n)
    PROVE  /\ Values(w) \in Seq(Nat)
           /\ w.full => /\ Len(Values(w)) = n
                        /\ \A i \in 1..n :
                             /\ w.pos + i - 1 < n => Values(w)[i] = w.data[w.pos + i - 1]
                             /\ w.pos + i - 1 >= n => Values(w)[i] = w.data[w.pos + i - 1 - n]
           /\ ~w.full => /\ Len(Values(w)) = w.pos
                         /\ \A i \in 1..w.pos : Values(w)[i] = w.data[i - 1]
  <1>1. /\ w.data \in [0..(n - 1) -> Nat] /\ w.pos \in 0..(n - 1) /\ w.full \in BOOLEAN
        /\ w.pos \in Nat
    BY DEF Rings
  <1>2. CASE w.full
    <2> DEFINE At(i) == (w.pos + i - 1) % n
    <2>1. Values(w) = [i \in 1..n |-> w.data[At(i)]]
      BY <1>2, RingSize DEF Values, WindowLen
    <2>2. ASSUME NEW i \in 1..n
          PROVE  /\ w.pos + i - 1 < n => At(i) = w.pos + i - 1
                 /\ w.pos + i - 1 >= n => At(i) = w.pos + i - 1 - n
                 /\ At(i) \in 0..(n - 1)
      <3>1. PICK x \in Nat : x = w.pos + i - 1 /\ x < 2 * n
        BY <1>1
      <3>2. (x < n => x % n = x) /\ (x >= n => x % n = x - n)
        BY <3>1, Modulo
      <3>3. At(i) = x % n
        BY <3>1, Zenon
      <3> HIDE DEF At
      <3>4. (x < n => At(i) = x) /\ (x >= n => At(i) = x - n)
        BY <3>2, <3>3, Zenon
      <3> QED
        BY <1>1, <3>1, <3>4
    <2> HIDE DEF At
    <2>3. \A i \in 1..n : Values(w)[i] = w.data[At(i)] /\ Values(w)[i] \in Nat
      BY <1>1, <2>1, <2>2
    <2>4. Values(w) \in Seq(Nat) /\ Len(Values(w)) = n
      <3>1. Values(w) \in [1..n -> Nat]
        BY <2>1, <2>3
      <3> QED
        BY <3>1, FunctionIsSeq
    <2> QED
      BY <1>2, <2>2, <2>3, <2>4
  <1>3. CASE ~w.full
    <2>1. Values(w) = [i \in 1..w.pos |-> w.data[i - 1]]
      BY <1>3 DEF Values, WindowLen
    <2>2. \A i \in 1..w.pos : w.data[i - 1] \in Nat
      BY <1>1
    <2>3. Values(w) \in Seq(Nat) /\ Len(Values(w)) = w.pos
      <3>1. Values(w) \in [1..w.pos -> Nat]
        BY <2>1, <2>2
      <3> QED
        BY <1>1, <3>1, FunctionIsSeq
    <2> QED
      BY <1>3, <2>1, <2>3
  <1> QED
    BY <1>2, <1>3

\* Adding to the ring is appending to the window and keeping its end.
LEMMA RingSlides ==
    ASSUME NEW w \in Rings(LatencySize), NEW v \in Nat
    PROVE  Values(AddTo(w, v)) = Window!Last(Append(Values(w), v))
  <1> DEFINE n == LatencySize
             r == AddTo(w, v)
             a == Values(w)
             b == Values(r)
             t == Append(a, v)
  <1>1. n \in Nat /\ n > 0 /\ n \in Nat \ {0}
    BY SizeAssumption
  <1>2. /\ w.data \in [0..(n - 1) -> Nat] /\ w.pos \in 0..(n - 1) /\ w.full \in BOOLEAN
        /\ w.pos \in Nat
    BY <1>1 DEF Rings
  <1>3. /\ r \in Rings(n) /\ r.data = [w.data EXCEPT ![w.pos] = v]
        /\ w.pos + 1 < n => r.pos = w.pos + 1 /\ (r.full <=> w.full)
        /\ w.pos + 1 = n => r.pos = 0 /\ r.full
    BY <1>1, AddToFacts
  <1>4. /\ r.data[w.pos] = v
        /\ \A i \in 0..(n - 1) : i # w.pos => r.data[i] = w.data[i]
    BY <1>2, <1>3
  <1>5. /\ a \in Seq(Nat)
        /\ w.full => /\ Len(a) = n
                     /\ \A i \in 1..n :
                          /\ w.pos + i - 1 < n => a[i] = w.data[w.pos + i - 1]
                          /\ w.pos + i - 1 >= n => a[i] = w.data[w.pos + i - 1 - n]
        /\ ~w.full => Len(a) = w.pos /\ \A i \in 1..w.pos : a[i] = w.data[i - 1]
    BY <1>1, ValuesFacts
  <1>6. /\ b \in Seq(Nat)
        /\ r.full => /\ Len(b) = n
                     /\ \A i \in 1..n :
                          /\ r.pos + i - 1 < n => b[i] = r.data[r.pos + i - 1]
                          /\ r.pos + i - 1 >= n => b[i] = r.data[r.pos + i - 1 - n]
        /\ ~r.full => Len(b) = r.pos /\ \A i \in 1..r.pos : b[i] = r.data[i - 1]
    BY <1>1, <1>3, ValuesFacts
  <1>7. /\ t \in Seq(Nat) /\ Len(t) = Len(a) + 1 /\ t[Len(a) + 1] = v
        /\ \A i \in 1..Len(a) : t[i] = a[i]
    BY <1>5, AppendProperties
  <1>8. Window!Last(t) = IF Len(t) <= n THEN t ELSE SubSeq(t, Len(t) - n + 1, Len(t))
    BY DEF Window!Last
  <1> HIDE DEF n, r, a, b, t
  <1>9. CASE ~w.full
    <2>1. Len(t) = w.pos + 1 /\ Len(t) <= n
      BY <1>1, <1>2, <1>5, <1>7, <1>9
    <2>2. Window!Last(t) = t
      BY <1>8, <2>1
    <2>3. Len(b) = w.pos + 1 /\ \A i \in 1..(w.pos + 1) : b[i] = r.data[i - 1]
      <3>1. CASE w.pos + 1 < n
        BY <1>2, <1>3, <1>6, <1>9, <3>1
      <3>2. CASE w.pos + 1 = n
        <4>1. r.full /\ r.pos = 0 /\ Len(b) = n
          BY <1>3, <1>6, <3>2
        <4>2. ASSUME NEW i \in 1..n PROVE b[i] = r.data[i - 1]
          <5>1. r.pos + i - 1 < n /\ r.pos + i - 1 = i - 1
            BY <1>1, <4>1
          <5> QED
            BY <1>6, <4>1, <5>1
        <4> QED
          BY <3>2, <4>1, <4>2
      <3> QED
        BY <1>1, <1>2, <3>1, <3>2
    <2>4. ASSUME NEW i \in 1..(w.pos + 1) PROVE b[i] = t[i]
      <3>1. CASE i = w.pos + 1
        BY <1>2, <1>4, <1>5, <1>7, <1>9, <2>3, <3>1
      <3>2. CASE i \in 1..w.pos
        <4>1. i - 1 \in 0..(n - 1) /\ i - 1 # w.pos
          BY <1>1, <1>2, <3>2
        <4>2. b[i] = w.data[i - 1]
          BY <1>4, <2>3, <4>1
        <4> QED
          BY <1>5, <1>7, <1>9, <3>2, <4>2
      <3> QED
        BY <1>2, <3>1, <3>2
    <2>5. b = t
      BY <1>6, <1>7, <2>1, <2>3, <2>4, SeqEqual
    <2> QED
      BY <2>2, <2>5 DEF b, r, t, a
  <1>10. CASE w.full
    <2> DEFINE u == SubSeq(t, 2, n + 1)
    <2>1. Len(a) = n /\ Len(t) = n + 1
      BY <1>5, <1>7, <1>10
    <2>2. Window!Last(t) = u
      <3>1. ~(Len(t) <= n) /\ Len(t) - n + 1 = 2
        BY <1>1, <2>1
      <3> QED
        BY <1>8, <2>1, <3>1
    <2>3. /\ u \in Seq(Nat) /\ Len(u) = n
          /\ \A i \in 1..n : u[i] = t[i + 1]
      <3>1. \A i \in 2..(n + 1) : t[i] \in Nat
        BY <1>1, <1>7, <2>1, ElementOfSeq
      <3> QED
        BY <1>1, <3>1, SubSeqProperties
    <2> HIDE DEF u
    <2>4. r.full /\ Len(b) = n /\ r.pos \in 0..(n - 1)
      <3>1. r.full
        BY <1>1, <1>2, <1>3, <1>10
      <3>2. r.pos \in 0..(n - 1)
        BY <1>3 DEF Rings
      <3> QED
        BY <1>6, <3>1, <3>2
    <2>5. ASSUME NEW i \in 1..n PROVE b[i] = u[i]
      <3>1. CASE i = n
        <4>1. u[i] = v
          BY <1>1, <1>7, <2>1, <2>3, <3>1
        <4>2. CASE w.pos + 1 < n
          <5>1. r.pos + i - 1 >= n /\ r.pos + i - 1 - n = w.pos
            <6>1. r.pos = w.pos + 1
              BY <1>3, <4>2
            <6> QED
              BY <1>1, <1>2, <3>1, <6>1
          <5> QED
            BY <1>4, <1>6, <2>4, <4>1, <5>1
        <4>3. CASE w.pos + 1 = n
          <5>1. r.pos + i - 1 < n /\ r.pos + i - 1 = w.pos
            BY <1>1, <1>2, <1>3, <3>1, <4>3
          <5> QED
            BY <1>4, <1>6, <2>4, <4>1, <5>1
        <4> QED
          BY <1>1, <1>2, <4>2, <4>3
      <3>2. CASE i < n
        <4>1. i + 1 \in 1..n /\ u[i] = a[i + 1]
          BY <1>1, <1>7, <2>1, <2>3, <3>2
        <4>2. CASE w.pos + i < n
          <5>1. /\ w.pos + (i + 1) - 1 < n /\ w.pos + (i + 1) - 1 = w.pos + i
                /\ w.pos + i \in 0..(n - 1) /\ w.pos + i # w.pos
                /\ w.pos + 1 < n /\ r.pos + i - 1 < n /\ r.pos + i - 1 = w.pos + i
            <6>1. w.pos + 1 < n
              BY <1>1, <1>2, <4>2
            <6>2. r.pos = w.pos + 1
              BY <1>3, <6>1
            <6>3. r.pos + i - 1 < n /\ r.pos + i - 1 = w.pos + i
              <7>1. r.pos + i - 1 = w.pos + i
                BY <1>2, <6>2
              <7> QED
                BY <4>2, <7>1
            <6>4. w.pos + (i + 1) - 1 < n /\ w.pos + (i + 1) - 1 = w.pos + i
              BY <1>1, <1>2, <4>2
            <6>5. w.pos + i \in 0..(n - 1) /\ w.pos + i # w.pos
              BY <1>1, <1>2, <4>2
            <6> QED
              BY <6>1, <6>3, <6>4, <6>5
          <5>2. a[i + 1] = w.data[w.pos + i]
            BY <1>5, <1>10, <4>1, <5>1
          <5>3. b[i] = r.data[w.pos + i]
            BY <1>6, <2>4, <5>1
          <5> QED
            BY <1>4, <4>1, <5>1, <5>2, <5>3
        <4>3. CASE w.pos + i >= n
          <5> DEFINE k == w.pos + i - n
          <5>1. /\ w.pos + (i + 1) - 1 >= n /\ w.pos + (i + 1) - 1 - n = k
                /\ k \in 0..(n - 1) /\ k # w.pos
            BY <1>1, <1>2, <3>2, <4>3
          <5>2. a[i + 1] = w.data[k]
            BY <1>5, <1>10, <4>1, <5>1
          <5>3. b[i] = r.data[k]
            <6>1. CASE w.pos + 1 < n
              <7>1. r.pos + i - 1 >= n /\ r.pos + i - 1 - n = k
                BY <1>1, <1>2, <1>3, <4>3, <6>1
              <7> QED
                BY <1>6, <2>4, <7>1
            <6>2. CASE w.pos + 1 = n
              <7>1. r.pos + i - 1 < n /\ r.pos + i - 1 = k
                BY <1>1, <1>2, <1>3, <3>2, <6>2
              <7> QED
                BY <1>6, <2>4, <7>1
            <6> QED
              BY <1>1, <1>2, <6>1, <6>2
          <5> QED
            BY <1>4, <4>1, <5>1, <5>2, <5>3
        <4> QED
          BY <1>1, <1>2, <4>2, <4>3
      <3> QED
        BY <1>1, <3>1, <3>2
    <2>6. b = u
      BY <1>6, <2>3, <2>4, <2>5, SeqEqual
    <2> QED
      BY <2>2, <2>6 DEF b, r, t, a
  <1> QED
    BY <1>2, <1>9, <1>10

-----------------------------------------------------------------------------
(* Histories.                                                              *)

\* An append, cut or not, leaves the numbers of the latest appends.
LEMMA LoggedSuffix ==
    ASSUME NEW count \in Nat, NEW s, Suffix(s, count)
    PROVE  Suffix(Logged(s, count + 1), count + 1)
  <1> DEFINE n == Len(s)
             t == Append(s, count + 1)
  <1>1. /\ s \in Seq(Nat) /\ n \in Nat /\ n <= Cap /\ n <= count
        /\ n >= Keep \/ n = count
        /\ \A i \in 1..n : s[i] = count - n + i
        /\ Cap \in Nat /\ Keep \in Nat /\ Keep <= Cap /\ Keep > 0
    BY HistoryAssumption DEF Suffix
  <1>2. /\ t \in Seq(Nat) /\ Len(t) = n + 1 /\ t[n + 1] = count + 1
        /\ \A i \in 1..n : t[i] = s[i]
    BY <1>1, AppendProperties
  <1>3. /\ n + 1 <= Cap => Logged(s, count + 1) = t
        /\ n + 1 > Cap => Logged(s, count + 1) = SubSeq(t, n + 1 - Keep + 1, n + 1)
    <2> HIDE DEF n
    <2>1. /\ ~(Len(t) > Cap) => Logged(s, count + 1) = t
          /\ Len(t) > Cap => Logged(s, count + 1) = SubSeq(t, Len(t) - Keep + 1, Len(t))
      BY Zenon DEF Logged
    <2>2. /\ Len(t) = n + 1 /\ (n + 1 <= Cap => ~(Len(t) > Cap))
          /\ n + 1 > Cap => Len(t) > Cap
      BY <1>1, <1>2
    <2> HIDE DEF t
    <2>3. n + 1 > Cap => Logged(s, count + 1) = SubSeq(t, n + 1 - Keep + 1, n + 1)
      <3>1. Len(t) = n + 1
        BY <2>2
      <3>2. SubSeq(t, Len(t) - Keep + 1, Len(t)) = SubSeq(t, n + 1 - Keep + 1, n + 1)
        BY <1>1, <3>1
      <3> QED
        BY <2>1, <2>2, <3>2, Zenon
    <2> QED
      BY <2>1, <2>2, <2>3, Zenon
  <1> HIDE DEF n, t
  <1>4. ASSUME NEW i \in 1..(n + 1) PROVE t[i] = count - n + i
    <2>1. CASE i = n + 1
      BY <1>1, <1>2, <2>1
    <2>2. CASE i # n + 1
      <3>1. i \in 1..n
        BY <1>1, <2>2
      <3> QED
        BY <1>1, <1>2, <3>1
    <2> QED
      BY <2>1, <2>2
  <1>5. CASE n + 1 <= Cap
    <2>1. \A i \in 1..(n + 1) : t[i] = (count + 1) - (n + 1) + i
      BY <1>1, <1>4
    <2>2. n + 1 <= count + 1 /\ (n + 1 >= Keep \/ n + 1 = count + 1)
      BY <1>1
    <2>3. Logged(s, count + 1) = t
      BY <1>3, <1>5
    <2>4. Suffix(t, count + 1)
      BY <1>2, <1>5, <2>1, <2>2 DEF Suffix
    <2> QED
      BY <2>3, <2>4
  <1>6. CASE n + 1 > Cap
    <2> DEFINE m == n + 1 - Keep + 1
               u == SubSeq(t, m, n + 1)
    <2>1. m \in 1..(n + 1) /\ n + 1 - m + 1 = Keep
      BY <1>1, <1>6
    <2>2. \A i \in m..(n + 1) : t[i] \in Nat
      <3>1. \A i \in 1..(n + 1) : t[i] \in Nat
        BY <1>2, ElementOfSeq
      <3> QED
        BY <1>1, <2>1, <3>1
    <2>3. /\ u \in Seq(Nat) /\ Len(u) = Keep
          /\ \A i \in 1..Keep : u[i] = t[m + i - 1]
      BY <1>1, <2>1, <2>2, SubSeqProperties
    <2>4. ASSUME NEW i \in 1..Keep PROVE u[i] = (count + 1) - Keep + i
      <3>1. m + i - 1 \in 1..(n + 1) /\ count - n + (m + i - 1) = (count + 1) - Keep + i
        BY <1>1, <2>1
      <3> QED
        BY <1>4, <2>3, <3>1
    <2>5. Logged(s, count + 1) = u
      BY <1>3, <1>6
    <2>6. Keep <= count + 1
      BY <1>1, <1>6
    <2> HIDE DEF u, m
    <2>7. Suffix(u, count + 1)
      BY <1>1, <2>3, <2>4, <2>6 DEF Suffix
    <2> QED
      BY <2>5, <2>7
  <1> QED
    BY <1>1, <1>5, <1>6

\* What readers are given is then the latest appends, up to the limit they ask for.
LEMMA SuffixIsRecent ==
    ASSUME NEW count \in Nat, NEW s, Suffix(s, count)
    PROVE  KeepsRecent(s, count)
  <1> DEFINE len == Len(s)
  <1>1. /\ s \in Seq(Nat) /\ len \in Nat /\ len <= count
        /\ len >= Keep \/ len = count
        /\ \A i \in 1..len : s[i] = count - len + i
        /\ Keep \in Nat
    BY HistoryAssumption DEF Suffix
  <1> SUFFICES ASSUME NEW limit \in 1..Keep,
                      NEW n, n = IF limit < count THEN limit ELSE count
               PROVE  Recent(s, limit) = [i \in 1..n |-> count - n + i]
    BY DEF KeepsRecent
  <1>2. n \in Nat /\ n <= count
    BY <1>1
  <1> DEFINE f == [i \in 1..n |-> count - n + i]
  <1>3. f \in Seq(Nat) /\ Len(f) = n /\ \A i \in 1..n : f[i] = count - n + i
    <2>1. f \in [1..n -> Nat]
      BY <1>2
    <2> QED
      BY <1>2, <2>1, FunctionIsSeq
  <1> HIDE DEF len, f
  <1>4. CASE limit >= len
    <2>1. len = n
      BY <1>1, <1>4
    <2>2. Recent(s, limit) = s
      BY <1>4 DEF Recent, len
    <2>3. s = f
      BY <1>1, <1>3, <2>1, SeqEqual DEF len
    <2> QED
      BY <2>2, <2>3 DEF f
  <1>5. CASE limit < len
    <2> DEFINE m == len - limit + 1
               u == SubSeq(s, m, len)
    <2>1. n = limit /\ m \in 1..len /\ len - m + 1 = n
      BY <1>1, <1>5
    <2>2. Recent(s, limit) = u
      <3>1. ~(limit <= 0 \/ limit >= Len(s))
        BY <1>1, <1>5 DEF len
      <3> QED
        BY <3>1 DEF Recent, len
    <2>3. \A i \in m..len : s[i] \in Nat
      BY <1>1, <2>1, ElementOfSeq DEF len
    <2>4. /\ u \in Seq(Nat) /\ Len(u) = n
          /\ \A i \in 1..n : u[i] = s[m + i - 1]
      BY <1>1, <2>1, <2>3, SubSeqProperties
    <2>5. ASSUME NEW i \in 1..n PROVE u[i] = f[i]
      <3>1. m + i - 1 \in 1..len /\ count - len + (m + i - 1) = count - n + i
        BY <1>1, <1>2, <2>1
      <3> QED
        BY <1>1, <1>3, <2>4, <3>1
    <2> HIDE DEF u
    <2>6. u = f
      BY <1>3, <2>4, <2>5, SeqEqual
    <2> QED
      BY <2>2, <2>6 DEF f
  <1> QED
    BY <1>1, <1>4, <1>5

-----------------------------------------------------------------------------
(* Sorting and percentiles.  The least element of a set of naturals stands  *)
(* in for an induction theorem.                                            *)

\* Every nonempty set of naturals has a least element: what the inductions below use.
LEMMA LeastNat ==
    ASSUME NEW T, T \subseteq Nat, T # {}
    PROVE  \E m \in T : \A k \in T : m <= k
  <1> DEFINE R == OpToRel(<, Nat)
  <1>1. IsWellFoundedOn(R, Nat)
    BY NatLessThanWellFounded, Zenon
  <1>2. \A x, y \in Nat : x < y => <<x, y>> \in R
    BY DEF OpToRel
  <1> HIDE DEF R
  <1>3. PICK m \in T : \A k \in T : ~(<<k, m>> \in R)
    BY <1>1, WFMin
  <1>4. \A k \in T : ~(k < m)
    BY <1>2, <1>3
  <1>5. \A k \in T : m <= k
    BY <1>4
  <1> QED
    BY <1>5

\* Induction up to n, with a set in place of the formula.
LEMMA Induction ==
    ASSUME NEW n \in Nat, NEW S, 0 \in S, \A k \in 0..(n - 1) : k \in S => k + 1 \in S
    PROVE  \A k \in 0..n : k \in S
  <1> DEFINE T == {k \in 0..n : k \notin S}
  <1>1. SUFFICES ASSUME T # {} PROVE FALSE
    OBVIOUS
  <1>2. T \subseteq Nat
    OBVIOUS
  <1>3. PICK m \in T : \A k \in T : m <= k
    <2> HIDE DEF T
    <2> QED
      BY <1>1, <1>2, LeastNat
  <1>4. m \in 0..n /\ m \notin S /\ m # 0
    OBVIOUS
  <1>5. m - 1 \in 0..(n - 1) /\ m - 1 \in 0..n /\ ~(m <= m - 1) /\ (m - 1) + 1 = m
    BY <1>4
  <1>6. m - 1 \in S
    BY <1>3, <1>5
  <1> QED
    BY <1>4, <1>5, <1>6

\* F holds what sortFloat64s has made of the first samples of s.
Rounds(F, n, s) == F = [i \in 0..n |-> IF i = 0 THEN <<>> ELSE InsertKey(F[i - 1], s[i])]

\* The recursion of Sorted has a solution.
LEMMA SortUnfolds ==
    ASSUME NEW s \in Seq(Nat)
    PROVE  \E F : Rounds(F, Len(s), s) /\ Sorted(s) = F[Len(s)]
  <1> DEFINE n == Len(s)
             S == {m \in Nat : \E F : Rounds(F, m, s)}
  <1>1. 0 \in S
    <2>1. Rounds([i \in 0..0 |-> <<>>], 0, s)
      BY DEF Rounds
    <2> QED
      BY <2>1
  <1>2. ASSUME NEW m \in 0..(n - 1), m \in S PROVE m + 1 \in S
    <2>1. PICK F : Rounds(F, m, s)
      BY <1>2
    <2> DEFINE G == [i \in 0..(m + 1) |-> IF i = m + 1 THEN InsertKey(F[m], s[m + 1]) ELSE F[i]]
    <2>2. ASSUME NEW i \in 0..(m + 1)
          PROVE  G[i] = IF i = 0 THEN <<>> ELSE InsertKey(G[i - 1], s[i])
      <3>1. CASE i = m + 1
        BY <3>1
      <3>2. CASE i # m + 1
        <4>1. i \in 0..m /\ G[i] = F[i] /\ (i # 0 => G[i - 1] = F[i - 1])
          BY <3>2
        <4>2. F[i] = IF i = 0 THEN <<>> ELSE InsertKey(F[i - 1], s[i])
          BY <2>1, <4>1 DEF Rounds
        <4> QED
          BY <4>1, <4>2
      <3> QED
        BY <3>1, <3>2
    <2>3. G = [i \in 0..(m + 1) |-> G[i]]
      OBVIOUS
    <2> HIDE DEF G
    <2>4. Rounds(G, m + 1, s)
      BY <2>2, <2>3 DEF Rounds
    <2> QED
      BY <2>4
  <1>3. n \in S
    <2>1. n \in Nat /\ n \in 0..n
      OBVIOUS
    <2> HIDE DEF S, n
    <2>2. \A k \in 0..n : k \in S
      BY <1>1, <1>2, <2>1, Induction, Zenon
    <2> QED
      BY <2>1, <2>2
  <1>4. Rounds(CHOOSE F : Rounds(F, n, s), n, s)
    BY <1>3
  <1>5. Sorted(s) = (CHOOSE F : Rounds(F, n, s))[n]
    BY DEF Sorted, Rounds
  <1> QED
    BY <1>4, <1>5

\* The entries of t are the first n of s, each once, in ascending order.
Sorts(t, s, n) ==
    /\ t \in Seq(Nat) /\ Len(t) = n
    /\ \A i, j \in 1..n : i <= j => t[i] <= t[j]
    /\ \E q \in [1..n -> 1..n] :
         /\ \A i, j \in 1..n : q[i] = q[j] => i = j
         /\ \A i \in 1..n : t[i] = s[q[i]]

\* An initial segment of positions is given by its length.
LEMMA InitialSegment ==
    ASSUME NEW L \in Nat, NEW S \in SUBSET (1..L), \A k \in S : \A j \in 1..k : j \in S
    PROVE  Cardinality(S) \in 0..L /\ S = 1..Cardinality(S)
  <1> DEFINE n == Cardinality(S)
  <1>1. IsFiniteSet(S) /\ n \in Nat
    <2>1. IsFiniteSet(1..L)
      BY FS_Interval
    <2> QED
      BY <2>1, FS_Subset, FS_CardinalityType
  <1>2. IsFiniteSet(1..n) /\ Cardinality(1..n) = n
    BY <1>1, FS_Interval
  <1>3. S \subseteq 1..n
    <2> SUFFICES ASSUME NEW k \in S, k > n PROVE FALSE
      BY <1>1
    <2>1. k \in Nat /\ 1..k \in SUBSET S
      OBVIOUS
    <2>2. Cardinality(1..k) = k
      BY <2>1, FS_Interval
    <2>3. Cardinality(1..k) <= n
      BY <1>1, <2>1, FS_Subset
    <2> QED
      BY <1>1, <2>1, <2>2, <2>3
  <1>4. S = 1..n
    BY <1>2, <1>3, FS_Subset
  <1>5. n <= L
    <2>1. n = 0 \/ n \in S
      BY <1>1, <1>4
    <2> QED
      BY <1>1, <2>1
  <1> QED
    BY <1>1, <1>4, <1>5

\* One round of sortFloat64s: the key goes behind those that do not exceed it.
LEMMA InsertKeySorts ==
    ASSUME NEW s \in Seq(Nat), NEW n \in Nat, n < Len(s), NEW t, Sorts(t, s, n)
    PROVE  Sorts(InsertKey(t, s[n + 1]), s, n + 1)
  <1> DEFINE key == s[n + 1]
             S == {i \in 1..n : t[i] <= key}
             m == Cardinality(S)
             low == SubSeq(t, 1, m)
             high == SubSeq(t, m + 1, n)
             u == InsertKey(t, key)
  <1>1. t \in Seq(Nat) /\ Len(t) = n /\ key \in Nat /\ \A i \in 1..n : t[i] \in Nat
    BY ElementOfSeq DEF Sorts
  <1> HIDE DEF key, low, high, u
  <1>2. PICK q \in [1..n -> 1..n] :
          /\ \A i, j \in 1..n : q[i] = q[j] => i = j
          /\ \A i \in 1..n : t[i] = s[q[i]]
    BY DEF Sorts
  <1>16. key \in Nat
    BY <1>1
  <1>3. m \in 0..n /\ S = 1..m
    <2>1. \A k \in S : \A j \in 1..k : j \in S
      <3> SUFFICES ASSUME NEW k \in S, NEW j \in 1..k PROVE j \in S
        OBVIOUS
      <3>1. j \in 1..n /\ k \in 1..n /\ j <= k
        OBVIOUS
      <3>2. t[j] <= t[k]
        BY <3>1 DEF Sorts
      <3>3. t[j] \in Nat /\ t[k] \in Nat /\ t[k] <= key
        BY <1>1, <3>1
      <3>4. t[j] <= key
        <4>1. t[j] \in Int /\ t[k] \in Int /\ key \in Int
          BY <1>16, <3>3
        <4> QED
          BY <3>2, <3>3, <4>1
      <3> QED
        BY <3>1, <3>4
    <2> QED
      BY <2>1, InitialSegment
  <1> HIDE DEF m
  <1>4. \A i \in 1..n : t[i] <= key <=> i <= m
    <2>1. \A i \in 1..n : t[i] <= key <=> i \in 1..m
      BY <1>3
    <2> QED
      BY <1>3, <2>1
  <1> HIDE DEF S
  <1>5. low \in Seq(Nat) /\ Len(low) = m /\ \A i \in 1..m : low[i] = t[i]
    <2>1. m \in Int /\ 1 \in Int /\ \A i \in 1..m : t[i] \in Nat
      BY <1>1, <1>3
    <2>2. /\ low \in Seq(Nat) /\ Len(low) = IF 1 <= m THEN m - 1 + 1 ELSE 0
          /\ \A i \in 1..(m - 1 + 1) : low[i] = t[1 + i - 1]
      BY <2>1, SubSeqProperties DEF low
    <2> QED
      BY <1>3, <2>2
  <1>6. /\ high \in Seq(Nat) /\ Len(high) = n - m
        /\ \A i \in 1..(n - m) : high[i] = t[m + i]
    <2>1. \A i \in (m + 1)..n : t[i] \in Nat
      BY <1>1, <1>3
    <2>2. /\ high \in Seq(Nat) /\ Len(high) = IF m + 1 <= n THEN n - (m + 1) + 1 ELSE 0
          /\ \A i \in 1..(n - (m + 1) + 1) : high[i] = t[(m + 1) + i - 1]
      <3>1. m + 1 \in Int /\ n \in Int
        BY <1>3
      <3> QED
        BY <2>1, <3>1, SubSeqProperties DEF high
    <2> QED
      BY <1>3, <2>2
  <1>7. u = (low \o <<key>>) \o high
    <2>1. u = InsertAt(t, m + 1, key)
      BY <1>1 DEF InsertKey, u, m, S
    <2>2. (m + 1) - 1 = m
      BY <1>3
    <2> QED
      BY <1>1, <2>1, <2>2 DEF InsertAt, low, high
  <1>0. key \in Nat /\ m \in 0..n
    BY <1>16, <1>3
  <1>8. /\ low \o <<key>> \in Seq(Nat) /\ Len(low \o <<key>>) = m + 1
        /\ \A i \in 1..m : (low \o <<key>>)[i] = t[i]
        /\ (low \o <<key>>)[m + 1] = key
    <2>1. <<key>> \in Seq(Nat) /\ Len(<<key>>) = 1 /\ <<key>>[1] = key
      BY <1>0
    <2>2. /\ low \o <<key>> \in Seq(Nat) /\ Len(low \o <<key>>) = m + 1
          /\ \A i \in 1..(m + 1) :
               (low \o <<key>>)[i] = IF i <= m THEN low[i] ELSE <<key>>[i - m]
      BY <1>0, <1>5, <2>1, ConcatProperties
    <2>3. ASSUME NEW i \in 1..m PROVE (low \o <<key>>)[i] = t[i]
      <3>1. i \in 1..(m + 1) /\ i <= m
        BY <1>0
      <3> QED
        BY <1>5, <2>2, <3>1
    <2>4. (low \o <<key>>)[m + 1] = key
      <3>1. m + 1 \in 1..(m + 1) /\ ~(m + 1 <= m) /\ (m + 1) - m = 1
        BY <1>0
      <3> QED
        BY <2>1, <2>2, <3>1
    <2> QED
      BY <2>2, <2>3, <2>4
  <1>9. /\ u \in Seq(Nat) /\ Len(u) = n + 1
        /\ \A i \in 1..(n + 1) : u[i] = IF i <= m THEN t[i] ELSE IF i = m + 1 THEN key ELSE t[i - 1]
    <2>1. /\ u \in Seq(Nat) /\ Len(u) = (m + 1) + (n - m)
          /\ \A i \in 1..((m + 1) + (n - m)) :
               u[i] = IF i <= m + 1 THEN (low \o <<key>>)[i] ELSE high[i - (m + 1)]
      <3> DEFINE x == low \o <<key>>
      <3>1. u = x \o high /\ x \in Seq(Nat) /\ Len(x) = m + 1
        BY <1>7, <1>8
      <3> HIDE DEF x
      <3>2. x \o high \in Seq(Nat) /\ Len(x \o high) = Len(x) + Len(high)
        BY <1>6, <3>1, ConcatProperties
      <3>3. \A i \in 1..(Len(x) + Len(high)) :
              (x \o high)[i] = IF i <= Len(x) THEN x[i] ELSE high[i - Len(x)]
        BY <1>6, <3>1, ConcatProperties
      <3>4. \A i \in 1..((m + 1) + (n - m)) :
              u[i] = IF i <= m + 1 THEN x[i] ELSE high[i - (m + 1)]
        BY <1>6, <3>1, <3>3
      <3> QED
        BY <1>6, <3>1, <3>2, <3>4 DEF x
    <2>2. (m + 1) + (n - m) = n + 1
      BY <1>0
    <2> SUFFICES ASSUME NEW i \in 1..(n + 1)
                 PROVE  u[i] = IF i <= m THEN t[i] ELSE IF i = m + 1 THEN key ELSE t[i - 1]
      BY <2>1, <2>2
    <2>3. CASE i <= m + 1
      BY <1>0, <1>8, <2>1, <2>2, <2>3
    <2>4. CASE i > m + 1
      <3>1. i - (m + 1) \in 1..(n - m) /\ m + (i - (m + 1)) = i - 1
        BY <1>0, <2>4
      <3>2. u[i] = high[i - (m + 1)]
        BY <1>0, <2>1, <2>2, <2>4
      <3>3. u[i] = t[i - 1]
        BY <1>6, <3>1, <3>2
      <3> QED
        BY <1>0, <2>4, <3>3
    <2> QED
      BY <1>0, <2>3, <2>4
  <1> DEFINE p == [i \in 1..(n + 1) |->
                     IF i <= m THEN q[i] ELSE IF i = m + 1 THEN n + 1 ELSE q[i - 1]]
         Old(k) == IF k <= m THEN k ELSE k - 1
  <1>14. \A k \in 1..(n + 1) : k # m + 1 => Old(k) \in 1..n
    BY <1>0
  <1>15. \A k \in 1..(n + 1) : u[k] = IF k = m + 1 THEN key ELSE t[Old(k)]
    BY <1>0, <1>9
  <1>10. p \in [1..(n + 1) -> 1..(n + 1)]
    BY <1>0
  <1>11. ASSUME NEW i \in 1..(n + 1), NEW j \in 1..(n + 1), p[i] = p[j]
         PROVE  i = j
    <2>1. \A k \in 1..n : q[k] \in 1..n
      OBVIOUS
    <2>2. \A k, l \in 1..n : q[k] = q[l] => k = l
      BY <1>2
    <2>3. \A k \in 1..(n + 1) : p[k] = IF k = m + 1 THEN n + 1 ELSE q[Old(k)]
      BY <1>0
    <2>4. \A k \in 1..(n + 1) : k # m + 1 => q[Old(k)] \in 1..n
      BY <1>14, <2>1
    <2>5. CASE i = m + 1 \/ j = m + 1
      <3>1. i = m + 1 <=> j = m + 1
        <4>1. ASSUME NEW k \in 1..(n + 1), NEW l \in 1..(n + 1), p[k] = p[l], k = m + 1
              PROVE  l = m + 1
          <5> SUFFICES ASSUME l # m + 1 PROVE FALSE
            OBVIOUS
          <5> HIDE DEF p, Old
          <5>1. p[k] = n + 1 /\ p[l] = q[Old(l)] /\ q[Old(l)] \in 1..n
            BY <2>3, <2>4, <4>1
          <5> QED
            BY <4>1, <5>1
        <4> HIDE DEF p
        <4> QED
          BY <1>11, <4>1
      <3> QED
        BY <2>5, <3>1
    <2>6. CASE i # m + 1 /\ j # m + 1
      <3>1. q[Old(i)] = q[Old(j)]
        <4> HIDE DEF p, Old
        <4> QED
          BY <1>11, <2>3, <2>6
      <3>2. Old(i) = Old(j)
        <4> HIDE DEF Old
        <4> QED
          BY <1>14, <2>2, <2>6, <3>1
      <3> QED
        BY <1>0, <2>6, <3>2
    <2> QED
      BY <2>5, <2>6
  <1>12. ASSUME NEW i \in 1..(n + 1) PROVE u[i] = s[p[i]]
    <2>1. CASE i = m + 1
      BY <1>0, <1>9, <2>1 DEF key
    <2>2. CASE i # m + 1
      <3>1. p[i] = q[Old(i)] /\ u[i] = t[Old(i)]
        BY <1>0, <1>15, <2>2
      <3>2. t[Old(i)] = s[q[Old(i)]]
        <4> HIDE DEF Old
        <4> QED
          BY <1>2, <1>14, <2>2
      <3> QED
        BY <3>1, <3>2
    <2> QED
      BY <2>1, <2>2
  <1>13. ASSUME NEW i \in 1..(n + 1), NEW j \in 1..(n + 1), i <= j
         PROVE  u[i] <= u[j]
    <2>1. \A k, l \in 1..n : k <= l => t[k] <= t[l]
      BY DEF Sorts
    <2>2. \A k \in 1..n : t[k] \in Nat /\ (k <= m => t[k] <= key) /\ (k > m => key < t[k])
      BY <1>0, <1>1, <1>4
    <2>3. CASE i = m + 1 /\ j = m + 1
      BY <1>0, <1>15, <2>3
    <2>4. CASE i = m + 1 /\ j # m + 1
      <3>1. Old(j) \in 1..n /\ Old(j) > m
        BY <1>0, <1>13, <2>4
      <3>2. u[i] = key /\ u[j] = t[Old(j)]
        BY <1>15, <2>4
      <3> HIDE DEF Old
      <3>3. key < t[Old(j)] /\ t[Old(j)] \in Nat
        BY <2>2, <3>1
      <3> QED
        BY <1>0, <3>2, <3>3
    <2>5. CASE i # m + 1 /\ j = m + 1
      <3>1. Old(i) \in 1..n /\ Old(i) <= m
        BY <1>0, <1>13, <2>5
      <3>2. u[j] = key /\ u[i] = t[Old(i)]
        BY <1>15, <2>5
      <3> HIDE DEF Old
      <3> QED
        BY <2>2, <3>1, <3>2
    <2>6. CASE i # m + 1 /\ j # m + 1
      <3>1. Old(i) \in 1..n /\ Old(j) \in 1..n /\ Old(i) <= Old(j)
        BY <1>0, <1>13, <2>6
      <3>2. u[i] = t[Old(i)] /\ u[j] = t[Old(j)]
        BY <1>15, <2>6
      <3> HIDE DEF Old
      <3> QED
        BY <2>1, <3>1, <3>2
    <2> QED
      BY <2>3, <2>4, <2>5, <2>6
  <1> HIDE DEF p, Old
  <1> QED
    BY <1>9, <1>10, <1>11, <1>12, <1>13 DEF Sorts, u, key

\* sortFloat64s sorts: by induction on the number of its rounds.
LEMMA SortedSorts ==
    ASSUME NEW s \in Seq(Nat)
    PROVE  Sorts(Sorted(s), s, Len(s))
  <1>1. PICK F : Rounds(F, Len(s), s) /\ Sorted(s) = F[Len(s)]
    BY SortUnfolds
  <1>2. \A n \in 0..Len(s) : F[n] = IF n = 0 THEN <<>> ELSE InsertKey(F[n - 1], s[n])
    BY <1>1 DEF Rounds
  <1> DEFINE S == {n \in Nat : Sorts(F[n], s, n)}
  <1>3. 0 \in S
    <2>1. 1..0 = {} /\ <<>> \in Seq(Nat) /\ Len(<<>>) = 0
      OBVIOUS
    <2>2. [i \in 1..0 |-> 0] \in [1..0 -> 1..0]
      BY <2>1
    <2>3. Sorts(<<>>, s, 0)
      BY <2>1, <2>2 DEF Sorts
    <2> QED
      BY <1>2, <2>3
  <1>4. ASSUME NEW k \in 0..(Len(s) - 1), k \in S PROVE k + 1 \in S
    <2>1. k \in Nat /\ k < Len(s) /\ k + 1 \in 0..Len(s) /\ k + 1 # 0 /\ (k + 1) - 1 = k
      OBVIOUS
    <2>2. Sorts(InsertKey(F[k], s[k + 1]), s, k + 1)
      BY <1>4, <2>1, InsertKeySorts
    <2>3. F[k + 1] = InsertKey(F[k], s[k + 1])
      BY <1>2, <2>1
    <2> QED
      BY <2>1, <2>2, <2>3
  <1>5. Len(s) \in Nat /\ Len(s) \in 0..Len(s)
    OBVIOUS
  <1>6. Len(s) \in S
    <2> HIDE DEF S
    <2>1. \A k \in 0..Len(s) : k \in S
      BY <1>3, <1>4, <1>5, Induction, Zenon
    <2> QED
      BY <1>5, <2>1
  <1> QED
    BY <1>1, <1>6

\* Distinct positions of a sorted ring count as many samples.
LEMMA AtLeast ==
    ASSUME NEW n \in Nat, NEW q \in [1..n -> 1..n], \A i, j \in 1..n : q[i] = q[j] => i = j,
           NEW a \in 1..n, NEW b \in 1..n, a <= b,
           NEW B \in SUBSET (1..n), \A j \in a..b : q[j] \in B
    PROVE  Cardinality(B) \in Nat /\ Cardinality(B) >= b - a + 1
  <1> DEFINE f == [j \in a..b |-> q[j]]
  <1>1. IsFiniteSet(B) /\ Cardinality(B) \in Nat
    <2>1. IsFiniteSet(1..n)
      BY FS_Interval
    <2> QED
      BY <2>1, FS_Subset, FS_CardinalityType
  <1>2. f \in Injection(a..b, B)
    <2>1. f \in [a..b -> B]
      OBVIOUS
    <2>2. \A i, j \in a..b : f[i] = f[j] => i = j
      OBVIOUS
    <2> HIDE DEF f
    <2> QED
      BY <2>1, <2>2 DEF Injection, IsInjective
  <1>3. Cardinality(a..b) = b - a + 1
    BY FS_Interval
  <1>4. Cardinality(a..b) <= Cardinality(B)
    BY <1>1, <1>2, FS_Injection
  <1> QED
    BY <1>1, <1>3, <1>4

\* The positions of the samples a percentile does not stay below, or does not exceed.
NotAbove(s, x) == {i \in 1..Len(s) : 100 * s[i] <= x}
NotBelow(s, x) == {i \in 1..Len(s) : 100 * s[i] >= x}

\* At least k samples do not exceed the k-th of the sorted ones, and the others and
\* itself are not below it.
LEMMA RankedSplit ==
    ASSUME NEW s \in Seq(Nat), NEW k \in 1..Len(s), NEW x \in Int
    PROVE  /\ Cardinality(NotAbove(s, x)) \in Nat /\ Cardinality(NotBelow(s, x)) \in Nat
           /\ 100 * Sorted(s)[k] <= x => Cardinality(NotAbove(s, x)) >= k
           /\ 100 * Sorted(s)[k] >= x => Cardinality(NotBelow(s, x)) >= Len(s) - k + 1
  <1> DEFINE n == Len(s)
             t == Sorted(s)
             low == {i \in 1..n : 100 * s[i] <= x}
             high == {i \in 1..n : 100 * s[i] >= x}
  <1>1. /\ n \in Nat /\ t \in Seq(Nat) /\ Len(t) = n
        /\ \A i, j \in 1..n : i <= j => t[i] <= t[j]
    BY SortedSorts DEF Sorts
  <1>2. PICK q \in [1..n -> 1..n] :
          /\ \A i, j \in 1..n : q[i] = q[j] => i = j
          /\ \A i \in 1..n : t[i] = s[q[i]]
    BY SortedSorts DEF Sorts
  <1>3. \A i \in 1..n : t[i] \in Nat /\ q[i] \in 1..n
    BY <1>1, ElementOfSeq
  <1>4. IsFiniteSet(1..n)
    BY <1>1, FS_Interval
  <1>5. Cardinality(low) \in Nat /\ Cardinality(high) \in Nat
    BY <1>4, FS_Subset, FS_CardinalityType
  <1> HIDE DEF t
  <1>6. ASSUME 100 * t[k] <= x PROVE Cardinality(low) >= k
    <2>1. \A j \in 1..k : q[j] \in low
      <3> SUFFICES ASSUME NEW j \in 1..k PROVE q[j] \in low
        OBVIOUS
      <3>1. j \in 1..n /\ k \in 1..n /\ j <= k
        BY <1>1
      <3>2. t[j] <= t[k] /\ t[j] \in Nat /\ t[k] \in Nat
        BY <1>1, <1>3, <3>1
      <3>3. 100 * t[j] <= x
        BY <1>6, <3>2
      <3>4. s[q[j]] = t[j] /\ q[j] \in 1..n
        BY <1>2, <1>3, <3>1
      <3> QED
        BY <3>3, <3>4
    <2>2. low \in SUBSET (1..n) /\ 1 \in 1..n /\ k \in 1..n /\ 1 <= k
      BY <1>1
    <2> HIDE DEF low, n
    <2>3. Cardinality(low) >= k - 1 + 1
      BY <1>1, <1>2, <2>1, <2>2, AtLeast
    <2> QED
      BY <2>2, <2>3
  <1>7. ASSUME 100 * t[k] >= x PROVE Cardinality(high) >= n - k + 1
    <2>1. \A j \in k..n : q[j] \in high
      <3> SUFFICES ASSUME NEW j \in k..n PROVE q[j] \in high
        OBVIOUS
      <3>1. j \in 1..n /\ k \in 1..n /\ k <= j
        BY <1>1
      <3>2. t[k] <= t[j] /\ t[j] \in Nat /\ t[k] \in Nat
        BY <1>1, <1>3, <3>1
      <3>3. 100 * t[j] >= x
        BY <1>7, <3>2
      <3>4. s[q[j]] = t[j] /\ q[j] \in 1..n
        BY <1>2, <1>3, <3>1
      <3> QED
        BY <3>3, <3>4
    <2>2. high \in SUBSET (1..n) /\ n \in 1..n /\ k \in 1..n /\ k <= n
      BY <1>1
    <2> HIDE DEF high, n
    <2> QED
      BY <1>1, <1>2, <2>1, <2>2, AtLeast
  <1> QED
    BY <1>5, <1>6, <1>7 DEF t, NotAbove, NotBelow

\* A value between two others, f hundredths of the way.
LEMMA Interpolation ==
    ASSUME NEW a \in Nat, NEW b \in Nat, a <= b, NEW f \in 0..99,
           NEW x, x = a * (100 - f) + b * f
    PROVE  x \in Int /\ 100 * a <= x /\ x <= 100 * b
  <1> DEFINE d == b - a
  <1>1. d \in Nat /\ b = a + d
    OBVIOUS
  <1>2. d * f \in Nat /\ d * (100 - f) \in Nat
    <2>1. \A u, v \in Nat : u * v \in Nat
      OBVIOUS
    <2> QED
      BY <1>1, <2>1
  <1> HIDE DEF d
  <1>3. a * (100 - f) + b * f = 100 * a + d * f
    BY <1>1
  <1>4. d * (100 - f) = 100 * d - d * f
    BY <1>1
  <1> QED
    BY <1>1, <1>2, <1>3, <1>4

\* x lies between the k-th and the u-th of the sorted samples, the ones around rank
\* (counted in hundredths).
Around(sorted, rank, x) ==
    /\ x \in Int
    /\ \E k, u \in 1..Len(sorted), frac \in 0..99 :
         /\ rank = 100 * (k - 1) + frac
         /\ u = IF frac = 0 THEN k ELSE k + 1
         /\ 100 * sorted[k] <= x /\ x <= 100 * sorted[u]

LEMMA PercentileRank ==
    ASSUME NEW w, NEW p \in {0, 50, 95, 100},
           Values(w) \in Seq(Nat), Len(Values(w)) = WindowLen(w), WindowLen(w) > 0
    PROVE  Around(Sorted(Values(w)), p * (WindowLen(w) - 1), Percentile(w, p))
  <1> DEFINE n == WindowLen(w)
             sorted == Sorted(Values(w))
             r == p * (n - 1)
             lower == (r \div 100) + 1
             frac == r % 100
  <1>1. /\ n \in Nat /\ n > 0 /\ sorted \in Seq(Nat) /\ Len(sorted) = n
        /\ \A i, j \in 1..n : i <= j => sorted[i] <= sorted[j]
    BY SortedSorts DEF Sorts
  <1>2. \A i \in 1..n : sorted[i] \in Nat
    BY <1>1, ElementOfSeq
  <1>3. Percentile(w, p) = IF frac = 0 THEN 100 * sorted[lower]
                           ELSE sorted[lower] * (100 - frac) + sorted[lower + 1] * frac
    BY <1>1 DEF Percentile
  <1>0. n \in Nat /\ n > 0
    BY <1>1
  <1> HIDE DEF n, sorted
  <1>4. r \in 0..(100 * (n - 1))
    BY <1>0
  <1> HIDE DEF r
  <1>5. frac \in 0..99 /\ r = 100 * (lower - 1) + frac /\ lower \in Nat /\ lower >= 1
    BY <1>0, <1>4
  <1> HIDE DEF frac, lower
  <1>6. lower \in 1..n /\ (frac # 0 => lower + 1 \in 1..n)
    BY <1>0, <1>4, <1>5
  <1>7. sorted[lower] \in Nat
    BY <1>2, <1>6
  <1>8. /\ Percentile(w, p) \in Int /\ 100 * sorted[lower] <= Percentile(w, p)
        /\ Percentile(w, p) <= 100 * sorted[IF frac = 0 THEN lower ELSE lower + 1]
    <2>1. CASE frac = 0
      BY <1>3, <1>7, <2>1
    <2>2. CASE frac # 0
      <3>1. sorted[lower + 1] \in Nat /\ sorted[lower] <= sorted[lower + 1]
        BY <1>1, <1>2, <1>6, <2>2
      <3> QED
        <4> DEFINE x == sorted[lower] * (100 - frac) + sorted[lower + 1] * frac
        <4>1. Percentile(w, p) = x
          BY <1>3, <2>2
        <4>2. x \in Int /\ 100 * sorted[lower] <= x /\ x <= 100 * sorted[lower + 1]
          <5> DEFINE a == sorted[lower]
                     b == sorted[lower + 1]
          <5>1. a \in Nat /\ b \in Nat /\ a <= b /\ frac \in 0..99 /\ x = a * (100 - frac) + b * frac
            BY <1>5, <1>7, <3>1
          <5> HIDE DEF a, b, x
          <5>2. x \in Int /\ 100 * a <= x /\ x <= 100 * b
            BY <5>1, Interpolation
          <5> QED
            BY <5>2 DEF a, b
        <4> HIDE DEF x
        <4> QED
          BY <2>2, <4>1, <4>2
    <2> QED
      BY <2>1, <2>2
  <1> QED
    <2> DEFINE u == IF frac = 0 THEN lower ELSE lower + 1
               x == Percentile(w, p)
    <2>1. /\ lower \in 1..n /\ u \in 1..n /\ frac \in 0..99 /\ Len(sorted) = n
          /\ r = 100 * (lower - 1) + frac /\ u = IF frac = 0 THEN lower ELSE lower + 1
          /\ x \in Int /\ 100 * sorted[lower] <= x /\ x <= 100 * sorted[u]
      BY <1>1, <1>5, <1>6, <1>8
    <2> HIDE DEF u, x, frac, lower
    <2>2. Around(sorted, r, x)
      <3> HIDE DEF n
      <3> QED
        BY <2>1 DEF Around
    <2> QED
      BY <2>2 DEF sorted, x, r, n

\* A value around a rank splits the samples as its rank says.
LEMMA Splits ==
    ASSUME NEW s \in Seq(Nat), Len(s) > 0, NEW r \in Int,
           NEW x, Around(Sorted(s), r, x), NEW y, Around(Sorted(s), 100 * (Len(s) - 1), y)
    PROVE  /\ 100 * Cardinality(NotAbove(s, x)) >=
                IF r = 100 * (Len(s) - 1) THEN r + 100 ELSE r + 1
           /\ 100 * Cardinality(NotBelow(s, x)) >=
                IF r = 0 THEN 100 * Len(s) ELSE 100 * (Len(s) - 1) - r + 1
           /\ x <= y
  <1> DEFINE n == Len(s)
             max == 100 * (n - 1)
  <1>0. n \in Nat /\ n > 0 /\ max \in Int
    OBVIOUS
  <1> DEFINE sorted == Sorted(s)
             below == Cardinality(NotAbove(s, x))
             above == Cardinality(NotBelow(s, x))
  <1>1. /\ sorted \in Seq(Nat) /\ Len(sorted) = n
        /\ \A i, j \in 1..n : i <= j => sorted[i] <= sorted[j]
    BY SortedSorts DEF Sorts
  <1>2. \A i \in 1..n : sorted[i] \in Nat
    BY <1>1, ElementOfSeq
  <1>3. Around(sorted, r, x) /\ Around(sorted, max, y)
    OBVIOUS
  <1> HIDE DEF sorted, n, max
  <1>4. x \in Int /\ y \in Int
    BY <1>3 DEF Around
  <1>5. PICK k \in 1..n, u \in 1..n, frac \in 0..99 :
          /\ r = 100 * (k - 1) + frac
          /\ u = IF frac = 0 THEN k ELSE k + 1
          /\ 100 * sorted[k] <= x /\ x <= 100 * sorted[u]
    BY <1>1, <1>3 DEF Around
  <1>6. PICK last \in 1..n, f \in 0..99 :
          max = 100 * (last - 1) + f /\ 100 * sorted[last] <= y
    BY <1>1, <1>3 DEF Around
  <1>7. /\ below \in Nat /\ above \in Nat
        /\ 100 * sorted[k] <= x => below >= k
        /\ 100 * sorted[u] >= x => above >= n - u + 1
    <2>1. /\ below \in Nat /\ (100 * sorted[k] <= x => below >= k)
      BY <1>4, RankedSplit DEF sorted, n
    <2>2. /\ above \in Nat /\ (100 * sorted[u] >= x => above >= n - u + 1)
      BY <1>4, RankedSplit DEF sorted, n
    <2> QED
      BY <2>1, <2>2
  <1>8. below >= k /\ above >= n - u + 1
    BY <1>0, <1>2, <1>4, <1>5, <1>7
  <1> HIDE DEF below, above
  <1>9. last = n
    <2>1. last \in 1..n /\ f \in 0..99 /\ 100 * (n - 1) = 100 * (last - 1) + f
      BY <1>6 DEF max
    <2> QED
      BY <1>0, <2>1
  <1>10. x <= y
    <2>1. sorted[u] <= sorted[n] /\ sorted[u] \in Nat /\ sorted[n] \in Nat
      BY <1>0, <1>1, <1>2
    <2> QED
      BY <1>4, <1>5, <1>6, <1>9, <2>1
  <1>11. n \in Nat /\ k \in 1..n /\ frac \in 0..99 /\ max = 100 * (n - 1)
    BY <1>0 DEF max
  <1>12. r = 100 * (k - 1) + frac /\ u = IF frac = 0 THEN k ELSE k + 1
    BY <1>5
  <1>13. (r = max => k = n /\ frac = 0) /\ (r = 0 => u = 1)
    <2>1. r = max => k = n /\ frac = 0
      BY <1>11, <1>12
    <2>2. r = 0 => k = 1 /\ frac = 0
      BY <1>11, <1>12
    <2> QED
      BY <1>12, <2>1, <2>2
  <1>14. /\ 100 * below >= IF r = max THEN r + 100 ELSE r + 1
         /\ 100 * above >= IF r = 0 THEN max + 100 ELSE max - r + 1
    BY <1>7, <1>8, <1>11, <1>12, <1>13
  <1> QED
    BY <1>0, <1>10, <1>11, <1>14 DEF below, above, n, max

\* What PercentileSplits says of one ring and one percentile.
SplitsAt(w, p) ==
    LET n == WindowLen(w)
        values == Values(w)
        below(x) == Cardinality({i \in 1..n : 100 * values[i] <= x})
        above(x) == Cardinality({i \in 1..n : 100 * values[i] >= x})
    IN  /\ 100 * below(Percentile(w, p)) >= p * (n - 1) + (IF p = 100 THEN 100 ELSE 1)
        /\ 100 * above(Percentile(w, p)) >= (100 - p) * (n - 1) + (IF p = 0 THEN 100 ELSE 1)
        /\ Percentile(w, p) <= Percentile(w, 100)

\* RollingWindow.Percentile over a ring that is well formed.
LEMMA RingSplits ==
    ASSUME NEW w, Values(w) \in Seq(Nat), Len(Values(w)) = WindowLen(w), WindowLen(w) > 0,
           NEW p \in {0, 50, 95, 100}
    PROVE  SplitsAt(w, p)
  <1>1. /\ Around(Sorted(Values(w)), p * (WindowLen(w) - 1), Percentile(w, p))
        /\ Around(Sorted(Values(w)), 100 * (WindowLen(w) - 1), Percentile(w, 100))
    BY PercentileRank
  <1>2. WindowLen(w) \in Nat
    BY LenProperties
  <1> DEFINE n == WindowLen(w)
             s == Values(w)
             r == p * (n - 1)
             max == 100 * (n - 1)
             x == Percentile(w, p)
             y == Percentile(w, 100)
  <1>3. /\ 100 * Cardinality(NotAbove(s, x)) >= r + (IF p = 100 THEN 100 ELSE 1)
        /\ 100 * Cardinality(NotBelow(s, x)) >= max - r + (IF p = 0 THEN 100 ELSE 1)
        /\ x <= y
    <2>1. /\ s \in Seq(Nat) /\ n \in Nat /\ n = Len(s) /\ n > 0
          /\ r \in Int /\ max \in Int /\ max = 100 * (n - 1)
      BY <1>2
    <2>2. (p = 0 => r = 0) /\ (p = 100 => r = max)
      BY <1>2
    <2>3. Around(Sorted(s), r, x) /\ Around(Sorted(s), max, y)
      BY <1>1
    <2>4. Cardinality(NotAbove(s, x)) \in Nat /\ Cardinality(NotBelow(s, x)) \in Nat
      <3>1. IsFiniteSet(1..Len(s))
        BY FS_Interval
      <3> QED
        BY <3>1, FS_Subset, FS_CardinalityType DEF NotAbove, NotBelow
    <2>5. s \in Seq(Nat) /\ Len(s) > 0 /\ r \in Int /\ max = 100 * (Len(s) - 1)
      BY <2>1
    <2> HIDE DEF n, s, x, y, r
    <2>6. Around(Sorted(s), r, x) /\ Around(Sorted(s), 100 * (Len(s) - 1), y)
      BY <2>1, <2>3
    <2> HIDE DEF max
    <2>7. /\ 100 * Cardinality(NotAbove(s, x)) >=
               IF r = 100 * (Len(s) - 1) THEN r + 100 ELSE r + 1
          /\ 100 * Cardinality(NotBelow(s, x)) >=
               IF r = 0 THEN 100 * Len(s) ELSE 100 * (Len(s) - 1) - r + 1
          /\ x <= y
      BY <2>5, <2>6, Splits, Zenon
    <2> QED
      BY <2>1, <2>2, <2>4, <2>5, <2>7
  <1>4. /\ NotAbove(s, x) = {i \in 1..n : 100 * s[i] <= x}
        /\ NotBelow(s, x) = {i \in 1..n : 100 * s[i] >= x}
    BY DEF NotAbove, NotBelow
  <1>5. max - r = (100 - p) * (n - 1)
    BY <1>2
  <1> QED
    BY <1>3, <1>4, <1>5 DEF SplitsAt

-----------------------------------------------------------------------------
(* Sums and the trend.                                                     *)

\* F holds the sums of the first values of f.
Adds(F, n, f) == F = [i \in 0..n |-> IF i = 0 THEN 0 ELSE F[i - 1] + f[i]]

\* The recursion of SumTo has a solution.
LEMMA SumUnfolds ==
    ASSUME NEW n \in Nat, NEW f
    PROVE  \E F : Adds(F, n, f) /\ SumTo(n, f) = F[n]
  <1> DEFINE S == {m \in Nat : \E F : Adds(F, m, f)}
  <1>1. 0 \in S
    <2>1. Adds([i \in 0..0 |-> 0], 0, f)
      BY DEF Adds
    <2> QED
      BY <2>1
  <1>2. ASSUME NEW m \in 0..(n - 1), m \in S PROVE m + 1 \in S
    <2>1. PICK F : Adds(F, m, f)
      BY <1>2
    <2> DEFINE G == [i \in 0..(m + 1) |-> IF i = m + 1 THEN F[m] + f[m + 1] ELSE F[i]]
    <2>2. ASSUME NEW i \in 0..(m + 1)
          PROVE  G[i] = IF i = 0 THEN 0 ELSE G[i - 1] + f[i]
      <3>1. CASE i = m + 1
        BY <3>1
      <3>2. CASE i # m + 1
        <4>1. i \in 0..m /\ G[i] = F[i] /\ (i # 0 => G[i - 1] = F[i - 1])
          BY <3>2
        <4>2. F[i] = IF i = 0 THEN 0 ELSE F[i - 1] + f[i]
          BY <2>1, <4>1 DEF Adds
        <4> QED
          BY <4>1, <4>2
      <3> QED
        BY <3>1, <3>2
    <2>3. G = [i \in 0..(m + 1) |-> G[i]]
      OBVIOUS
    <2> HIDE DEF G
    <2>4. Adds(G, m + 1, f)
      BY <2>2, <2>3 DEF Adds
    <2> QED
      BY <2>4
  <1> HIDE DEF S
  <1>3. n \in S
    BY <1>1, <1>2, Induction
  <1>4. Adds(CHOOSE F : Adds(F, n, f), n, f)
    BY <1>3 DEF S
  <1>5. SumTo(n, f) = (CHOOSE F : Adds(F, n, f))[n]
    BY DEF SumTo, Adds
  <1> QED
    BY <1>4, <1>5

\* The sums are integers, and each adds one value to the one before.
LEMMA AddsFacts ==
    ASSUME NEW n \in Nat, NEW f, NEW F, Adds(F, n, f), \A i \in 1..n : f[i] \in Int
    PROVE  /\ F[0] = 0
           /\ \A i \in 0..n : F[i] \in Int
           /\ \A i \in 0..(n - 1) : F[i + 1] = F[i] + f[i + 1]
  <1>1. F[0] = 0 /\ \A i \in 1..n : F[i] = F[i - 1] + f[i]
    BY DEF Adds
  <1>2. \A i \in 0..(n - 1) : F[i + 1] = F[i] + f[i + 1]
    <2> TAKE i \in 0..(n - 1)
    <2>1. i + 1 \in 1..n /\ (i + 1) - 1 = i
      OBVIOUS
    <2> QED
      BY <1>1, <2>1
  <1> DEFINE S == {i \in 0..n : F[i] \in Int}
  <1>3. 0 \in S
    BY <1>1
  <1>4. ASSUME NEW k \in 0..(n - 1), k \in S PROVE k + 1 \in S
    <2>1. k + 1 \in 1..n /\ k + 1 \in 0..n
      OBVIOUS
    <2> QED
      BY <1>2, <1>4, <2>1
  <1>5. \A i \in 0..n : i \in S
    <2> HIDE DEF S
    <2> QED
      BY <1>3, <1>4, Induction
  <1> QED
    BY <1>1, <1>2, <1>5

\* The sum over the pairs that end in j, and over all pairs, of the products of the
\* differences.
PairsTo(j, f, g) ==
    SumTo(j - 1, [i \in 1..(j - 1) |-> (f[j] - f[i]) * (g[j] - g[i])])
Pairs(n, f, g) == SumTo(n, [j \in 1..n |-> PairsTo(j, f, g)])
Products(n, f, g) == [i \in 1..n |-> f[i] * g[i]]
\* The same for one j, from the sums of f, of g and of their products.
LastPairs(j, f, g, F, G, P) ==
    (j - 1) * (f[j] * g[j]) - f[j] * G[j - 1] - g[j] * F[j - 1] + P[j - 1]

\* PairsTo multiplied out: by induction on the number of its terms.
LEMMA InnerSum ==
    ASSUME NEW n \in Nat, NEW f \in [1..n -> Int], NEW g \in [1..n -> Int],
           NEW F, Adds(F, n, f), NEW G, Adds(G, n, g),
           NEW P, Adds(P, n, Products(n, f, g)), NEW j \in 1..n
    PROVE  PairsTo(j, f, g) = LastPairs(j, f, g, F, G, P)
  <1> DEFINE m == j - 1
             h == [i \in 1..m |-> (f[j] - f[i]) * (g[j] - g[i])]
             fg == Products(n, f, g)
  <1>1. m \in Nat /\ m < n /\ j \in 1..n
    OBVIOUS
  <1>2. \A i \in 1..n : f[i] \in Int /\ g[i] \in Int /\ fg[i] \in Int /\ fg[i] = f[i] * g[i]
    <2>1. \A u, v \in Int : u * v \in Int
      OBVIOUS
    <2> QED
      BY <2>1 DEF Products
  <1>3. \A i \in 1..m : h[i] \in Int /\ h[i] = (f[j] - f[i]) * (g[j] - g[i])
    <2>1. \A u, v \in Int : u * v \in Int /\ u - v \in Int
      OBVIOUS
    <2>2. \A i \in 1..m : i \in 1..n
      BY <1>1
    <2> QED
      BY <1>1, <1>2, <2>1, <2>2
  <1> HIDE DEF m, h, fg
  <1>4. PICK H : Adds(H, m, h) /\ SumTo(m, h) = H[m]
    BY <1>1, SumUnfolds
  <1>5. H[0] = 0 /\ (\A i \in 0..m : H[i] \in Int) /\ \A i \in 0..(m - 1) : H[i + 1] = H[i] + h[i + 1]
    BY <1>1, <1>3, <1>4, AddsFacts
  <1>6. F[0] = 0 /\ (\A i \in 0..n : F[i] \in Int) /\ \A i \in 0..(n - 1) : F[i + 1] = F[i] + f[i + 1]
    BY <1>2, AddsFacts
  <1>7. G[0] = 0 /\ (\A i \in 0..n : G[i] \in Int) /\ \A i \in 0..(n - 1) : G[i + 1] = G[i] + g[i + 1]
    BY <1>2, AddsFacts
  <1>8. P[0] = 0 /\ (\A i \in 0..n : P[i] \in Int) /\ \A i \in 0..(n - 1) : P[i + 1] = P[i] + fg[i + 1]
    <2>1. Adds(P, n, fg)
      BY DEF fg
    <2> QED
      BY <1>2, <2>1, AddsFacts
  <1> DEFINE c == f[j]
             d == g[j]
             V(k) == k * (c * d) - c * G[k] - d * F[k] + P[k]
             S == {k \in 0..m : H[k] = V(k)}
  <1>9. c \in Int /\ d \in Int
    BY <1>1, <1>2
  <1>10. 0 \in S
    <2>1. c * 0 = 0 /\ d * 0 = 0 /\ 0 * (c * d) = 0
      BY <1>9
    <2> HIDE DEF c, d
    <2> QED
      BY <1>1, <1>5, <1>6, <1>7, <1>8, <2>1
  <1>11. ASSUME NEW k \in 0..(m - 1), k \in S PROVE k + 1 \in S
    <2>1. k \in 0..n /\ k \in 0..(n - 1) /\ k + 1 \in 1..n /\ k + 1 \in 1..m /\ k + 1 \in 0..m /\ k \in Int
      BY <1>1
    <2> DEFINE a == f[k + 1]
               b == g[k + 1]
    <2>2. a \in Int /\ b \in Int /\ fg[k + 1] = a * b /\ h[k + 1] = (c - a) * (d - b)
      BY <1>2, <1>3, <2>1
    <2>3. F[k] \in Int /\ G[k] \in Int /\ P[k] \in Int
      BY <1>6, <1>7, <1>8, <2>1
    <2>4. F[k + 1] = F[k] + a /\ G[k + 1] = G[k] + b /\ P[k + 1] = P[k] + a * b
      BY <1>6, <1>7, <1>8, <2>1, <2>2
    <2>5. H[k + 1] = H[k] + (c - a) * (d - b) /\ H[k] = V(k)
      BY <1>5, <1>11, <2>1, <2>2
    <2> HIDE DEF a, b, c, d
    <2>6. (k * (c * d) - c * G[k] - d * F[k] + P[k]) + (c - a) * (d - b)
            = (k + 1) * (c * d) - c * (G[k] + b) - d * (F[k] + a) + (P[k] + a * b)
      <3> DEFINE u == F[k]
                 v == G[k]
                 w == P[k]
      <3>1. k \in Int /\ u \in Int /\ v \in Int /\ w \in Int
        BY <2>1, <2>3
      <3> HIDE DEF u, v, w
      <3>2. (k * (c * d) - c * v - d * u + w) + (c - a) * (d - b)
              = (k + 1) * (c * d) - c * (v + b) - d * (u + a) + (w + a * b)
        BY <1>9, <2>2, <3>1
      <3> QED
        BY <3>2 DEF u, v, w
    <2>7. H[k + 1] = V(k + 1)
      BY <2>4, <2>5, <2>6, Zenon
    <2> QED
      BY <2>1, <2>7
  <1>12. \A k \in 0..m : k \in S
    <2> HIDE DEF S
    <2> QED
      BY <1>1, <1>10, <1>11, Induction, Zenon
  <1>13. H[m] = V(m)
    <2>1. m \in 0..m
      BY <1>1
    <2> QED
      BY <1>12, <2>1
  <1> QED
    BY <1>4, <1>13 DEF m, h, PairsTo, LastPairs

\* The covariance, times n squared, is the sum over all pairs: by induction on n.
LEMMA CrossSum ==
    ASSUME NEW n \in Nat, NEW f \in [1..n -> Int], NEW g \in [1..n -> Int]
    PROVE  Pairs(n, f, g) = n * SumTo(n, Products(n, f, g)) - SumTo(n, f) * SumTo(n, g)
  <1> DEFINE fg == Products(n, f, g)
             h == [j \in 1..n |-> PairsTo(j, f, g)]
  <1>1. PICK F : Adds(F, n, f) /\ SumTo(n, f) = F[n]
    BY SumUnfolds
  <1>2. PICK G : Adds(G, n, g) /\ SumTo(n, g) = G[n]
    BY SumUnfolds
  <1>3. PICK P : Adds(P, n, fg) /\ SumTo(n, fg) = P[n]
    <2> HIDE DEF fg
    <2> QED
      BY SumUnfolds
  <1>4. PICK H : Adds(H, n, h) /\ SumTo(n, h) = H[n]
    <2> HIDE DEF h
    <2> QED
      BY SumUnfolds
  <1>5. \A i \in 1..n : f[i] \in Int /\ g[i] \in Int /\ fg[i] \in Int /\ fg[i] = f[i] * g[i]
    <2>1. \A u, v \in Int : u * v \in Int
      OBVIOUS
    <2> QED
      BY <2>1 DEF Products
  <1>6. ASSUME NEW j \in 1..n
        PROVE  h[j] = (j - 1) * (f[j] * g[j]) - f[j] * G[j - 1] - g[j] * F[j - 1] + P[j - 1]
    <2>1. h[j] = PairsTo(j, f, g)
      OBVIOUS
    <2> HIDE DEF h
    <2>2. /\ n \in Nat /\ f \in [1..n -> Int] /\ g \in [1..n -> Int] /\ j \in 1..n
          /\ Adds(F, n, f) /\ Adds(G, n, g) /\ Adds(P, n, Products(n, f, g))
      BY <1>1, <1>2, <1>3, <1>6
    <2>3. PairsTo(j, f, g) = LastPairs(j, f, g, F, G, P)
      BY <2>2, InnerSum
    <2> QED
      BY <2>1, <2>3, Zenon DEF LastPairs
  <1> HIDE DEF fg, h
  <1>7. F[0] = 0 /\ (\A i \in 0..n : F[i] \in Int) /\ \A i \in 0..(n - 1) : F[i + 1] = F[i] + f[i + 1]
    BY <1>1, <1>5, AddsFacts
  <1>8. G[0] = 0 /\ (\A i \in 0..n : G[i] \in Int) /\ \A i \in 0..(n - 1) : G[i + 1] = G[i] + g[i + 1]
    BY <1>2, <1>5, AddsFacts
  <1>9. P[0] = 0 /\ (\A i \in 0..n : P[i] \in Int) /\ \A i \in 0..(n - 1) : P[i + 1] = P[i] + fg[i + 1]
    BY <1>3, <1>5, AddsFacts
  <1>10. \A j \in 1..n : h[j] \in Int
    <2> TAKE j \in 1..n
    <2>1. j - 1 \in 0..n
      OBVIOUS
    <2>2. f[j] \in Int /\ g[j] \in Int /\ F[j - 1] \in Int /\ G[j - 1] \in Int /\ P[j - 1] \in Int
      BY <1>5, <1>7, <1>8, <1>9, <2>1
    <2>3. \A u, v \in Int : u * v \in Int
      OBVIOUS
    <2>4. /\ (j - 1) * (f[j] * g[j]) \in Int /\ f[j] * G[j - 1] \in Int
          /\ g[j] * F[j - 1] \in Int
      BY <2>1, <2>2, <2>3
    <2>5. \A u, v, x, y \in Int : u - v - x + y \in Int
      OBVIOUS
    <2>6. (j - 1) * (f[j] * g[j]) - f[j] * G[j - 1] - g[j] * F[j - 1] + P[j - 1] \in Int
      BY <2>2, <2>4, <2>5, Zenon
    <2> QED
      BY <1>6, <2>6, Zenon
  <1>11. H[0] = 0 /\ (\A i \in 0..n : H[i] \in Int) /\ \A i \in 0..(n - 1) : H[i + 1] = H[i] + h[i + 1]
    BY <1>4, <1>10, AddsFacts
  <1> DEFINE V(k) == k * P[k] - F[k] * G[k]
             S == {k \in 0..n : H[k] = V(k)}
  <1>12. 0 \in S
    BY <1>7, <1>8, <1>9, <1>11
  <1>13. ASSUME NEW k \in 0..(n - 1), k \in S PROVE k + 1 \in S
    <2>1. k \in 0..n /\ k + 1 \in 1..n /\ k + 1 \in 0..n /\ k \in Int /\ (k + 1) - 1 = k
      OBVIOUS
    <2> DEFINE a == f[k + 1]
               b == g[k + 1]
    <2>2. a \in Int /\ b \in Int /\ fg[k + 1] = a * b
      BY <1>5, <2>1
    <2>3. F[k] \in Int /\ G[k] \in Int /\ P[k] \in Int
      BY <1>7, <1>8, <1>9, <2>1
    <2>4. F[k + 1] = F[k] + a /\ G[k + 1] = G[k] + b /\ P[k + 1] = P[k] + a * b
      BY <1>7, <1>8, <1>9, <2>1, <2>2
    <2>5. h[k + 1] = k * (a * b) - a * G[k] - b * F[k] + P[k]
      BY <1>6, <2>1
    <2>6. H[k + 1] = H[k] + h[k + 1] /\ H[k] = V(k)
      BY <1>11, <1>13, <2>1
    <2> HIDE DEF a, b
    <2>7. (k + 1) * (P[k] + a * b) - (F[k] + a) * (G[k] + b)
            = (k * P[k] - F[k] * G[k]) + (k * (a * b) - a * G[k] - b * F[k] + P[k])
      <3> DEFINE u == F[k]
                 v == G[k]
                 w == P[k]
      <3>1. k \in Int /\ u \in Int /\ v \in Int /\ w \in Int
        BY <2>1, <2>3
      <3> HIDE DEF u, v, w
      <3>2. (k + 1) * (w + a * b) - (u + a) * (v + b)
              = (k * w - u * v) + (k * (a * b) - a * v - b * u + w)
        BY <2>2, <3>1
      <3> QED
        BY <3>2 DEF u, v, w
    <2>8. H[k + 1] = V(k + 1)
      BY <2>4, <2>5, <2>6, <2>7, Zenon
    <2> QED
      BY <2>1, <2>8
  <1>14. \A k \in 0..n : k \in S
    <2> HIDE DEF S
    <2> QED
      BY <1>12, <1>13, Induction, Zenon
  <1>15. H[n] = V(n)
    <2>1. n \in 0..n
      OBVIOUS
    <2> QED
      BY <1>14, <2>1
  <1> QED
    BY <1>1, <1>2, <1>3, <1>4, <1>15 DEF Pairs, h, fg

\* A sum of naturals is one, and at least its last term.
LEMMA SumAtLeast ==
    ASSUME NEW n \in Nat, NEW f, \A i \in 1..n : f[i] \in Nat
    PROVE  SumTo(n, f) \in Nat /\ (n > 0 => SumTo(n, f) >= f[n])
  <1>1. PICK F : Adds(F, n, f) /\ SumTo(n, f) = F[n]
    BY SumUnfolds
  <1>2. F[0] = 0 /\ (\A i \in 0..n : F[i] \in Int) /\ \A i \in 0..(n - 1) : F[i + 1] = F[i] + f[i + 1]
    BY <1>1, AddsFacts
  <1> DEFINE S == {k \in 0..n : F[k] \in Nat}
  <1>3. 0 \in S
    BY <1>2
  <1>4. ASSUME NEW k \in 0..(n - 1), k \in S PROVE k + 1 \in S
    <2>1. k + 1 \in 1..n /\ k + 1 \in 0..n
      OBVIOUS
    <2> QED
      BY <1>2, <1>4, <2>1
  <1>5. \A k \in 0..n : F[k] \in Nat
    <2>1. \A k \in 0..n : k \in S
      <3> HIDE DEF S
      <3> QED
        BY <1>3, <1>4, Induction, Zenon
    <2> QED
      BY <2>1
  <1>6. n > 0 => F[n] >= f[n]
    <2> SUFFICES ASSUME n > 0 PROVE F[n] >= f[n]
      OBVIOUS
    <2>1. n - 1 \in 0..(n - 1) /\ n - 1 \in 0..n /\ (n - 1) + 1 = n /\ n \in 1..n
      OBVIOUS
    <2>2. F[n] = F[n - 1] + f[n] /\ F[n - 1] \in Nat /\ f[n] \in Nat
      BY <1>2, <1>5, <2>1
    <2> QED
      BY <2>2
  <1>7. F[n] \in Nat
    <2>1. n \in 0..n
      OBVIOUS
    <2> QED
      BY <1>5, <2>1
  <1> QED
    BY <1>1, <1>6, <1>7

\* The x of computeRPSTrend.
Positions(n) == [i \in 1..n |-> i - 1]

\* The differences of the positions: j - i, whose squares add up to more than zero.
LEMMA PairsPositive ==
    ASSUME NEW n \in Nat, n >= 2
    PROVE  Pairs(n, Positions(n), Positions(n)) \in Nat \ {0}
  <1> DEFINE x == Positions(n)
             h == [j \in 1..n |-> PairsTo(j, x, x)]
  <1>1. \A i \in 1..n : x[i] = i - 1
    BY DEF Positions
  <1> HIDE DEF x
  <1>2. ASSUME NEW j \in 1..n
        PROVE  PairsTo(j, x, x) \in Nat /\ (j > 1 => PairsTo(j, x, x) >= 1)
    <2> DEFINE f == [i \in 1..(j - 1) |-> (x[j] - x[i]) * (x[j] - x[i])]
    <2>1. \A i \in 1..(j - 1) : x[j] - x[i] = j - i /\ j - i \in Nat
      BY <1>1
    <2>2. \A u \in Nat : u * u \in Nat
      OBVIOUS
    <2>3. \A i \in 1..(j - 1) : f[i] \in Nat
      BY <2>1, <2>2
    <2>4. j > 1 => f[j - 1] = 1
      <3> SUFFICES ASSUME j > 1 PROVE f[j - 1] = 1
        OBVIOUS
      <3>1. j - 1 \in 1..(j - 1) /\ j - (j - 1) = 1
        OBVIOUS
      <3>2. x[j] - x[j - 1] = 1
        BY <2>1, <3>1
      <3> QED
        BY <3>1, <3>2
    <2>5. j - 1 \in Nat /\ (j > 1 => j - 1 > 0)
      OBVIOUS
    <2> HIDE DEF f
    <2>6. SumTo(j - 1, f) \in Nat /\ (j - 1 > 0 => SumTo(j - 1, f) >= f[j - 1])
      BY <2>3, <2>5, SumAtLeast
    <2>7. PairsTo(j, x, x) = SumTo(j - 1, f)
      BY DEF PairsTo, f
    <2> QED
      BY <2>4, <2>5, <2>6, <2>7
  <1>3. (\A j \in 1..n : h[j] \in Nat) /\ h[n] >= 1
    <2>1. n \in 1..n /\ n > 1
      OBVIOUS
    <2> QED
      BY <1>2, <2>1
  <1>4. Pairs(n, x, x) = SumTo(n, h)
    BY DEF Pairs
  <1> HIDE DEF h
  <1>5. SumTo(n, h) \in Nat /\ SumTo(n, h) >= h[n]
    BY <1>3, SumAtLeast
  <1>6. n \in 1..n
    OBVIOUS
  <1> QED
    BY <1>3, <1>4, <1>5, <1>6 DEF x

\* computeRPSTrend divides the sum over the pairs of (j - i) * (y[j] - y[i]) by the one
\* of (j - i) * (j - i).
LEMMA TrendOverPairs ==
    ASSUME NEW w, NEW y \in Seq(Nat), y = Values(w), NEW n \in Nat, n = Len(y), n >= 3
    PROVE  /\ Trend(w).over = Pairs(n, Positions(n), y)
           /\ Trend(w).under = Pairs(n, Positions(n), Positions(n))
  <1> DEFINE x == Positions(n)
  <1>1. x \in [1..n -> Int] /\ y \in [1..n -> Int] /\ \A i \in 1..n : x[i] = i - 1
    BY DEF Positions
  <1>2. Products(n, x, y) = [i \in 1..n |-> (i - 1) * y[i]]
    BY <1>1 DEF Products
  <1>3. Products(n, x, x) = [i \in 1..n |-> (i - 1) * (i - 1)]
    BY <1>1 DEF Products
  <1>4. x = [i \in 1..n |-> i - 1]
    BY DEF Positions
  <1>5. /\ Trend(w).over = n * SumTo(n, Products(n, x, y)) - SumTo(n, x) * SumTo(n, y)
        /\ Trend(w).under = n * SumTo(n, Products(n, x, x)) - SumTo(n, x) * SumTo(n, x)
    <2>1. ~(Len(Values(w)) < 3)
      OBVIOUS
    <2> HIDE DEF x
    <2>2. Trend(w) = [over |-> n * SumTo(n, Products(n, x, y)) - SumTo(n, x) * SumTo(n, y),
                      under |-> n * SumTo(n, Products(n, x, x)) - SumTo(n, x) * SumTo(n, x)]
      BY <1>2, <1>3, <1>4, <2>1, Zenon DEF Trend
    <2> DEFINE over == n * SumTo(n, Products(n, x, y)) - SumTo(n, x) * SumTo(n, y)
               under == n * SumTo(n, Products(n, x, x)) - SumTo(n, x) * SumTo(n, x)
    <2>3. Trend(w) = [over |-> over, under |-> under]
      BY <2>2
    <2> HIDE DEF over, under
    <2>4. Trend(w).over = over /\ Trend(w).under = under
      BY <2>3
    <2> QED
      BY <2>4 DEF over, under
  <1> HIDE DEF x
  <1>6. Pairs(n, x, y) = n * SumTo(n, Products(n, x, y)) - SumTo(n, x) * SumTo(n, y)
    BY <1>1, CrossSum
  <1>7. Pairs(n, x, x) = n * SumTo(n, Products(n, x, x)) - SumTo(n, x) * SumTo(n, x)
    BY <1>1, CrossSum
  <1> QED
    BY <1>5, <1>6, <1>7, Zenon DEF x

\* TrendIsMeanRise for a ring of natural samples.
LEMMA MeanRise ==
    ASSUME Values(rps) \in Seq(Nat)
    PROVE  TrendIsMeanRise
  <1> DEFINE y == Values(rps)
             n == Len(y)
             x == Positions(n)
             rise == SumTo(n, [j \in 1..n |-> SumTo(j - 1, [i \in 1..(j - 1) |-> (j - i) * (y[j] - y[i])])])
             run == SumTo(n, [j \in 1..n |-> SumTo(j - 1, [i \in 1..(j - 1) |-> (j - i) * (j - i)])])
  <1>0. y \in Seq(Nat) /\ n \in Nat /\ n = Len(y) /\ y = Values(rps)
    OBVIOUS
  <1>1. \A i \in 1..n : x[i] = i - 1
    BY DEF Positions
  <1>2. ASSUME NEW j \in 1..n
        PROVE  /\ [i \in 1..(j - 1) |-> (j - i) * (y[j] - y[i])]
                    = [i \in 1..(j - 1) |-> (x[j] - x[i]) * (y[j] - y[i])]
               /\ [i \in 1..(j - 1) |-> (j - i) * (j - i)]
                    = [i \in 1..(j - 1) |-> (x[j] - x[i]) * (x[j] - x[i])]
    <2>1. \A i \in 1..(j - 1) : x[j] - x[i] = j - i
      <3> HIDE DEF x, y, n
      <3> TAKE i \in 1..(j - 1)
      <3>1. i \in 1..n /\ j \in 1..n /\ i \in Int /\ j \in Int
        BY <1>0, <1>2
      <3>2. x[j] = j - 1 /\ x[i] = i - 1
        BY <1>1, <3>1, Zenon
      <3> QED
        BY <3>1, <3>2
    <2> HIDE DEF x, y
    <2> QED
      BY <2>1
  <1> HIDE DEF x, y, n
  <1>3. rise = Pairs(n, x, y)
    BY <1>2 DEF Pairs, PairsTo
  <1>4. run = Pairs(n, x, x)
    BY <1>2 DEF Pairs, PairsTo
  <1> HIDE DEF rise, run
  <1>5. ASSUME n >= 3
        PROVE  Trend(rps).over = rise /\ Trend(rps).under = run /\ run \in Nat \ {0}
    <2>1. run \in Nat \ {0}
      BY <1>0, <1>4, <1>5, PairsPositive DEF x
    <2> QED
      BY <1>0, <1>3, <1>4, <1>5, <2>1, TrendOverPairs DEF x
  <1>6. ASSUME n < 3 PROVE Trend(rps).over = 0 /\ Trend(rps).under = 1
    BY <1>6 DEF Trend, n, y
  <1>7. Trend(rps).under > 0
    BY <1>0, <1>5, <1>6
  <1>8. n >= 3 => Trend(rps).over * run = rise * Trend(rps).under
    BY <1>5, Zenon
  <1> QED
    BY <1>6, <1>7, <1>8, Zenon DEF TrendIsMeanRise, rise, run, n, y

-----------------------------------------------------------------------------
(* The inductive invariant.                                                *)

LEMMA SizeFacts ==
    LatencySize \in Nat \ {0} /\ RPSSize \in Nat \ {0} /\ Latencies \subseteq Nat
  BY SizeAssumption

LEMMA NewWindowType == ASSUME NEW n \in Nat \ {0} PROVE NewWindow(n) \in Rings(n)
  <1>1. [i \in 0..(n - 1) |-> 0] \in [0..(n - 1) -> Nat] /\ 0 \in 0..(n - 1)
    OBVIOUS
  <1> QED
    BY <1>1 DEF NewWindow, Rings

LEMMA RingWellFormed ==
    ASSUME NEW n \in Nat \ {0}, NEW w \in Rings(n)
    PROVE  /\ w.pos \in DOMAIN w.data /\ w.full \in BOOLEAN
           /\ \A i \in DOMAIN w.data : w.data[i] \in Nat
  BY DEF Rings

LEMMA InitIInv == Init => IInv
  <1> SUFFICES ASSUME Init PROVE IInv
    OBVIOUS
  <1>1. Windows
    BY SizeFacts, NewWindowType DEF Init, Windows
  <1>2. TypeOK
    <2>1. \A w \in {latency, rps} :
            /\ w.pos \in DOMAIN w.data /\ w.full \in BOOLEAN
            /\ \A i \in DOMAIN w.data : w.data[i] \in Nat
      BY <1>1, SizeFacts, RingWellFormed DEF Windows
    <2> QED
      BY <2>1, BoundAssumption DEF Init, TypeOK
  <1>3. Ledger
    <2>1. Active = {}
      BY DEF Init, Active
    <2> QED
      BY <2>1, FS_EmptySet DEF Init, Ledger, OutcomeLedger
  <1>4. Histories
    <2>1. Suffix(<<>>, 0)
      BY HistoryAssumption, EmptySeq DEF Suffix
    <2> QED
      BY <2>1 DEF Init, Histories
  <1> QED
    BY <1>1, <1>2, <1>3, <1>4 DEF IInv

LEMMA WindowStep == IInv /\ [Next]_vars => Windows'
  <1> SUFFICES ASSUME IInv, [Next]_vars
               PROVE  Windows'
    OBVIOUS
  <1>1. ASSUME NEW h \in Handlers, Succeed(h) PROVE Windows'
    <2>1. PICK v \in Nat : latency' = AddTo(latency, v)
      BY <1>1, SizeFacts DEF Succeed
    <2>2. latency' \in Rings(LatencySize)
      BY <2>1, SizeFacts, AddToFacts DEF IInv, Windows
    <2> QED
      BY <1>1, <2>2 DEF Succeed, IInv, Windows
  <1>2. CASE Collect
    <2>1. totalRequests - prevRequests \in Nat
      BY DEF IInv, TypeOK
    <2>2. AddTo(rps, totalRequests - prevRequests) \in Rings(RPSSize)
      BY <2>1, SizeFacts, AddToFacts DEF IInv, Windows
    <2> QED
      BY <1>2, <2>2 DEF Collect, IInv, Windows
  <1>3. ASSUME UNCHANGED <<latency, rps>> PROVE Windows'
    BY <1>3 DEF IInv, Windows
  <1> QED
    BY <1>1, <1>2, <1>3 DEF Next, vars, Begin, EndAttempt, Fail, Event, Mirror

LEMMA TypeStep == IInv /\ [Next]_vars => TypeOK'
  <1> SUFFICES ASSUME IInv, [Next]_vars
               PROVE  TypeOK'
    OBVIOUS
  <1> DEFINE RingsOK == \A w \in {latency, rps} :
                          /\ w.pos \in DOMAIN w.data /\ w.full \in BOOLEAN
                          /\ \A i \in DOMAIN w.data : w.data[i] \in Nat
             Scalars ==
               /\ pc \in [Handlers -> {"idle", "active"}]
               /\ prevRequests \in 0..totalRequests /\ prevErrors \in 0..totalErrors
               /\ totalRequests \in 0..MaxRecords /\ latencies \in Nat
               /\ ended \in Nat /\ notified \in Nat /\ logged \in Nat
               /\ mirroring \subseteq Writers
  <1>1. RingsOK'
    <2>1. latency' \in Rings(LatencySize) /\ rps' \in Rings(RPSSize)
      BY WindowStep DEF Windows
    <2> QED
      BY <2>1, SizeFacts, RingWellFormed
  <1>2. Scalars /\ totalErrors \in Nat /\ MaxRecords \in Nat
    BY BoundAssumption DEF IInv, TypeOK, Ledger
  <1>3. Scalars'
    <2> USE <1>2 DEF counters, histories, Verbose
    <2>1. ASSUME NEW h \in Handlers, Begin(h) PROVE Scalars'
      BY <2>1 DEF Begin, Bounded
    <2>2. ASSUME NEW h \in Handlers, EndAttempt(h) \/ Succeed(h) PROVE Scalars'
      BY <2>2 DEF EndAttempt, Succeed
    <2>3. ASSUME NEW h \in Handlers, Fail(h) PROVE Scalars'
      BY <2>3 DEF Fail
    <2>4. CASE Collect
      BY <2>4 DEF Collect
    <2>5. ASSUME NEW w \in Writers, Event(w) \/ Mirror(w) PROVE Scalars'
      BY <2>5 DEF Event, Mirror
    <2>6. CASE UNCHANGED vars
      BY <2>6 DEF vars
    <2> QED
      BY <2>1, <2>2, <2>3, <2>4, <2>5, <2>6 DEF Next
  <1> QED
    BY <1>1, <1>3 DEF TypeOK

LEMMA LedgerStep == IInv /\ [Next]_vars => Ledger'
  <1> SUFFICES ASSUME IInv, [Next]_vars
               PROVE  Ledger'
    OBVIOUS
  <1>1. /\ IsFiniteSet(Active) /\ Cardinality(Active) \in Nat
        /\ totalRequests = totalErrors + latencies + Cardinality(Active)
        /\ totalRequests \in Nat /\ totalErrors \in Nat /\ latencies \in Nat
        /\ pc \in [Handlers -> {"idle", "active"}]
    BY BoundAssumption, FS_CardinalityType DEF IInv, TypeOK, Ledger, OutcomeLedger
  <1>2. ASSUME NEW h \in Handlers, Begin(h) PROVE Ledger'
    <2>1. h \notin Active /\ Active' = Active \cup {h}
      BY <1>1, <1>2 DEF Begin, Active
    <2>2. IsFiniteSet(Active') /\ Cardinality(Active') = Cardinality(Active) + 1
      BY <1>1, <2>1, FS_AddElement
    <2>3. totalRequests' = totalRequests + 1 /\ totalErrors' = totalErrors /\ latencies' = latencies
      BY <1>2 DEF Begin
    <2> QED
      BY <1>1, <2>2, <2>3 DEF Ledger, OutcomeLedger
  <1>3. ASSUME NEW h \in Handlers, Fail(h) \/ Succeed(h) PROVE Ledger'
    <2>1. h \in Active /\ Active' = Active \ {h}
      BY <1>1, <1>3 DEF Fail, Succeed, Active
    <2>2. IsFiniteSet(Active') /\ Cardinality(Active') = Cardinality(Active) - 1
      BY <1>1, <2>1, FS_RemoveElement
    <2>3. totalErrors' \in Nat /\ totalErrors' + latencies' = totalErrors + latencies + 1
      BY <1>1, <1>3 DEF Fail, Succeed, counters
    <2>4. totalRequests' = totalRequests /\ latencies' \in Nat
      BY <1>1, <1>3 DEF Fail, Succeed, counters
    <2>5. totalRequests' = totalErrors' + latencies' + Cardinality(Active')
      <3> DEFINE c == Cardinality(Active)
                 d == Cardinality(Active')
      <3>1. c \in Nat /\ d = c - 1 /\ totalRequests = totalErrors + latencies + c
        BY <1>1, <2>2
      <3> HIDE DEF c, d
      <3>2. totalErrors \in Nat /\ latencies \in Nat
        BY <1>1
      <3>3. totalRequests' = totalErrors + latencies + 1 + d
        BY <2>4, <3>1, <3>2
      <3>4. totalRequests' = totalErrors' + latencies' + d
        BY <2>3, <3>3, Zenon
      <3> QED
        BY <3>4 DEF d
    <2> QED
      BY <2>2, <2>3, <2>5 DEF Ledger, OutcomeLedger
  <1>4. ASSUME UNCHANGED <<pc, totalRequests, totalErrors, latencies>> PROVE Ledger'
    BY <1>1, <1>4 DEF Ledger, OutcomeLedger, Active
  <1> QED
    BY <1>2, <1>3, <1>4 DEF Next, vars, counters, EndAttempt, Collect, Event, Mirror

LEMMA HistoryStep == IInv /\ [Next]_vars => Histories'
  <1> SUFFICES ASSUME IInv, [Next]_vars
               PROVE  Histories'
    OBVIOUS
  <1>1. /\ ended \in Nat /\ notified \in Nat /\ logged \in Nat
        /\ Suffix(completed, ended) /\ Suffix(events, notified) /\ Suffix(verbose, logged)
    BY DEF IInv, TypeOK, Histories
  <1>2. ASSUME NEW h \in Handlers, EndAttempt(h) PROVE Histories'
    BY <1>1, <1>2, LoggedSuffix DEF EndAttempt, Histories
  <1>3. ASSUME NEW w \in Writers, Event(w) PROVE Histories'
    BY <1>1, <1>3, LoggedSuffix DEF Event, Histories
  <1>4. ASSUME NEW w \in Writers, Mirror(w) PROVE Histories'
    BY <1>1, <1>4, LoggedSuffix DEF Mirror, Verbose, Histories
  <1>5. ASSUME UNCHANGED histories PROVE Histories'
    BY <1>1, <1>5 DEF histories, Histories
  <1> QED
    BY <1>2, <1>3, <1>4, <1>5 DEF Next, vars, Begin, Fail, Succeed, Collect

LEMMA InductiveInvariant == Spec => []IInv
  <1>1. IInv /\ [Next]_vars => IInv'
    BY WindowStep, TypeStep, LedgerStep, HistoryStep DEF IInv
  <1> QED
    BY InitIInv, <1>1, PTL DEF Spec

-----------------------------------------------------------------------------
\* RollingWindow.Add and Collect keep the rings well formed, and what Collect
\* remembers never exceeds what was counted.
THEOREM TypeCorrect == Spec => []TypeOK
  BY InductiveInvariant, PTL DEF IInv

\* chatRequestHandler records one outcome of each request it counted, whatever the
\* handlers, the loop of the autoscaler and TriggerScaleUp do in between.
THEOREM OutcomesRecorded == Spec => []OutcomeLedger
  BY InductiveInvariant, PTL DEF IInv, Ledger

\* Verbose, Event and InFlightStore.Remove, trimming at any Cap to any Keep: readers
\* that ask for up to Keep entries get the latest ones, in order.
THEOREM RecentNeverLost == Spec => []HistoryKept
  <1>1. IInv => HistoryKept
    BY SuffixIsRecent DEF IInv, TypeOK, Histories, HistoryKept
  <1> QED
    BY InductiveInvariant, <1>1, PTL

\* RollingWindow.Percentile, for every window size and every content of the ring: the
\* insertion sort and the rank arithmetic leave as many samples on either side as the
\* percentile says.
THEOREM PercentilesSplit == Spec => []PercentileSplits
  <1>1. ASSUME IInv, NEW p \in {0, 50, 95, 100}, WindowLen(latency) > 0
        PROVE  SplitsAt(latency, p)
    <2>1. latency \in Rings(LatencySize) /\ LatencySize \in Nat \ {0}
      BY <1>1, SizeFacts DEF IInv, Windows
    <2>2. Values(latency) \in Seq(Nat) /\ Len(Values(latency)) = WindowLen(latency)
      BY <2>1, ValuesFacts, RingSize DEF WindowLen, Rings
    <2> QED
      BY <1>1, <2>2, RingSplits
  <1>2. IInv => PercentileSplits
    BY <1>1 DEF PercentileSplits, SplitsAt
  <1> QED
    BY InductiveInvariant, <1>2, PTL

\* computeRPSTrend, for every window size and content: with three samples or more the
\* least-squares slope has a positive denominator and is the mean rise over all pairs.
THEOREM TrendIsRise == Spec => []TrendIsMeanRise
  <1>1. IInv => TrendIsMeanRise
    <2> SUFFICES ASSUME IInv PROVE Values(rps) \in Seq(Nat)
      BY MeanRise
    <2>1. rps \in Rings(RPSSize) /\ RPSSize \in Nat \ {0}
      BY SizeFacts DEF IInv, Windows
    <2> QED
      BY <2>1, ValuesFacts
  <1> QED
    BY InductiveInvariant, <1>1, PTL

\* RollingWindow implements a sliding window of the last LatencySize samples: the
\* ring that wraps, its position and its flag are invisible to readers of Values.
THEOREM RingImplementsWindow == Spec => WindowSpec
  <1>1. Init => Window!Init
    <2> SUFFICES ASSUME Init PROVE Values(latency) = <<>>
      BY DEF Window!Init
    <2>1. latency \in Rings(LatencySize)
      BY SizeFacts, NewWindowType DEF Init
    <2>2. ~latency.full /\ latency.pos = 0
      BY DEF Init, NewWindow
    <2>3. Values(latency) \in Seq(Nat) /\ Len(Values(latency)) = 0
      BY <2>1, <2>2, SizeFacts, ValuesFacts
    <2> QED
      BY <2>3
  <1>2. IInv /\ [Next]_vars => [Window!Add]_(Values(latency))
    <2> SUFFICES ASSUME IInv, [Next]_vars
                 PROVE  [Window!Add]_(Values(latency))
      OBVIOUS
    <2>1. ASSUME NEW h \in Handlers, Succeed(h) PROVE Window!Add
      <3>1. PICK v \in Latencies : latency' = AddTo(latency, v)
        BY <2>1 DEF Succeed
      <3>2. Values(AddTo(latency, v)) = Window!Last(Append(Values(latency), v))
        BY SizeFacts, RingSlides DEF IInv, Windows
      <3>3. Values(latency)' = Values(AddTo(latency, v))
        BY <3>1 DEF Values, WindowLen, SizeOf
      <3> QED
        BY <3>2, <3>3 DEF Window!Add
    <2>2. ASSUME latency' = latency PROVE Values(latency)' = Values(latency)
      BY <2>2 DEF Values, WindowLen, SizeOf
    <2> QED
      BY <2>1, <2>2 DEF Next, vars, Begin, EndAttempt, Fail, Collect, Event, Mirror
  <1> QED
    BY <1>1, <1>2, InductiveInvariant, PTL DEF Spec, WindowSpec, Window!Spec
=============================================================================
