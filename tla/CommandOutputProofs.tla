------------------------- MODULE CommandOutputProofs --------------------------
(***************************************************************************)
(* Theorems about CommandOutput, for any sizes of chunks and tails, any    *)
(* amount of output and any number of printed pieces.                      *)
(*                                                                         *)
(* Joined is recursive.  What it does when the log grows is proved from    *)
(* its definition: every set of naturals that is not empty has a least     *)
(* element (Least), so a place of the log where a claim fails has a first, *)
(* and the claim holds before it.  From that one append of a text to the   *)
(* log appends the text to what is joined (JoiningEvents).                 *)
(*                                                                         *)
(* The invariant then says of each thread how much of each stream is in    *)
(* the log: it is a head of the text, in step with what the execution      *)
(* thread is about to append (Streaming), with what the worker has yet to  *)
(* record (WorkerRecords), complete once the command ended by itself       *)
(* (OwnIsWhole), and never shorter than what a finisher has read of it     *)
(* (CollectedIsHead).                                                      *)
(***************************************************************************)
EXTENDS CommandOutput, SequenceTheorems, NaturalsInduction, WellFoundedInduction, TLAPS

-----------------------------------------------------------------------------
(* What Joined is *)

\* Every set of naturals that is not empty has a least element.
LEMMA Least ==
  ASSUME NEW T \in SUBSET Nat, T # {}
  PROVE  \E m \in T : \A k \in T : m <= k
PROOF
  <1> DEFINE R == OpToRel(<, Nat)
  <1>0. IsWellFoundedOn(R, Nat)
    BY NatLessThanWellFounded
  <1>1. \E x \in T : \A y \in T : ~(<<y, x>> \in R)
    <2> HIDE DEF R
    <2> QED
    BY WFMin, <1>0
  <1>2. \A x, y \in Nat : x < y => <<x, y>> \in R
    BY DEF OpToRel
  <1>3. PICK x \in T : \A y \in T : ~(<<y, x>> \in R)
    BY <1>1
  <1> HIDE DEF R
  <1>4. \A k \in T : x <= k
    <2>1. TAKE k \in T
    <2>2. x \in Nat /\ k \in Nat
      OBVIOUS
    <2>3. ~(k < x)
      BY <1>2, <1>3, <2>2
    <2> QED
      BY <2>2, <2>3
  <1> QED
    BY <1>4

\* f is the recursive function of Joined, for the log out and its first n events.
IsJoin(f, out, s, n) ==
  f = [i \in 0..n |-> IF i = 0 THEN <<>> ELSE f[i - 1] \o TextFor(s, out[i])]

JoinFun(out, s) == CHOOSE f : IsJoin(f, out, s, Len(out))

\* Joined, of any log.
Joining(out, s) == JoinFun(out, s)[Len(out)]

\* Texts put one behind the other.
LEMMA TextsJoin ==
  ASSUME NEW a \in Texts, NEW b \in Texts
  PROVE  /\ a \o b \in Texts /\ Len(a \o b) = Len(a) + Len(b)
         /\ \A i \in 1..Len(a) + Len(b) : (a \o b)[i] = IF i <= Len(a) THEN a[i] ELSE b[i - Len(a)]
PROOF
  BY ConcatProperties DEF Texts

LEMMA TextsAssociate ==
  ASSUME NEW a \in Texts, NEW b \in Texts, NEW c \in Texts
  PROVE  (a \o b) \o c = a \o (b \o c)
PROOF
  <1> DEFINE S == Nat \ {0}
  <1>1. a \in Seq(S) /\ b \in Seq(S) /\ c \in Seq(S)
    BY DEF Texts
  <1> HIDE DEF S
  <1> QED
    BY <1>1, ConcatAssociative

LEMMA TextsEqual ==
  ASSUME NEW a \in Texts, NEW b \in Texts, Len(a) = Len(b), \A i \in 1..Len(a) : a[i] = b[i]
  PROVE  a = b
PROOF
  BY SeqEqual DEF Texts

LEMMA TextForIsText ==
  ASSUME NEW out \in Seq(OutputEvents), NEW i \in 1..Len(out), NEW s
  PROVE  TextFor(s, out[i]) \in Texts
PROOF
  <1>1. out[i] \in OutputEvents
    BY ElementOfSeq
  <1>2. <<>> \in Texts
    BY DEF Texts
  <1> QED
    BY <1>1, <1>2 DEF OutputEvents, TextFor

\* Every value of the recursive function is a text.
LEMMA JoinTyped ==
  ASSUME NEW out \in Seq(OutputEvents), NEW s, NEW n \in 0..Len(out), NEW f, IsJoin(f, out, s, n)
  PROVE  \A i \in 0..n : f[i] \in Texts
PROOF
  <1> DEFINE T == {i \in 0..n : f[i] \notin Texts}
  <1>1. SUFFICES ASSUME T # {} PROVE FALSE
    OBVIOUS
  <1>2. T \in SUBSET Nat
    OBVIOUS
  <1>3. PICK m \in T : \A k \in T : m <= k
    BY <1>1, <1>2, Least
  <1>4. m \in 0..n /\ f[m] \notin Texts
    BY <1>3
  <1>5. f[m] = IF m = 0 THEN <<>> ELSE f[m - 1] \o TextFor(s, out[m])
    BY <1>4 DEF IsJoin
  <1>6. m # 0
    BY <1>4, <1>5 DEF Texts
  <1>7. m - 1 \in 0..n /\ m \in 1..Len(out)
    BY <1>4, <1>6
  <1>8. f[m - 1] \in Texts
    BY <1>3, <1>7
  <1>9. TextFor(s, out[m]) \in Texts
    BY <1>7, TextForIsText
  <1>10. f[m - 1] \o TextFor(s, out[m]) \in Texts
    BY <1>8, <1>9, ConcatProperties DEF Texts
  <1> QED
    BY <1>4, <1>5, <1>6, <1>10

\* Two logs with the same first n events are joined in the same way up to n.
LEMMA JoinUnique ==
  ASSUME NEW out1, NEW out2, NEW s, NEW n \in Nat, NEW m \in Nat, n <= m, NEW f, NEW g,
         IsJoin(f, out1, s, n), IsJoin(g, out2, s, m),
         \A i \in 1..n : out1[i] = out2[i]
  PROVE  \A i \in 0..n : f[i] = g[i]
PROOF
  <1> DEFINE T == {i \in 0..n : f[i] # g[i]}
  <1>1. SUFFICES ASSUME T # {} PROVE FALSE
    OBVIOUS
  <1>2. T \in SUBSET Nat
    OBVIOUS
  <1>3. PICK k \in T : \A j \in T : k <= j
    BY <1>1, <1>2, Least
  <1>4. k \in 0..n /\ f[k] # g[k]
    BY <1>3
  <1>5. f[k] = IF k = 0 THEN <<>> ELSE f[k - 1] \o TextFor(s, out1[k])
    BY <1>4 DEF IsJoin
  <1>6. g[k] = IF k = 0 THEN <<>> ELSE g[k - 1] \o TextFor(s, out2[k])
    <2>1. k \in 0..m
      BY <1>4
    <2> QED
      BY <2>1 DEF IsJoin
  <1>7. k # 0
    BY <1>4, <1>5, <1>6
  <1>8. k - 1 \in 0..n /\ k \in 1..n
    BY <1>4, <1>7
  <1>9. f[k - 1] = g[k - 1]
    BY <1>3, <1>8
  <1> QED
    BY <1>4, <1>5, <1>6, <1>7, <1>8, <1>9

\* There is such a function for every log.
LEMMA JoinExists ==
  ASSUME NEW out \in Seq(OutputEvents), NEW s, NEW n \in 0..Len(out)
  PROVE  \E f : IsJoin(f, out, s, n)
PROOF
  <1> DEFINE T == {k \in 0..Len(out) : ~ \E f : IsJoin(f, out, s, k)}
  <1>1. SUFFICES ASSUME T # {} PROVE FALSE
    OBVIOUS
  <1>2. T \in SUBSET Nat
    BY LenProperties
  <1>3. PICK m \in T : \A k \in T : m <= k
    BY <1>1, <1>2, Least
  <1>4. m \in 0..Len(out) /\ ~ \E f : IsJoin(f, out, s, m)
    BY <1>3
  <1>5. m # 0
    <2>1. IsJoin([i \in 0..0 |-> <<>>], out, s, 0)
      BY DEF IsJoin
    <2> QED
      BY <2>1, <1>4
  <1>6. m - 1 \in 0..Len(out) /\ m \in Nat \ {0}
    BY <1>4, <1>5
  <1>7. PICK g : IsJoin(g, out, s, m - 1)
    <2>1. m - 1 \notin T
      BY <1>2, <1>3, <1>6
    <2> QED
      BY <2>1, <1>6
  <1> DEFINE f == [i \in 0..m |-> IF i = m THEN g[m - 1] \o TextFor(s, out[m]) ELSE g[i]]
  <1>8. ASSUME NEW i \in 0..m
        PROVE  f[i] = IF i = 0 THEN <<>> ELSE f[i - 1] \o TextFor(s, out[i])
    <2>1. CASE i = m
      <3>1. f[i] = g[m - 1] \o TextFor(s, out[i])
        BY <2>1
      <3>2. f[m - 1] = g[m - 1]
        BY <1>6
      <3> QED
        BY <3>1, <3>2, <2>1, <1>5
    <2>2. CASE i # m
      <3>1. i \in 0..m - 1 /\ f[i] = g[i]
        BY <2>2, <1>6
      <3>2. g[i] = IF i = 0 THEN <<>> ELSE g[i - 1] \o TextFor(s, out[i])
        BY <3>1, <1>7 DEF IsJoin
      <3>3. i # 0 => f[i - 1] = g[i - 1]
        BY <3>1, <1>6
      <3> QED
        BY <3>1, <3>2, <3>3
    <2> QED
      BY <2>1, <2>2
  <1>9. IsJoin(f, out, s, m)
    BY <1>8 DEF IsJoin
  <1> QED
    BY <1>9, <1>4

LEMMA JoinFunIsJoin ==
  ASSUME NEW out \in Seq(OutputEvents), NEW s
  PROVE  IsJoin(JoinFun(out, s), out, s, Len(out)) /\ Len(out) \in Nat
PROOF
  <1>1. Len(out) \in 0..Len(out) /\ Len(out) \in Nat
    BY LenProperties
  <1>2. \E f : IsJoin(f, out, s, Len(out))
    BY <1>1, JoinExists
  <1> QED
    BY <1>1, <1>2 DEF JoinFun

LEMMA JoiningIsText ==
  ASSUME NEW out \in Seq(OutputEvents), NEW s
  PROVE  Joining(out, s) \in Texts
PROOF
  <1>1. IsJoin(JoinFun(out, s), out, s, Len(out)) /\ Len(out) \in 0..Len(out)
    BY JoinFunIsJoin
  <1> QED
    BY <1>1, JoinTyped DEF Joining

LEMMA JoiningEmpty == \A s : Joining(<<>>, s) = <<>>
PROOF
  <1> SUFFICES ASSUME NEW s PROVE Joining(<<>>, s) = <<>>
    OBVIOUS
  <1>1. <<>> \in Seq(OutputEvents) /\ Len(<<>>) = 0
    BY EmptySeq
  <1>2. IsJoin(JoinFun(<<>>, s), <<>>, s, 0)
    BY <1>1, JoinFunIsJoin
  <1>3. JoinFun(<<>>, s)[0] = <<>>
    BY <1>2 DEF IsJoin
  <1> QED
    BY <1>1, <1>3 DEF Joining

\* An event more adds its text, if it is of the stream.
LEMMA JoiningAppend ==
  ASSUME NEW out \in Seq(OutputEvents), NEW e \in OutputEvents, NEW s
  PROVE  Joining(Append(out, e), s) = Joining(out, s) \o TextFor(s, e)
PROOF
  <1> DEFINE n == Len(out)
             long == Append(out, e)
             f == JoinFun(out, s)
             g == JoinFun(long, s)
  <1>1. /\ long \in Seq(OutputEvents) /\ Len(long) = n + 1
        /\ \A i \in 1..n : out[i] = long[i]
        /\ long[n + 1] = e
    BY AppendProperties
  <1>2. IsJoin(f, out, s, n) /\ n \in Nat
    BY JoinFunIsJoin
  <1>3. IsJoin(g, long, s, n + 1)
    BY <1>1, JoinFunIsJoin
  <1>4. Joining(out, s) = f[n] /\ Joining(long, s) = g[n + 1]
    BY <1>1 DEF Joining
  <1> HIDE DEF n, f, g, long
  <1>5. \A i \in 0..n : f[i] = g[i]
    <2> DEFINE m == n + 1
    <2>1. n <= m /\ m \in Nat /\ n \in Nat
      BY <1>2
    <2>2. IsJoin(f, out, s, n) /\ IsJoin(g, long, s, m) /\ \A i \in 1..n : out[i] = long[i]
      BY <1>1, <1>2, <1>3
    <2> HIDE DEF m
    <2> QED
      BY <2>1, <2>2, JoinUnique
  <1>6. g[n + 1] = g[n] \o TextFor(s, e)
    <2>1. n + 1 \in 0..n + 1 /\ n + 1 # 0 /\ (n + 1) - 1 = n
      BY <1>2
    <2>2. g[n + 1] = IF n + 1 = 0 THEN <<>> ELSE g[(n + 1) - 1] \o TextFor(s, long[n + 1])
      BY <1>3, <2>1 DEF IsJoin
    <2> QED
      BY <2>1, <2>2, <1>1
  <1>7. n \in 0..n
    BY <1>2
  <1> QED
    BY <1>4, <1>5, <1>6, <1>7 DEF long

LEMMA JoinedIs == \A s : Joined(s) = Joining(output, s)
PROOF
  BY DEF Joined, Joining, JoinFun, IsJoin

-----------------------------------------------------------------------------
(* Chunks *)

\* How far the first k chunks of a text reach.
Reached(text, k) == IF k * ChunkSize < Len(text) THEN k * ChunkSize ELSE Len(text)

\* There are as many chunks as it takes, and no more.
LEMMA ChunkCountFacts ==
  ASSUME NEW text \in Texts
  PROVE  /\ ChunkCount(text) \in Nat /\ Len(text) \in Nat
         /\ ChunkCount(text) * ChunkSize >= Len(text)
         /\ \A i \in Nat : i < ChunkCount(text) => i * ChunkSize < Len(text)
         /\ \A i \in Nat : i < ChunkCount(text) - 1 => (i + 1) * ChunkSize < Len(text)
PROOF
  <1> DEFINE L == Len(text)
             q == ChunkCount(text)
             c == ChunkSize
  <1>1. L \in Nat /\ c \in Nat /\ c > 0
    BY LenProperties, SizesAssumption DEF Texts
  <1>2. q = (L + c - 1) \div c
    BY DEF ChunkCount
  <1> HIDE DEF L, q, c
  <1>3. q \in Nat
    BY <1>1, <1>2
  <1>4. q * c <= L + c - 1 /\ L + c - 1 < q * c + c
    BY <1>1, <1>2, <1>3
  <1>5. ASSUME NEW i \in Nat, i < q
        PROVE  i * c < L
    <2>1. i + 1 <= q
      BY <1>5, <1>3
    <2>2. (i + 1) * c <= q * c
      BY <1>1, <1>3, <2>1
    <2>3. (i + 1) * c = i * c + c /\ i * c \in Nat
      BY <1>1
    <2> QED
      BY <1>1, <1>3, <1>4, <2>2, <2>3
  <1>6. ASSUME NEW i \in Nat, i < q - 1
        PROVE  (i + 1) * c < L
    <2>1. i + 1 \in Nat /\ i + 1 < q
      BY <1>6, <1>3
    <2> QED
      BY <2>1, <1>5
  <1>7. q * c >= L
    BY <1>1, <1>3, <1>4
  <1> QED
    BY <1>1, <1>3, <1>5, <1>6, <1>7 DEF L, q, c

LEMMA ReachedFacts ==
  ASSUME NEW text \in Texts
  PROVE  /\ \A i \in Nat : Reached(text, i) \in 0..Len(text)
         /\ Reached(text, 0) = 0
         /\ Reached(text, ChunkCount(text)) = Len(text)
PROOF
  <1>1. /\ Len(text) \in Nat /\ ChunkSize \in Nat /\ ChunkCount(text) \in Nat
        /\ ChunkCount(text) * ChunkSize >= Len(text)
    BY ChunkCountFacts, SizesAssumption
  <1>2. \A i \in Nat : i * ChunkSize \in Nat
    BY <1>1
  <1>3. 0 * ChunkSize = 0
    BY <1>1
  <1> QED
    BY <1>1, <1>2, <1>3 DEF Reached

\* A chunk goes from where the one before it ended; it is not empty, and full but for the last.
LEMMA ChunkFacts ==
  ASSUME NEW text \in Texts, NEW i \in Nat, i < ChunkCount(text)
  PROVE  /\ Chunk(text, i) = SubSeq(text, Reached(text, i) + 1, Reached(text, i + 1))
         /\ Chunk(text, i) \in Texts
         /\ Len(Chunk(text, i)) = Reached(text, i + 1) - Reached(text, i)
         /\ Reached(text, i) < Reached(text, i + 1)
         /\ Len(Chunk(text, i)) \in 1..ChunkSize
         /\ i < ChunkCount(text) - 1 => Len(Chunk(text, i)) = ChunkSize
PROOF
  <1> DEFINE L == Len(text)
             c == ChunkSize
             p == i * ChunkSize
             r == Reached(text, i)
             r1 == Reached(text, i + 1)
  <1>1. L \in Nat /\ c \in Nat /\ c > 0
    BY LenProperties, SizesAssumption DEF Texts
  <1>2. p \in Nat /\ (i + 1) * c = p + c /\ p < L
    BY <1>1, ChunkCountFacts
  <1>3. i < ChunkCount(text) - 1 => p + c < L
    BY <1>2, ChunkCountFacts
  <1>4. r = p /\ r1 = IF p + c < L THEN p + c ELSE L
    BY <1>2 DEF Reached
  <1>5. Chunk(text, i) = SubSeq(text, p + 1, p + IF L - p < c THEN L - p ELSE c)
    BY DEF Chunk
  <1> HIDE DEF L, c, p, r, r1
  <1>6. r1 = p + IF L - p < c THEN L - p ELSE c
    BY <1>1, <1>2, <1>4
  <1>7. Chunk(text, i) = SubSeq(text, r + 1, r1)
    BY <1>4, <1>5, <1>6
  <1>8. r < r1 /\ r1 <= L /\ r \in Nat /\ r1 \in Nat /\ r1 - r <= c /\ (p + c < L => r1 - r = c)
    BY <1>1, <1>2, <1>4
  <1>9. SubSeq(text, r + 1, r1) \in Texts /\ Len(SubSeq(text, r + 1, r1)) = r1 - r
    <2>1. \A j \in r + 1..r1 : text[j] \in Nat \ {0}
      BY <1>1, <1>8, ElementOfSeq DEF Texts, L
    <2>2. r + 1 \in Int /\ r1 \in Int /\ r + 1 <= r1 /\ r1 - (r + 1) + 1 = r1 - r
      BY <1>8
    <2> QED
      BY <2>1, <2>2, SubSeqProperties DEF Texts
  <1>10. r1 - r \in 1..c
    BY <1>1, <1>8
  <1>11. i < ChunkCount(text) - 1 => r1 - r = c
    BY <1>3, <1>8
  <1> QED
    BY <1>7, <1>8, <1>9, <1>10, <1>11 DEF r, r1, c

LEMMA EventsFacts ==
  ASSUME NEW text \in Texts, NEW t \in Streams
  PROVE  /\ EventsOf(t, text) \in Seq(OutputEvents)
         /\ Len(EventsOf(t, text)) = ChunkCount(text)
         /\ \A i \in 1..ChunkCount(text) :
              EventsOf(t, text)[i] = [stream |-> t, text |-> Chunk(text, i - 1), index |-> i - 1,
                                      count |-> ChunkCount(text)]
PROOF
  <1>1. ChunkCount(text) \in Nat
    BY ChunkCountFacts
  <1> DEFINE q == ChunkCount(text)
             ev(i) == [stream |-> t, text |-> Chunk(text, i - 1), index |-> i - 1, count |-> q]
  <1>2. ASSUME NEW i \in 1..q
        PROVE  ev(i) \in OutputEvents
    <2>1. i - 1 \in Nat /\ i - 1 < q
      BY <1>1
    <2>2. Chunk(text, i - 1) \in Texts
      BY <2>1, ChunkFacts
    <2> QED
      BY <2>1, <2>2, <1>1 DEF OutputEvents
  <1>3. EventsOf(t, text) = [i \in 1..q |-> ev(i)]
    BY DEF EventsOf
  <1> HIDE DEF q, ev
  <1>4. [i \in 1..q |-> ev(i)] \in Seq(OutputEvents)
    BY <1>1, <1>2, IsASeq DEF q
  <1>5. Len([i \in 1..q |-> ev(i)]) = q
    BY <1>1 DEF q
  <1> QED
    BY <1>3, <1>4, <1>5 DEF q, ev

\* The events of a text add the text to what is joined.
LEMMA JoiningEvents ==
  ASSUME NEW out \in Seq(OutputEvents), NEW text \in Texts, NEW t \in Streams, NEW s
  PROVE  Joining(out \o EventsOf(t, text), s) = Joining(out, s) \o (IF t = s THEN text ELSE <<>>)
PROOF
  <1> DEFINE evs == EventsOf(t, text)
             q == ChunkCount(text)
             part(k) == out \o SubSeq(evs, 1, k)
             added(k) == IF t = s THEN SubSeq(text, 1, Reached(text, k)) ELSE <<>>
             T == {k \in 0..q : Joining(part(k), s) # Joining(out, s) \o added(k)}
  <1>1. q \in Nat /\ Len(text) \in Nat
    BY ChunkCountFacts
  <1>2. /\ evs \in Seq(OutputEvents) /\ Len(evs) = q
        /\ \A i \in 1..q : evs[i].stream = t /\ evs[i].text = Chunk(text, i - 1)
    <2>1. \A i \in 1..q : evs[i] = [stream |-> t, text |-> Chunk(text, i - 1), index |-> i - 1, count |-> q]
      BY EventsFacts
    <2>2. evs \in Seq(OutputEvents) /\ Len(evs) = q
      BY EventsFacts
    <2> HIDE DEF evs, q
    <2> QED
      BY <2>1, <2>2
  <1>3. Joining(out, s) \in Texts
    BY JoiningIsText
  <1>4. Joining(part(0), s) = Joining(out, s) \o added(0)
    <2>1. SubSeq(evs, 1, 0) = <<>>
      BY SubSeqEmpty
    <2>2. part(0) = out
      BY <2>1, ConcatEmptySeq
    <2>3. added(0) = <<>>
      BY ReachedFacts, SubSeqEmpty
    <2> QED
      BY <2>2, <2>3, <1>3, ConcatEmptySeq DEF Texts
  <1>5. ASSUME NEW k \in 0..q, k < q, Joining(part(k), s) = Joining(out, s) \o added(k)
        PROVE  Joining(part(k + 1), s) = Joining(out, s) \o added(k + 1)
    <2>1. k + 1 \in 1..q /\ k \in Nat /\ (k + 1) - 1 = k
      BY <1>1, <1>5
    <2>2. evs[k + 1] \in OutputEvents
      BY <1>2, <2>1, ElementOfSeq
    <2>3. SubSeq(evs, 1, k) \in Seq(OutputEvents)
      <3>1. \A j \in 1..k : evs[j] \in OutputEvents
        BY <1>2, <2>1, ElementOfSeq
      <3> QED
        BY <3>1, <2>1, SubSeqProperties
    <2>4. SubSeq(evs, 1, k + 1) = SubSeq(evs, 1, k) \o <<evs[k + 1]>>
      BY <1>1, <1>2, <2>1, SubSeqRecursiveSecond
    <2>5. part(k) \in Seq(OutputEvents)
      BY <2>3, ConcatProperties
    <2>6. part(k + 1) = Append(part(k), evs[k + 1])
      <3>1. <<evs[k + 1]>> \in Seq(OutputEvents)
        BY <2>2
      <3>2. part(k + 1) = part(k) \o <<evs[k + 1]>>
        BY <2>3, <2>4, <3>1, ConcatAssociative
      <3> HIDE DEF part, evs
      <3>3. Append(part(k), evs[k + 1]) = part(k) \o <<evs[k + 1]>>
        BY <2>2, <2>5, AppendIsConcat
      <3> QED
        BY <3>2, <3>3
    <2>7. Joining(part(k + 1), s) = (Joining(out, s) \o added(k)) \o TextFor(s, evs[k + 1])
      <3> HIDE DEF part, added, evs
      <3>1. Joining(Append(part(k), evs[k + 1]), s) = Joining(part(k), s) \o TextFor(s, evs[k + 1])
        BY <2>2, <2>5, JoiningAppend, Zenon
      <3> QED
        BY <1>5, <2>6, <3>1
    <2>8. added(k) \in Texts
      <3>1. Reached(text, k) \in Int /\ Reached(text, k) <= Len(text)
        BY <1>1, <2>1, ReachedFacts
      <3>2. \A j \in 1..Len(text) : text[j] \in Nat \ {0}
        BY ElementOfSeq DEF Texts
      <3>3. \A j \in 1..Reached(text, k) : text[j] \in Nat \ {0}
        BY <1>1, <3>1, <3>2
      <3> QED
        BY <3>1, <3>3, SubSeqProperties DEF Texts
    <2>9. TextFor(s, evs[k + 1]) \in Texts
      BY <1>2, <2>1, TextForIsText
    <2>10. added(k + 1) = added(k) \o TextFor(s, evs[k + 1])
      <3>1. CASE t = s
        <4>1. TextFor(s, evs[k + 1]) = Chunk(text, k)
          BY <1>2, <2>1, <3>1 DEF TextFor
        <4>2. Chunk(text, k) = SubSeq(text, Reached(text, k) + 1, Reached(text, k + 1))
          BY <1>5, <2>1, ChunkFacts
        <4>3. Reached(text, k) \in 0..Len(text) /\ Reached(text, k + 1) \in 0..Len(text)
              /\ Reached(text, k) < Reached(text, k + 1)
          BY <1>5, <2>1, ReachedFacts, ChunkFacts
        <4>4. SubSeq(text, 1, Reached(text, k)) \o Chunk(text, k) = SubSeq(text, 1, Reached(text, k + 1))
          <5>1. /\ 1 \in 1..Len(text) + 1 /\ Reached(text, k) \in 1 - 1..Len(text)
                /\ Reached(text, k + 1) \in Reached(text, k)..Len(text)
            BY <1>1, <4>3
          <5> QED
            BY <4>2, <5>1, ConcatAdjacentSubSeq DEF Texts
        <4> QED
          BY <3>1, <4>1, <4>4
      <3>2. CASE t # s
        <4>1. TextFor(s, evs[k + 1]) = <<>>
          BY <1>2, <2>1, <3>2 DEF TextFor
        <4>2. added(k) = <<>> /\ added(k + 1) = <<>>
          BY <3>2
        <4> QED
          BY <4>1, <4>2, <2>8, ConcatEmptySeq DEF Texts
      <3> QED
        BY <3>1, <3>2
    <2>11. (Joining(out, s) \o added(k)) \o TextFor(s, evs[k + 1])
              = Joining(out, s) \o (added(k) \o TextFor(s, evs[k + 1]))
      <3> DEFINE a == Joining(out, s)
                 b == added(k)
                 c == TextFor(s, evs[k + 1])
      <3>1. a \in Texts /\ b \in Texts /\ c \in Texts
        BY <1>3, <2>8, <2>9
      <3> HIDE DEF a, b, c
      <3>2. (a \o b) \o c = a \o (b \o c)
        BY <3>1, TextsAssociate
      <3> QED
        BY <3>2 DEF a, b, c
    <2> HIDE DEF part, added, evs
    <2> QED
      BY <2>7, <2>10, <2>11
  <1>6. T = {}
    <2>1. SUFFICES ASSUME T # {} PROVE FALSE
      OBVIOUS
    <2>2. T \in SUBSET Nat
      BY <1>1
    <2>3. PICK m \in T : \A k \in T : m <= k
      BY <2>1, <2>2, Least
    <2>4. m \in 0..q /\ Joining(part(m), s) # Joining(out, s) \o added(m)
      BY <2>3
    <2>5. m # 0
      BY <2>4, <1>4
    <2>6. m - 1 \in 0..q /\ m - 1 < q /\ (m - 1) + 1 = m
      BY <1>1, <2>4, <2>5
    <2>7. m - 1 \notin T
      <3>1. m \in Nat /\ ~(m <= m - 1)
        BY <1>1, <2>4
      <3> HIDE DEF T
      <3> QED
        BY <2>3, <3>1
    <2> HIDE DEF part, added
    <2> QED
      BY <1>5, <2>4, <2>6, <2>7
  <1>7. q \in 0..q
    BY <1>1
  <1>8. SubSeq(evs, 1, q) = evs
    BY <1>2, SubSeqFull
  <1>9. added(q) = IF t = s THEN text ELSE <<>>
    BY ReachedFacts, SubSeqFull DEF Texts
  <1>10. Joining(part(q), s) = Joining(out, s) \o added(q)
    BY <1>6, <1>7
  <1> QED
    BY <1>8, <1>9, <1>10

-----------------------------------------------------------------------------
(* The invariant *)

\* How much of a stream the log has, and whether that is all.
Logged(s) == Len(Joined(s))
Complete(s) == Logged(s) = printed[s]

\* What a finisher is about to record.
Roles ==
  /\ finisher.caller.pc \in {"idle", "collect", "finish", "done"}
  /\ finisher.caller.pc \in {"collect", "finish"} => finisher.caller.status \in Collected
  /\ finisher.worker.pc # "idle"
  /\ finisher.worker.pc = "collect" => finisher.worker.status \in Collected
  /\ finisher.worker.pc = "finish" => finisher.worker.status \in Own \cup Collected
  /\ finisher.worker.pc \in Streams => finisher.worker.status \in Own

\* The log has the beginning of each stream.
Heads ==
  \A s \in Streams : Joined(s) = Piece(0, Logged(s)) /\ Logged(s) <= printed[s]

\* The execution thread appends what comes next: while the command is active the
\* log has all that was printed but what is pending.
Streaming ==
  /\ exec \in Streams => ~hosted
  /\ exec = "stdout" => pending = Piece(Logged("stdout"), printed.stdout - Logged("stdout"))
  /\ exec = "stderr" => Logged("stderr") = 0 /\ pending = Piece(0, printed.stderr)
  /\ exec \in {"running", "stdout"} => printed.stderr = 0
  /\ hosted /\ exec \in {"running", "error"} => printed.stdout = 0
  /\ ~hosted /\ exec # "stdout" /\ ~Ended => Complete("stdout")
  /\ ~hosted /\ exec = "ok" /\ ~Ended => Complete("stderr")

\* The worker records a command that ended by itself.
Recording ==
  \/ finisher.worker.pc \in Streams
  \/ finisher.worker.pc = "finish" /\ finisher.worker.status \in Own

\* The worker has appended a stream.
Passed(s) == finisher.worker.pc \in IF s = "stdout" THEN {"stderr", "finish"} ELSE {"finish"}

ToRecord(s) == IF exec = "error" /\ s = "stdout" THEN <<>> ELSE Text(s)

\* A stream is appended by the execution thread or by the worker: it is all there
\* or the worker has yet to append it, and then nothing of it is.
WorkerRecords ==
  /\ Recording => /\ exec \in {"ok", "error"}
                  /\ \A s \in Streams : s \notin NotStreamed \/ Passed(s) => Complete(s)
                  /\ \A s \in Streams : finisher.worker.texts[s] = ToRecord(s)
  /\ finisher.worker.pc \in {"watch"} \cup Streams =>
       \A s \in NotStreamed : Passed(s) \/ Logged(s) = 0

OwnIsWhole ==
  finished \in Own =>
    /\ exec \in {"ok", "error"} /\ finisher.worker.pc = "done"
    /\ \A s \in Streams : Complete(s) /\ tails[s] = TailOf(ToRecord(s))

\* What a finisher read is still the beginning of what the log has.
CollectedIsHead ==
  /\ \A f \in Finishers :
       finisher[f].pc = "finish" /\ finisher[f].status \in Collected =>
         \A s \in Streams : \E n \in 0..Logged(s) : finisher[f].texts[s] = Piece(0, n)
  /\ finished \in Collected =>
       \A s \in Streams : \E n \in 0..Logged(s) : tails[s] = TailOf(Piece(0, n))

-----------------------------------------------------------------------------
(* What an append does to the text of a stream *)

LEMMA JoinedPrime == \A s : (Joined(s))' = Joining(output', s)
PROOF
  BY DEF Joined, Joining, JoinFun, IsJoin

LEMMA JoinedIsText ==
  ASSUME output \in Seq(OutputEvents)
  PROVE  \A s : Joined(s) \in Texts /\ Logged(s) \in Nat
PROOF
  <1>1. \A s : Joined(s) \in Texts
    BY JoinedIs, JoiningIsText
  <1> QED
    BY <1>1, LenProperties DEF Logged, Texts

LEMMA PieceFacts ==
  ASSUME NEW a \in Nat, NEW n \in Nat
  PROVE  /\ Piece(a, n) \in Texts /\ Len(Piece(a, n)) = n
         /\ \A i \in 1..n : Piece(a, n)[i] = a + i
         /\ Piece(a, n) = <<>> <=> n = 0
PROOF
  <1>1. [i \in 1..n |-> a + i] \in Seq(Nat \ {0})
    OBVIOUS
  <1>2. Len([i \in 1..n |-> a + i]) = n
    OBVIOUS
  <1>3. n = 0 => [i \in 1..n |-> a + i] = <<>>
    OBVIOUS
  <1> QED
    BY <1>1, <1>2, <1>3 DEF Piece, Texts

\* A piece and the one after it make one.
LEMMA PiecesMeet ==
  ASSUME NEW a \in Nat, NEW n \in Nat, NEW m \in Nat
  PROVE  Piece(a, n) \o Piece(a + n, m) = Piece(a, n + m)
PROOF
  <1> DEFINE p == Piece(a, n)
             q == Piece(a + n, m)
             r == Piece(a, n + m)
  <1>1. /\ p \in Texts /\ Len(p) = n /\ \A i \in 1..n : p[i] = a + i
        /\ q \in Texts /\ Len(q) = m /\ \A i \in 1..m : q[i] = (a + n) + i
        /\ r \in Texts /\ Len(r) = n + m /\ \A i \in 1..n + m : r[i] = a + i
    <2>1. a + n \in Nat /\ n + m \in Nat
      OBVIOUS
    <2> QED
      BY <2>1, PieceFacts
  <1> HIDE DEF p, q, r
  <1>2. /\ p \o q \in Texts /\ Len(p \o q) = n + m
        /\ \A i \in 1..n + m : (p \o q)[i] = IF i <= n THEN p[i] ELSE q[i - n]
    <2>1. /\ p \o q \in Texts /\ Len(p \o q) = Len(p) + Len(q)
          /\ \A i \in 1..Len(p) + Len(q) :
               (p \o q)[i] = IF i <= Len(p) THEN p[i] ELSE q[i - Len(p)]
      BY <1>1, TextsJoin
    <2>2. Len(p) = n /\ Len(q) = m
      BY <1>1
    <2> QED
      BY <2>1, <2>2
  <1>3. \A i \in 1..n + m : (p \o q)[i] = r[i]
    BY <1>1, <1>2
  <1>4. p \o q = r
    <2>1. r \in Texts /\ Len(r) = n + m
      BY <1>1
    <2>2. \A i \in 1..Len(p \o q) : (p \o q)[i] = r[i]
      BY <1>2, <1>3
    <2>3. p \o q \in Texts /\ Len(p \o q) = Len(r)
      BY <1>2, <2>1
    <2> QED
      BY <2>1, <2>2, <2>3, TextsEqual
  <1> QED
    BY <1>4 DEF p, q, r

LEMMA HeadOfPiece ==
  ASSUME NEW n \in Nat, NEW m \in 0..n
  PROVE  SubSeq(Piece(0, n), 1, m) = Piece(0, m)
PROOF
  <1> DEFINE p == Piece(0, n)
             r == Piece(0, m)
  <1>1. /\ p \in Texts /\ Len(p) = n /\ \A i \in 1..n : p[i] = 0 + i
        /\ r \in Texts /\ Len(r) = m /\ \A i \in 1..m : r[i] = 0 + i
    <2>1. m \in Nat /\ 0 \in Nat
      OBVIOUS
    <2> QED
      BY <2>1, PieceFacts
  <1> HIDE DEF p, r
  <1>2. \A i \in 1..m : p[i] \in Nat \ {0}
    BY <1>1
  <1>3. SubSeq(p, 1, m) \in Texts /\ Len(SubSeq(p, 1, m)) = m /\ \A i \in 1..m : SubSeq(p, 1, m)[i] = p[i]
    <2>1. m \in Int /\ m - 1 + 1 = m /\ (1 <= m \/ m = 0) /\ \A i \in 1..m : 1 + i - 1 = i
      OBVIOUS
    <2> QED
      BY <1>2, <2>1, SubSeqProperties DEF Texts
  <1>4. SubSeq(p, 1, m) = r
    BY <1>1, <1>3, SeqEqual DEF Texts
  <1> QED
    BY <1>4 DEF p, r

\* TailOf returns the last characters of a text.
LEMMA TailIsTail ==
  ASSUME NEW text \in Texts
  PROVE  TailOf(text) \in Texts /\ IsTailOf(TailOf(text), text)
PROOF
  <1> DEFINE L == Len(text)
             a == IF L < TailLimit THEN 0 ELSE L - TailLimit
             tail == SubSeq(text, a + 1, L)
  <1>1. L \in Nat /\ TailLimit \in Nat /\ TailLimit > 0
    BY LenProperties, SizesAssumption DEF Texts
  <1>2. TailOf(text) = tail
    BY DEF TailOf
  <1>3. a \in 0..L /\ L - a <= TailLimit /\ (L - a < TailLimit => a = 0)
    BY <1>1
  <1> HIDE DEF a
  <1>4. tail \in Texts /\ Len(tail) = L - a
    <2>1. \A i \in a + 1..L : text[i] \in Nat \ {0}
      BY <1>1, <1>3, ElementOfSeq DEF Texts
    <2>2. a + 1 \in Int /\ L \in Int /\ (a + 1 <= L \/ L - a = 0) /\ L - (a + 1) + 1 = L - a
      BY <1>1, <1>3
    <2> HIDE DEF L
    <2> QED
      BY <2>1, <2>2, SubSeqProperties DEF Texts
  <1>5. SubSeq(text, 1, a) \o tail = text
    <2>1. 1 \in 1..L + 1 /\ a \in 1 - 1..L /\ L \in a..L
      BY <1>1, <1>3
    <2>2. SubSeq(text, 1, a) \o tail = SubSeq(text, 1, L)
      BY <2>1, ConcatAdjacentSubSeq DEF Texts
    <2> QED
      BY <2>2, SubSeqFull DEF Texts
  <1>6. a = 0 => tail = text
    BY SubSeqFull DEF Texts
  <1>7. L - Len(tail) = a
    BY <1>1, <1>3, <1>4
  <1> HIDE DEF tail
  <1> QED
    BY <1>2, <1>3, <1>4, <1>5, <1>6, <1>7 DEF IsTailOf, L

LEMMA LogKept ==
  ASSUME output' = output
  PROVE  \A s : (Joined(s))' = Joined(s) /\ (Logged(s))' = Logged(s)
PROOF
  <1>1. \A s : (Joined(s))' = Joined(s)
    BY JoinedIs, JoinedPrime
  <1> QED
    BY <1>1 DEF Logged

\* The end event adds no text.
LEMMA LogEnds ==
  ASSUME output \in Seq(OutputEvents), output' = Append(output, EndEvent)
  PROVE  /\ output' \in Seq(OutputEvents)
         /\ \A s \in Streams : (Joined(s))' = Joined(s) /\ (Logged(s))' = Logged(s)
PROOF
  <1>1. EndEvent \in OutputEvents
    <2>1. <<>> \in Texts
      BY DEF Texts
    <2> QED
      BY <2>1 DEF EndEvent, OutputEvents
  <1>2. ASSUME NEW s \in Streams
        PROVE  (Joined(s))' = Joined(s)
    <2>1. (Joined(s))' = Joined(s) \o TextFor(s, EndEvent)
      BY <1>1, JoinedIs, JoinedPrime, JoiningAppend
    <2>2. TextFor(s, EndEvent) = <<>>
      BY DEF TextFor, EndEvent, Streams
    <2>3. Joined(s) \in Texts
      BY JoinedIsText
    <2> QED
      BY <2>1, <2>2, <2>3, ConcatEmptySeq DEF Texts
  <1> QED
    BY <1>1, <1>2, AppendProperties DEF Logged

LEMMA LogGrows ==
  ASSUME output \in Seq(OutputEvents), NEW text \in Texts, NEW t \in Streams,
         output' = output \o EventsOf(t, text)
  PROVE  /\ output' \in Seq(OutputEvents)
         /\ (Joined(t))' = Joined(t) \o text
         /\ \A s : s # t => (Joined(s))' = Joined(s) /\ (Logged(s))' = Logged(s)
PROOF
  <1>1. \A s : (Joined(s))' = Joined(s) \o (IF t = s THEN text ELSE <<>>)
    <2>1. TAKE s
    <2>2. Joining(output \o EventsOf(t, text), s) = Joining(output, s) \o (IF t = s THEN text ELSE <<>>)
      BY JoiningEvents
    <2> QED
      BY <2>2, JoinedIs, JoinedPrime
  <1>2. ASSUME NEW s, s # t
        PROVE  (Joined(s))' = Joined(s)
    <2>1. (Joined(s))' = Joined(s) \o <<>>
      BY <1>1, <1>2
    <2>2. Joined(s) \in Texts
      BY JoinedIsText
    <2> QED
      BY <2>1, <2>2, ConcatEmptySeq DEF Texts
  <1>3. output' \in Seq(OutputEvents)
    BY EventsFacts, ConcatProperties
  <1> QED
    BY <1>1, <1>2, <1>3 DEF Logged

LEMMA LogKeptEmpty ==
  ASSUME output \in Seq(OutputEvents), NEW t \in Streams, output' = output \o EventsOf(t, <<>>)
  PROVE  /\ output' \in Seq(OutputEvents)
         /\ \A s : (Joined(s))' = Joined(s) /\ (Logged(s))' = Logged(s)
PROOF
  <1>1. <<>> \in Texts
    BY DEF Texts
  <1>2. (Joined(t))' = Joined(t) \o <<>>
    BY <1>1, LogGrows
  <1>3. Joined(t) \in Texts
    BY JoinedIsText
  <1>4. (Joined(t))' = Joined(t)
    BY <1>2, <1>3, ConcatEmptySeq DEF Texts
  <1> QED
    BY <1>1, <1>4, LogGrows DEF Logged

\* What follows the head of a text in the log makes a longer head.
LEMMA LogContinues ==
  ASSUME output \in Seq(OutputEvents), NEW t \in Streams, NEW n \in Nat, NEW m \in Nat,
         Joined(t) = Piece(0, n), Logged(t) = n,
         output' = output \o EventsOf(t, Piece(n, m))
  PROVE  /\ output' \in Seq(OutputEvents)
         /\ (Joined(t))' = Piece(0, n + m) /\ (Logged(t))' = n + m
         /\ \A s : s # t => (Joined(s))' = Joined(s) /\ (Logged(s))' = Logged(s)
PROOF
  <1>1. Piece(n, m) \in Texts
    BY PieceFacts
  <1>2. /\ output' \in Seq(OutputEvents)
        /\ (Joined(t))' = Joined(t) \o Piece(n, m)
        /\ \A s : s # t => (Joined(s))' = Joined(s) /\ (Logged(s))' = Logged(s)
    BY <1>1, LogGrows
  <1>3. Piece(0, n) \o Piece(n, m) = Piece(0, n + m)
    <2>1. 0 \in Nat /\ 0 + n = n
      OBVIOUS
    <2>2. Piece(0, n) \o Piece(0 + n, m) = Piece(0, n + m)
      BY <2>1, PiecesMeet
    <2> QED
      BY <2>1, <2>2
  <1>4. Len(Piece(0, n + m)) = n + m
    <2>1. 0 \in Nat /\ n + m \in Nat
      OBVIOUS
    <2> QED
      BY <2>1, PieceFacts
  <1> QED
    BY <1>2, <1>3, <1>4 DEF Logged

-----------------------------------------------------------------------------
(* Types *)

FinisherStates ==
  [pc : {"idle", "watch", "collect", "finish", "done"} \cup Streams,
   status : {"none"} \cup Own \cup Collected,
   texts : [Streams -> Texts]]

\* What a decision of a finisher leaves in its record.
LEMMA DecideFacts ==
  ASSUME OutputTypeOK, NEW f \in Finishers, NEW pc, NEW status, NEW texts,
         pc \in {"idle", "watch", "collect", "finish", "done"} \cup Streams,
         status \in {"none"} \cup Own \cup Collected,
         texts \in [Streams -> Texts],
         Decide(f, pc, status, texts)
  PROVE  /\ finisher' \in [Finishers -> FinisherStates]
         /\ finisher'[f] = [pc |-> pc, status |-> status, texts |-> texts]
         /\ \A g \in Finishers : g # f => finisher'[g] = finisher[g]
PROOF
  <1>1. finisher \in [Finishers -> FinisherStates]
    BY DEF OutputTypeOK, FinisherStates
  <1>2. [pc |-> pc, status |-> status, texts |-> texts] \in FinisherStates
    BY DEF FinisherStates
  <1> HIDE DEF FinisherStates
  <1> QED
    BY <1>1, <1>2 DEF Decide

LEMMA NoTailsFacts == NoTails \in [Streams -> Texts] /\ \A s \in Streams : NoTails[s] = <<>>
PROOF
  <1>1. <<>> \in Texts
    BY DEF Texts
  <1> QED
    BY <1>1 DEF NoTails

LEMMA LeaveFacts ==
  ASSUME OutputTypeOK, NEW f \in Finishers, Leave(f)
  PROVE  /\ finisher' \in [Finishers -> FinisherStates]
         /\ finisher'[f] = [pc |-> "done", status |-> "none", texts |-> NoTails]
         /\ \A g \in Finishers : g # f => finisher'[g] = finisher[g]
PROOF
  <1>1. Decide(f, "done", "none", NoTails)
    BY DEF Leave
  <1> QED
    BY <1>1, DecideFacts, NoTailsFacts

LEMMA EmitTyped ==
  ASSUME NEW s \in Streams, NEW text \in Texts, NEW otherwise, Emit(s, text, otherwise)
  PROVE  /\ exec' \in {s, otherwise} /\ pending' \in Texts
         /\ \/ exec' = s /\ pending' = text
            \/ exec' = otherwise /\ pending' = <<>>
PROOF
  <1>1. <<>> \in Texts
    BY DEF Texts
  <1> QED
    BY <1>1 DEF Emit

LEMMA TypeInit == OutputInit => OutputTypeOK /\ Roles
PROOF
  <1> SUFFICES ASSUME OutputInit PROVE OutputTypeOK /\ Roles
    OBVIOUS
  <1>1. NoTails \in [Streams -> Texts]
    BY NoTailsFacts
  <1>2. printed \in [Streams -> 0..MaxText]
    BY SizesAssumption DEF OutputInit
  <1>3. pending \in Texts /\ output \in Seq(OutputEvents)
    BY DEF OutputInit, Texts
  <1>4. finisher \in [Finishers -> FinisherStates]
    <2>1. \A f \in Finishers :
            [pc |-> IF f = "worker" THEN "watch" ELSE "idle", status |-> "none", texts |-> NoTails]
              \in FinisherStates
      BY <1>1 DEF FinisherStates
    <2> QED
      BY <2>1 DEF OutputInit
  <1>5. OutputTypeOK
    BY <1>1, <1>2, <1>3, <1>4 DEF OutputInit, OutputTypeOK, FinisherStates
  <1>6. Roles
    BY DEF OutputInit, Roles, Finishers, Streams
  <1> QED
    BY <1>5, <1>6

\* Every step keeps the types and the roles.
LEMMA TypeStep ==
  ASSUME OutputTypeOK, Roles, [OutputNext]_outputVars
  PROVE  OutputTypeOK' /\ Roles'
PROOF
  <1> DEFINE Same == finisher' = finisher
  <1>1. ASSUME NEW n \in 1..MaxText, PrintLine(n)
        PROVE  OutputTypeOK' /\ Roles'
    <2>1. printed.stdout \in 0..MaxText /\ printed.stdout \in Nat /\ n \in Nat
      BY SizesAssumption DEF OutputTypeOK, Streams
    <2>2. printed' \in [Streams -> 0..MaxText]
      <3>1. printed.stdout + n \in 0..MaxText
        BY <1>1, <2>1 DEF PrintLine
      <3> QED
        BY <1>1, <3>1 DEF PrintLine, OutputTypeOK, Streams
    <2>3. exec' \in {"stdout", "running"} /\ pending' \in Texts
      <3>1. Piece(printed.stdout, n) \in Texts
        BY <2>1, PieceFacts
      <3>2. Emit("stdout", Piece(printed.stdout, n), "running")
        BY <1>1 DEF PrintLine
      <3>3. "stdout" \in Streams
        BY DEF Streams
      <3> QED
        BY <3>1, <3>2, <3>3, EmitTyped
    <2> QED
      BY <1>1, <2>2, <2>3 DEF PrintLine, OutputTypeOK, Roles, Streams
  <1>2. ASSUME NEW n \in 0..MaxText, NEW m \in 0..MaxText, EndExecution(n, m)
        PROVE  OutputTypeOK' /\ Roles'
    <2>1. printed' \in [Streams -> 0..MaxText]
      BY <1>2 DEF EndExecution, OutputTypeOK, Streams
    <2>2. exec' \in {"stderr", "ok"} /\ pending' \in Texts
      <3>1. CASE hosted
        BY <1>2, <3>1 DEF EndExecution, OutputTypeOK
      <3>2. CASE ~hosted
        <4>1. Piece(0, n) \in Texts
          <5>1. 0 \in Nat /\ n \in Nat
            BY SizesAssumption
          <5> QED
            BY <5>1, PieceFacts
        <4>2. Emit("stderr", Piece(0, n), "ok")
          BY <1>2, <3>2 DEF EndExecution
        <4>3. "stderr" \in Streams
          BY DEF Streams
        <4> QED
          BY <4>1, <4>2, <4>3, EmitTyped
      <3> QED
        BY <3>1, <3>2
    <2> QED
      BY <1>2, <2>1, <2>2 DEF EndExecution, OutputTypeOK, Roles, Streams
  <1>3. ASSUME BreakOff
        PROVE  OutputTypeOK' /\ Roles'
    <2>1. printed' \in [Streams -> 0..MaxText]
      BY <1>3, SizesAssumption DEF BreakOff, OutputTypeOK, Streams
    <2> QED
      BY <1>3, <2>1 DEF BreakOff, OutputTypeOK, Roles
  <1>4. ASSUME AppendPending
        PROVE  OutputTypeOK' /\ Roles'
    <2>1. output' \in Seq(OutputEvents)
      BY <1>4, LogGrows DEF AppendPending, OutputTypeOK
    <2>2. pending' \in Texts
      BY <1>4 DEF AppendPending, Texts
    <2> QED
      BY <1>4, <2>1, <2>2 DEF AppendPending, OutputTypeOK, Roles
  <1>5. ASSUME CancelBegins
        PROVE  OutputTypeOK' /\ Roles'
    <2>1. /\ finisher' \in [Finishers -> FinisherStates]
          /\ finisher'["caller"] = [pc |-> "collect", status |-> "canceled", texts |-> NoTails]
          /\ finisher'["worker"] = finisher["worker"]
      BY <1>5, DecideFacts, NoTailsFacts DEF CancelBegins, Finishers, Collected
    <2> QED
      BY <1>5, <2>1 DEF CancelBegins, OutputTypeOK, Roles, FinisherStates, Collected
  <1>6. ASSUME GiveUp
        PROVE  OutputTypeOK' /\ Roles'
    <2>1. /\ finisher' \in [Finishers -> FinisherStates]
          /\ finisher'["caller"] = finisher["caller"]
          /\ \/ finisher'["worker"].pc = "done"
             \/ finisher'["worker"].pc = "collect" /\ finisher'["worker"].status \in Collected
      <3>1. CASE Ended
        BY <1>6, <3>1, LeaveFacts DEF GiveUp, Finishers
      <3>2. CASE ~Ended
        <4>1. PICK st \in Collected : Decide("worker", "collect", st, NoTails)
          BY <1>6, <3>2 DEF GiveUp
        <4>2. /\ finisher' \in [Finishers -> FinisherStates]
              /\ finisher'["worker"] = [pc |-> "collect", status |-> st, texts |-> NoTails]
              /\ finisher'["caller"] = finisher["caller"]
          BY <4>1, DecideFacts, NoTailsFacts DEF Finishers
        <4> QED
          BY <4>2
      <3> QED
        BY <3>1, <3>2
    <2> QED
      BY <1>6, <2>1 DEF GiveUp, OutputTypeOK, Roles, FinisherStates, Streams
  <1>7. ASSUME SeeEnd
        PROVE  OutputTypeOK' /\ Roles'
    <2>1. /\ finisher' \in [Finishers -> FinisherStates]
          /\ finisher'["caller"] = finisher["caller"]
          /\ \/ finisher'["worker"].pc = "done"
             \/ finisher'["worker"].pc = "collect" /\ finisher'["worker"].status \in Collected
             \/ finisher'["worker"].pc = "stdout" /\ finisher'["worker"].status \in Own
      <3>1. CASE Leave("worker")
        BY <3>1, LeaveFacts DEF Finishers
      <3>2. CASE Decide("worker", "collect", "canceled", NoTails)
        <4>1. /\ finisher' \in [Finishers -> FinisherStates]
              /\ finisher'["worker"] = [pc |-> "collect", status |-> "canceled", texts |-> NoTails]
              /\ finisher'["caller"] = finisher["caller"]
          BY <3>2, DecideFacts, NoTailsFacts DEF Finishers, Collected
        <4> QED
          BY <4>1 DEF Collected
      <3>3. ASSUME NEW st \in Own, NEW texts,
                   texts = [s \in Streams |-> IF exec = "error" /\ s = "stdout" THEN <<>> ELSE Text(s)],
                   Decide("worker", "stdout", st, texts)
            PROVE  /\ finisher' \in [Finishers -> FinisherStates]
                   /\ finisher'["caller"] = finisher["caller"]
                   /\ finisher'["worker"].pc = "stdout" /\ finisher'["worker"].status \in Own
        <4>1. texts \in [Streams -> Texts]
          <5>1. <<>> \in Texts
            BY DEF Texts
          <5>2. \A s \in Streams : Text(s) \in Texts
            <6>1. \A s \in Streams : printed[s] \in Nat
              BY SizesAssumption DEF OutputTypeOK
            <6>2. 0 \in Nat
              OBVIOUS
            <6> QED
              BY <6>1, <6>2, PieceFacts DEF Text
          <5> QED
            BY <5>1, <5>2, <3>3
        <4>2. /\ finisher' \in [Finishers -> FinisherStates]
              /\ finisher'["worker"] = [pc |-> "stdout", status |-> st, texts |-> texts]
              /\ finisher'["caller"] = finisher["caller"]
          BY <3>3, <4>1, DecideFacts DEF Finishers, Streams
        <4> QED
          BY <4>2
      <3>4. \/ Leave("worker")
            \/ Decide("worker", "collect", "canceled", NoTails)
            \/ \E st \in Own :
                 Decide("worker", "stdout", st,
                        [s \in Streams |-> IF exec = "error" /\ s = "stdout" THEN <<>> ELSE Text(s)])
        BY <1>7 DEF SeeEnd
      <3> QED
        BY <3>1, <3>2, <3>3, <3>4
    <2> QED
      BY <1>7, <2>1 DEF SeeEnd, OutputTypeOK, Roles, FinisherStates, Streams
  <1>8. ASSUME NEW s \in Streams, WorkerAppends(s)
        PROVE  OutputTypeOK' /\ Roles'
    <2>1. output' \in Seq(OutputEvents)
      <3>1. (IF s \in NotStreamed THEN Text(s) ELSE <<>>) \in Texts
        <4>1. printed[s] \in Nat /\ 0 \in Nat
          BY SizesAssumption DEF OutputTypeOK
        <4>2. Text(s) \in Texts
          BY <4>1, PieceFacts DEF Text
        <4>3. <<>> \in Texts
          BY DEF Texts
        <4> QED
          BY <4>2, <4>3
      <3> QED
        BY <1>8, <3>1, LogGrows DEF WorkerAppends, OutputTypeOK
    <2>2. /\ finisher' \in [Finishers -> FinisherStates]
          /\ finisher'["caller"] = finisher["caller"]
          /\ finisher'["worker"].pc \in {"stderr", "finish"}
          /\ finisher'["worker"].status = finisher["worker"].status
      <3>1. finisher \in [Finishers -> FinisherStates]
        BY DEF OutputTypeOK, FinisherStates
      <3>2. finisher' = [finisher EXCEPT !["worker"] =
                           [finisher["worker"] EXCEPT !.pc = IF s = "stdout" THEN "stderr" ELSE "finish"]]
        BY <1>8, <3>1 DEF WorkerAppends
      <3>3. [finisher["worker"] EXCEPT !.pc = IF s = "stdout" THEN "stderr" ELSE "finish"] \in FinisherStates
        BY <3>1 DEF FinisherStates, Streams, Finishers
      <3>4. finisher["worker"] \in FinisherStates
        BY <3>1 DEF Finishers
      <3> QED
        BY <3>1, <3>2, <3>3, <3>4 DEF Finishers, FinisherStates
    <2> QED
      BY <1>8, <2>1, <2>2 DEF WorkerAppends, OutputTypeOK, Roles, FinisherStates, Streams
  <1>9. ASSUME NEW f \in Finishers, Collect(f)
        PROVE  OutputTypeOK' /\ Roles'
    <2>1. /\ finisher' \in [Finishers -> FinisherStates]
          /\ \A g \in Finishers : g # f => finisher'[g] = finisher[g]
          /\ \/ finisher'[f].pc = "done"
             \/ finisher'[f].pc = "finish" /\ finisher'[f].status = finisher[f].status
      <3>1. CASE Ended
        BY <1>9, <3>1, LeaveFacts DEF Collect
      <3>2. CASE ~Ended
        <4>1. [s \in Streams |-> Joined(s)] \in [Streams -> Texts]
          BY JoinedIsText DEF OutputTypeOK
        <4>2. finisher[f].status \in {"none"} \cup Own \cup Collected
          BY DEF OutputTypeOK
        <4>3. Decide(f, "finish", finisher[f].status, [s \in Streams |-> Joined(s)])
          BY <1>9, <3>2 DEF Collect
        <4>4. /\ finisher' \in [Finishers -> FinisherStates]
              /\ finisher'[f] = [pc |-> "finish", status |-> finisher[f].status,
                                 texts |-> [s \in Streams |-> Joined(s)]]
              /\ \A g \in Finishers : g # f => finisher'[g] = finisher[g]
          BY <4>1, <4>2, <4>3, DecideFacts
        <4> QED
          BY <4>4
      <3> QED
        BY <3>1, <3>2
    <2> QED
      BY <1>9, <2>1 DEF Collect, OutputTypeOK, Roles, FinisherStates, Finishers, Streams
  <1>10. ASSUME NEW f \in Finishers, FinishOutput(f)
         PROVE  OutputTypeOK' /\ Roles'
    <2>1. /\ finisher' \in [Finishers -> FinisherStates]
          /\ finisher'[f].pc = "done"
          /\ \A g \in Finishers : g # f => finisher'[g] = finisher[g]
      BY <1>10, LeaveFacts DEF FinishOutput
    <2>2. /\ output' \in Seq(OutputEvents)
          /\ finished' \in {"running"} \cup Own \cup Collected
          /\ tails' \in [Streams -> Texts]
      <3>1. CASE Ended
        BY <1>10, <3>1 DEF FinishOutput, OutputTypeOK
      <3>2. CASE ~Ended
        <4>1. /\ output' = Append(output, EndEvent)
              /\ finished' = finisher[f].status
              /\ tails' = [s \in Streams |-> TailOf(finisher[f].texts[s])]
              /\ finisher[f].pc = "finish"
          BY <1>10, <3>2 DEF FinishOutput
        <4>2. \A s \in Streams : TailOf(finisher[f].texts[s]) \in Texts
          <5>1. \A s \in Streams : finisher[f].texts[s] \in Texts
            BY DEF OutputTypeOK
          <5> QED
            BY <5>1, TailIsTail
        <4>3. finisher[f].status \in Own \cup Collected
          BY <4>1 DEF Roles, Finishers
        <4> QED
          BY <4>1, <4>2, <4>3, LogEnds DEF OutputTypeOK
      <3> QED
        BY <3>1, <3>2
    <2> QED
      BY <1>10, <2>1, <2>2 DEF FinishOutput, OutputTypeOK, Roles, FinisherStates, Finishers, Streams
  <1>11. CASE UNCHANGED outputVars
    BY <1>11 DEF outputVars, OutputTypeOK, Roles
  <1> QED
    BY <1>1, <1>2, <1>3, <1>4, <1>5, <1>6, <1>7, <1>8, <1>9, <1>10, <1>11 DEF OutputNext

-----------------------------------------------------------------------------
(* The steps *)

InvTypes == OutputTypeOK /\ Roles /\ OutputTypeOK' /\ Roles'
InvRest == Heads /\ Streaming /\ WorkerRecords /\ OwnIsWhole /\ CollectedIsHead

\* What holds of the numbers in every state.
Numbers ==
  /\ MaxText \in Nat
  /\ \A s \in Streams : Logged(s) \in Nat /\ printed[s] \in Nat /\ printed[s] <= MaxText
  /\ Text("stdout") = Piece(0, printed["stdout"]) /\ Text("stderr") = Piece(0, printed["stderr"])
  /\ "stdout" \in Streams /\ "stderr" \in Streams
  /\ \A s \in Streams : s = "stdout" \/ s = "stderr"

LEMMA NumbersTyped ==
  ASSUME OutputTypeOK
  PROVE  Numbers
PROOF
  <1>1. \A s \in Streams : Logged(s) \in Nat
    BY JoinedIsText DEF OutputTypeOK
  <1> QED
    BY <1>1, SizesAssumption DEF OutputTypeOK, Streams, Text, Numbers

\* The heads that were collected stay heads when the log only grows.
LEMMA CollectedKept ==
  ASSUME OutputTypeOK, CollectedIsHead,
         \A s \in Streams : (Logged(s))' \in Nat /\ Logged(s) <= (Logged(s))',
         finished' = finished, tails' = tails,
         \A f \in Finishers : \/ finisher'[f] = finisher[f]
                              \/ finisher'[f].pc # "finish"
                              \/ finisher'[f].status \notin Collected
  PROVE  CollectedIsHead'
PROOF
  <1>1. \A s \in Streams : \A n \in 0..Logged(s) : n \in 0..(Logged(s))'
    BY NumbersTyped DEF Numbers
  <1>2. ASSUME NEW f \in Finishers, finisher'[f].pc = "finish", finisher'[f].status \in Collected,
               NEW s \in Streams
        PROVE  \E n \in 0..(Logged(s))' : finisher'[f].texts[s] = Piece(0, n)
    <2>1. finisher'[f] = finisher[f]
      BY <1>2
    <2>2. PICK n \in 0..Logged(s) : finisher[f].texts[s] = Piece(0, n)
      BY <1>2, <2>1 DEF CollectedIsHead
    <2> QED
      BY <1>1, <2>1, <2>2
  <1>3. ASSUME finished' \in Collected, NEW s \in Streams
        PROVE  \E n \in 0..(Logged(s))' : tails'[s] = TailOf(Piece(0, n))
    <2>1. PICK n \in 0..Logged(s) : tails[s] = TailOf(Piece(0, n))
      BY <1>3 DEF CollectedIsHead
    <2> QED
      BY <1>1, <2>1
  <1> QED
    BY <1>2, <1>3 DEF CollectedIsHead

\* The heads stay when the log has no more of them, and no less was printed.
LEMMA HeadsKept ==
  ASSUME Heads,
         \A s \in Streams : (Joined(s))' = Joined(s) /\ (Logged(s))' = Logged(s) /\ Logged(s) <= printed'[s]
  PROVE  Heads'
PROOF
  <1>1. ASSUME NEW s \in Streams
        PROVE  (Joined(s))' = Piece(0, (Logged(s))') /\ (Logged(s))' <= printed'[s]
    <2>1. Joined(s) = Piece(0, Logged(s))
      BY DEF Heads
    <2> QED
      BY <2>1
  <1> QED
    BY <1>1 DEF Heads

\* Each action keeps the invariant.
LEMMA PrintLineKeeps ==
  ASSUME InvTypes, InvRest, NEW n \in 1..MaxText, PrintLine(n)
  PROVE  InvRest'
PROOF
  <1> USE DEF Numbers
  <1>0. Numbers
    BY NumbersTyped DEF InvTypes
  <1>1. \A s : (Joined(s))' = Joined(s) /\ (Logged(s))' = Logged(s)
    BY LogKept DEF PrintLine
  <1>2. /\ exec = "running" /\ ~hosted /\ ~hosted' /\ finished' = finished /\ tails' = tails
        /\ finisher' = finisher
        /\ printed' = [printed EXCEPT !.stdout = @ + n] /\ n \in Nat /\ n # 0
    BY <1>0 DEF PrintLine
  <1>3. /\ printed'["stdout"] = printed["stdout"] + n /\ printed'["stderr"] = printed["stderr"]
    BY <1>0, <1>2 DEF InvTypes, OutputTypeOK
  <1>4. \/ ~Ended /\ exec' = "stdout" /\ pending' = Piece(printed["stdout"], n)
        \/ Ended /\ exec' = "running"
    <2>1. Emit("stdout", Piece(printed.stdout, n), "running")
      BY DEF PrintLine
    <2>2. Piece(printed.stdout, n) # <<>>
      <3>1. printed.stdout \in Nat
        BY <1>0
      <3> QED
        BY <1>2, <3>1, PieceFacts
    <2> QED
      BY <2>1, <2>2 DEF Emit
  <1>5. Heads'
    <2>1. \A s \in Streams : Logged(s) <= printed[s]
      BY DEF InvRest, Heads
    <2>2. /\ Logged("stdout") <= printed["stdout"] + n /\ Logged("stderr") <= printed["stderr"]
      BY <1>0, <1>2, <2>1
    <2>3. \A s \in Streams : Logged(s) <= printed'[s]
      BY <1>0, <1>3, <2>2
    <2> QED
      BY <1>1, <2>3, HeadsKept DEF InvRest
  <1>6. Streaming'
    <2>1. ~Ended => Logged("stdout") = printed["stdout"]
      BY <1>2 DEF InvRest, Streaming, Complete
    <2>2. (printed["stdout"] + n) - printed["stdout"] = n
      BY <1>0, <1>2
    <2>3. ~Ended => pending' = Piece((Logged("stdout"))', printed'["stdout"] - (Logged("stdout"))')
      BY <1>1, <1>3, <1>4, <2>1, <2>2
    <2>4. printed["stderr"] = 0
      BY <1>2 DEF InvRest, Streaming
    <2>5. Ended' <=> Ended
      BY <1>2 DEF Ended
    <2> QED
      BY <1>2, <1>3, <1>4, <2>3, <2>4, <2>5 DEF Streaming, Streams
  <1>7. WorkerRecords'
    <2>1. ~Recording
      BY <1>2 DEF InvRest, WorkerRecords
    <2> QED
      BY <1>2, <1>4, <2>1 DEF WorkerRecords, Recording, NotStreamed
  <1>8. OwnIsWhole'
    BY <1>2 DEF InvRest, OwnIsWhole
  <1>9. CollectedIsHead'
    BY <1>0, <1>1, <1>2, CollectedKept DEF InvRest, InvTypes
  <1> QED
    BY <1>5, <1>6, <1>7, <1>8, <1>9 DEF InvRest

LEMMA EndExecutionKeeps ==
  ASSUME InvTypes, InvRest, NEW n \in 0..MaxText, NEW m \in 0..MaxText, EndExecution(n, m)
  PROVE  InvRest'
PROOF
  <1> USE DEF Numbers
  <1>0. Numbers
    BY NumbersTyped DEF InvTypes
  <1>1. \A s : (Joined(s))' = Joined(s) /\ (Logged(s))' = Logged(s)
    BY LogKept DEF EndExecution
  <1>2. /\ exec = "running" /\ hosted' = hosted /\ finished' = finished /\ tails' = tails
        /\ finisher' = finisher /\ n \in Nat /\ m \in Nat
    BY <1>0 DEF EndExecution
  <1>3. /\ hosted => printed'["stdout"] = m /\ exec' = "ok"
        /\ ~hosted => printed'["stdout"] = printed["stdout"]
        /\ printed'["stderr"] = n
    BY <1>0 DEF EndExecution, InvTypes, OutputTypeOK
  <1>4. /\ printed["stderr"] = 0 /\ Logged("stderr") = 0
        /\ hosted => Logged("stdout") = 0
        /\ ~hosted => Logged("stdout") <= printed["stdout"]
    <2>1. Logged("stderr") <= printed["stderr"] /\ Logged("stdout") <= printed["stdout"]
      BY <1>0 DEF InvRest, Heads
    <2>2. printed["stderr"] = 0 /\ (hosted => printed["stdout"] = 0)
      BY <1>2 DEF InvRest, Streaming
    <2>3. Logged("stderr") \in Nat /\ Logged("stdout") \in Nat
      BY <1>0
    <2> QED
      BY <2>1, <2>2, <2>3
  <1>5. ~hosted => \/ exec' = "ok" /\ (Ended \/ n = 0)
                   \/ exec' = "stderr" /\ pending' = Piece(0, n) /\ ~Ended
    <2>1. SUFFICES ASSUME ~hosted
                   PROVE  \/ exec' = "ok" /\ (Ended \/ n = 0)
                          \/ exec' = "stderr" /\ pending' = Piece(0, n) /\ ~Ended
      OBVIOUS
    <2>2. Emit("stderr", Piece(0, n), "ok")
      BY <2>1 DEF EndExecution
    <2>3. Piece(0, n) = <<>> => n = 0
      <3>1. 0 \in Nat
        OBVIOUS
      <3> QED
        BY <1>2, <3>1, PieceFacts
    <2> QED
      BY <2>2, <2>3 DEF Emit
  <1>6. Heads'
    <2>1. Logged("stdout") <= printed'["stdout"] /\ Logged("stderr") <= printed'["stderr"]
      BY <1>0, <1>2, <1>3, <1>4
    <2>2. \A s \in Streams : Logged(s) <= printed'[s]
      BY <1>0, <2>1
    <2> QED
      BY <1>1, <2>2, HeadsKept DEF InvRest
  <1>7. Streaming'
    <2>1. ~hosted /\ ~Ended => Logged("stdout") = printed["stdout"]
      BY <1>2 DEF InvRest, Streaming, Complete
    <2>2. Ended' <=> Ended
      BY <1>2 DEF Ended
    <2>3. CASE hosted
      BY <1>2, <1>3, <2>3 DEF Streaming, Streams
    <2>4. CASE ~hosted
      <3>1. exec' = "stderr" => (Logged("stderr"))' = 0 /\ pending' = Piece(0, printed'["stderr"])
        BY <1>1, <1>3, <1>4, <1>5, <2>4
      <3>2. ~Ended => (Complete("stdout"))'
        BY <1>1, <1>3, <2>1, <2>4 DEF Complete
      <3>3. ~Ended /\ exec' = "ok" => (Complete("stderr"))'
        BY <1>1, <1>3, <1>4, <1>5, <2>4 DEF Complete
      <3> QED
        BY <1>2, <1>3, <1>5, <2>2, <2>4, <3>1, <3>2, <3>3 DEF Streaming, Streams
    <2> QED
      BY <2>3, <2>4
  <1>8. WorkerRecords'
    <2>1. ~Recording
      BY <1>2 DEF InvRest, WorkerRecords
    <2>2. hosted => \A s \in Streams : (Logged(s))' = 0
      BY <1>0, <1>1, <1>4
    <2> QED
      BY <1>2, <1>3, <1>5, <2>1, <2>2 DEF WorkerRecords, Recording, NotStreamed
  <1>9. OwnIsWhole'
    BY <1>2 DEF InvRest, OwnIsWhole
  <1>10. CollectedIsHead'
    BY <1>0, <1>1, <1>2, CollectedKept DEF InvRest, InvTypes
  <1> QED
    BY <1>6, <1>7, <1>8, <1>9, <1>10 DEF InvRest

LEMMA BreakOffKeeps ==
  ASSUME InvTypes, InvRest, BreakOff
  PROVE  InvRest'
PROOF
  <1> USE DEF Numbers
  <1>0. Numbers
    BY NumbersTyped DEF InvTypes
  <1>1. \A s : (Joined(s))' = Joined(s) /\ (Logged(s))' = Logged(s)
    BY LogKept DEF BreakOff
  <1>2. /\ exec = "running" /\ exec' = "error" /\ hosted' = hosted /\ finished' = finished
        /\ tails' = tails /\ finisher' = finisher
    BY DEF BreakOff
  <1>3. printed'["stdout"] = printed["stdout"] /\ printed'["stderr"] = 1
    BY <1>0 DEF BreakOff, InvTypes, OutputTypeOK
  <1>4. /\ Logged("stderr") = 0 /\ Logged("stdout") <= printed["stdout"]
        /\ hosted => printed["stdout"] = 0
    <2>1. Logged("stderr") <= printed["stderr"] /\ Logged("stdout") <= printed["stdout"]
      BY <1>0 DEF InvRest, Heads
    <2>2. printed["stderr"] = 0 /\ (hosted => printed["stdout"] = 0)
      BY <1>2 DEF InvRest, Streaming
    <2>3. Logged("stderr") \in Nat
      BY <1>0
    <2> QED
      BY <2>1, <2>2, <2>3
  <1>5. Heads'
    <2>1. \A s \in Streams : Logged(s) <= printed'[s]
      BY <1>0, <1>3, <1>4
    <2> QED
      BY <1>1, <2>1, HeadsKept DEF InvRest
  <1>6. Streaming'
    <2>1. ~hosted /\ ~Ended => Logged("stdout") = printed["stdout"]
      BY <1>2 DEF InvRest, Streaming, Complete
    <2>2. Ended' <=> Ended
      BY <1>2 DEF Ended
    <2>3. ~hosted /\ ~Ended => (Complete("stdout"))'
      BY <1>1, <1>3, <2>1 DEF Complete
    <2> QED
      BY <1>2, <1>3, <1>4, <2>2, <2>3 DEF Streaming, Streams
  <1>7. WorkerRecords'
    <2>1. ~Recording
      BY <1>2 DEF InvRest, WorkerRecords
    <2> QED
      BY <1>1, <1>2, <1>4, <2>1 DEF WorkerRecords, Recording, NotStreamed
  <1>8. OwnIsWhole'
    BY <1>2 DEF InvRest, OwnIsWhole
  <1>9. CollectedIsHead'
    BY <1>0, <1>1, <1>2, CollectedKept DEF InvRest, InvTypes
  <1> QED
    BY <1>5, <1>6, <1>7, <1>8, <1>9 DEF InvRest

\* A finisher that is about to collect the output, or has left, keeps the rest.
LEMMA FinisherMoves ==
  ASSUME InvTypes, InvRest, NEW f \in Finishers,
         UNCHANGED <<hosted, printed, exec, pending, output, finished, tails>>,
         finisher[f].pc # "done",
         finisher'[f].pc \in {"collect", "done"},
         \A g \in Finishers : g # f => finisher'[g] = finisher[g]
  PROVE  InvRest'
PROOF
  <1> USE DEF Numbers
  <1>0. Numbers
    BY NumbersTyped DEF InvTypes
  <1>1. \A s : (Joined(s))' = Joined(s) /\ (Logged(s))' = Logged(s)
    BY LogKept
  <1>2. Heads'
    <2>1. \A s \in Streams : Logged(s) <= printed'[s]
      BY DEF InvRest, Heads
    <2> QED
      BY <1>1, <2>1, HeadsKept DEF InvRest
  <1>3. Streaming'
    BY <1>1 DEF InvRest, Streaming, Complete, Ended
  <1>4. f = "worker" \/ finisher'["worker"] = finisher["worker"]
    BY DEF Finishers
  <1>5. WorkerRecords'
    <2>1. CASE f = "worker"
      BY <2>1 DEF WorkerRecords, Recording, Streams
    <2>2. CASE finisher'["worker"] = finisher["worker"]
      BY <1>1, <2>2 DEF InvRest, WorkerRecords, Recording, NotStreamed, Passed, Complete, ToRecord, Text
    <2> QED
      BY <1>4, <2>1, <2>2
  <1>6. OwnIsWhole'
    <2>1. SUFFICES ASSUME finished \in Own
                   PROVE  OwnIsWhole'
      BY DEF OwnIsWhole
    <2>2. finisher["worker"].pc = "done"
      BY <2>1 DEF InvRest, OwnIsWhole
    <2>3. finisher'["worker"] = finisher["worker"]
      BY <1>4, <2>2
    <2> QED
      BY <1>1, <2>3 DEF InvRest, OwnIsWhole, Complete, ToRecord, Text
  <1>7. CollectedIsHead'
    BY <1>0, <1>1, CollectedKept DEF InvRest, InvTypes
  <1> QED
    BY <1>2, <1>3, <1>5, <1>6, <1>7 DEF InvRest

LEMMA AppendPendingKeeps ==
  ASSUME InvTypes, InvRest, AppendPending
  PROVE  InvRest'
PROOF
  <1> USE DEF Numbers
  <1>0. Numbers
    BY NumbersTyped DEF InvTypes
  <1>1. /\ exec \in Streams /\ ~hosted /\ UNCHANGED <<hosted, printed, finished, tails, finisher>>
        /\ exec' = IF exec = "stdout" THEN "running" ELSE "ok"
    BY DEF AppendPending, InvRest, Streaming
  <1>T. PICK t \in Streams : exec = t
    BY <1>1
  <1>2. PICK n \in Nat, m \in Nat :
          /\ Logged(t) = n /\ Joined(t) = Piece(0, n) /\ pending = Piece(n, m)
          /\ n + m = printed[t]
    <2>1. Joined(t) = Piece(0, Logged(t)) /\ Logged(t) <= printed[t]
      BY <1>T DEF InvRest, Heads
    <2>2. Logged(t) \in Nat /\ printed[t] \in Nat
      BY <1>0, <1>T
    <2>3. pending = Piece(Logged(t), printed[t] - Logged(t))
      <3>1. CASE exec = "stdout"
        BY <1>T, <3>1 DEF InvRest, Streaming
      <3>2. CASE exec = "stderr"
        <4>1. Logged("stderr") = 0 /\ pending = Piece(0, printed["stderr"])
          BY <3>2 DEF InvRest, Streaming
        <4>2. printed["stderr"] - 0 = printed["stderr"]
          BY <1>0
        <4> QED
          BY <1>T, <3>2, <4>1, <4>2
      <3> QED
        BY <1>0, <1>T, <3>1, <3>2
    <2>4. /\ printed[t] - Logged(t) \in Nat
          /\ Logged(t) + (printed[t] - Logged(t)) = printed[t]
      BY <2>1, <2>2
    <2> QED
      BY <2>1, <2>2, <2>3, <2>4
  <1>3. /\ (Joined(t))' = Piece(0, printed[t]) /\ (Logged(t))' = printed[t]
        /\ \A s : s # t => (Joined(s))' = Joined(s) /\ (Logged(s))' = Logged(s)
    <2>1. output \in Seq(OutputEvents)
      BY DEF InvTypes, OutputTypeOK
    <2>2. output' = output \o EventsOf(t, Piece(n, m))
      BY <1>2, <1>T DEF AppendPending
    <2>3. /\ (Joined(t))' = Piece(0, n + m) /\ (Logged(t))' = n + m
          /\ \A s : s # t => (Joined(s))' = Joined(s) /\ (Logged(s))' = Logged(s)
      BY <1>2, <2>1, <2>2, LogContinues
    <2> QED
      BY <1>2, <2>3
  <1>4. \A s \in Streams : (Logged(s))' \in Nat /\ Logged(s) <= (Logged(s))' /\ (Logged(s))' <= printed[s]
    <2>1. \A s \in Streams : Logged(s) <= printed[s]
      BY DEF InvRest, Heads
    <2> QED
      BY <1>0, <1>T, <1>3, <2>1
  <1>5. Heads'
    <2>1. \A s \in Streams : (Joined(s))' = Piece(0, (Logged(s))') /\ (Logged(s))' <= printed'[s]
      BY <1>1, <1>T, <1>3, <1>4 DEF InvRest, Heads
    <2> QED
      BY <2>1 DEF Heads
  <1>6. Streaming'
    <2>1. CASE exec = "stdout"
      <3>1. (Complete("stdout"))' /\ printed["stderr"] = 0
        BY <1>1, <1>T, <1>3, <2>1 DEF Complete, InvRest, Streaming
      <3> QED
        BY <1>1, <2>1, <3>1 DEF Streaming, Streams
    <2>2. CASE exec = "stderr"
      <3>1. (Complete("stderr"))'
        BY <1>1, <1>T, <1>3, <2>2 DEF Complete
      <3>2. ~Ended => (Complete("stdout"))'
        BY <1>1, <1>T, <1>3, <2>2 DEF Complete, InvRest, Streaming
      <3>3. Ended' <=> Ended
        BY <1>1 DEF Ended
      <3> QED
        BY <1>1, <2>2, <3>1, <3>2, <3>3 DEF Streaming, Streams
    <2> QED
      BY <1>0, <1>1, <2>1, <2>2
  <1>7. WorkerRecords'
    <2>1. ~Recording
      BY <1>1 DEF InvRest, WorkerRecords, Streams
    <2> QED
      BY <1>1, <2>1 DEF WorkerRecords, Recording, NotStreamed
  <1>8. OwnIsWhole'
    BY <1>1 DEF InvRest, OwnIsWhole, Streams
  <1>9. CollectedIsHead'
    BY <1>0, <1>1, <1>4, CollectedKept DEF InvRest, InvTypes
  <1> QED
    BY <1>5, <1>6, <1>7, <1>8, <1>9 DEF InvRest

LEMMA SeeEndKeeps ==
  ASSUME InvTypes, InvRest, SeeEnd
  PROVE  InvRest'
PROOF
  <1> USE DEF Numbers
  <1>0. Numbers
    BY NumbersTyped DEF InvTypes
  <1>1. /\ finisher["worker"].pc = "watch" /\ exec \in {"ok", "error"} /\ "worker" \in Finishers
        /\ UNCHANGED <<hosted, printed, exec, pending, output, finished, tails>>
    BY DEF SeeEnd, Finishers
  <1> DEFINE texts == [s \in Streams |-> IF exec = "error" /\ s = "stdout" THEN <<>> ELSE Text(s)]
  <1>2. \/ Leave("worker")
        \/ Decide("worker", "collect", "canceled", NoTails)
        \/ ~Ended /\ \E st \in Own : Decide("worker", "stdout", st, texts)
    BY DEF SeeEnd
  <1>3. CASE Leave("worker")
    <2>1. finisher'["worker"].pc = "done" /\ \A g \in Finishers : g # "worker" => finisher'[g] = finisher[g]
      BY <1>1, <1>3, LeaveFacts DEF InvTypes
    <2> QED
      BY <1>1, <2>1, FinisherMoves
  <1>4. CASE Decide("worker", "collect", "canceled", NoTails)
    <2>1. /\ finisher'["worker"] = [pc |-> "collect", status |-> "canceled", texts |-> NoTails]
          /\ \A g \in Finishers : g # "worker" => finisher'[g] = finisher[g]
      BY <1>1, <1>4, DecideFacts, NoTailsFacts DEF InvTypes, Collected
    <2>2. finisher'["worker"].pc = "collect"
      BY <2>1
    <2> QED
      BY <1>1, <2>1, <2>2, FinisherMoves
  <1>5. ASSUME ~Ended, NEW st \in Own, Decide("worker", "stdout", st, texts)
        PROVE  InvRest'
    <2>1. /\ finisher'["worker"] = [pc |-> "stdout", status |-> st, texts |-> texts]
          /\ finisher'["caller"] = finisher["caller"]
      <3>1. texts \in [Streams -> Texts]
        <4>1. <<>> \in Texts
          BY DEF Texts
        <4>2. Text("stdout") \in Texts /\ Text("stderr") \in Texts
          <5>1. 0 \in Nat /\ printed["stdout"] \in Nat /\ printed["stderr"] \in Nat
            BY <1>0
          <5>2. Piece(0, printed["stdout"]) \in Texts /\ Piece(0, printed["stderr"]) \in Texts
            BY <5>1, PieceFacts
          <5> QED
            BY <1>0, <5>2
        <4> QED
          BY <1>0, <4>1, <4>2
      <3> HIDE DEF texts
      <3> QED
        BY <1>0, <1>1, <1>5, <3>1, DecideFacts DEF InvTypes, Finishers
    <2>2. \A s : (Joined(s))' = Joined(s) /\ (Logged(s))' = Logged(s)
      BY <1>1, LogKept
    <2>3. Heads'
      <3>1. \A s \in Streams : Logged(s) <= printed'[s]
        BY <1>1 DEF InvRest, Heads
      <3> QED
        BY <2>2, <3>1, HeadsKept DEF InvRest
    <2>4. Streaming'
      BY <1>1, <2>2 DEF InvRest, Streaming, Complete, Ended
    <2>5. WorkerRecords'
      <3>1. \A s \in Streams : s \in NotStreamed => Logged(s) = 0
        <4>1. ~Passed("stdout") /\ ~Passed("stderr")
          BY <1>1 DEF Passed
        <4> QED
          BY <1>0, <1>1, <4>1 DEF InvRest, WorkerRecords
      <3>2. \A s \in Streams : s \notin NotStreamed => Logged(s) = printed[s]
        <4>1. "stdout" \notin NotStreamed => Logged("stdout") = printed["stdout"]
          <5>1. CASE hosted
            <6>1. "stdout" \notin NotStreamed => exec = "error"
              BY <1>0, <5>1 DEF NotStreamed
            <6>2. exec = "error" => printed["stdout"] = 0
              BY <5>1 DEF InvRest, Streaming
            <6>3. Logged("stdout") <= printed["stdout"] /\ Logged("stdout") \in Nat
              BY <1>0 DEF InvRest, Heads
            <6> QED
              BY <6>1, <6>2, <6>3
          <5>2. CASE ~hosted
            BY <1>1, <1>5, <5>2 DEF InvRest, Streaming, Complete
          <5> QED
            BY <5>1, <5>2
        <4>2. "stderr" \notin NotStreamed => Logged("stderr") = printed["stderr"]
          BY <1>0, <1>1, <1>5 DEF NotStreamed, InvRest, Streaming, Complete
        <4> QED
          BY <1>0, <4>1, <4>2
      <3>3. ~(Passed("stdout"))' /\ ~(Passed("stderr"))'
        BY <2>1 DEF Passed
      <3>4. NotStreamed' = NotStreamed /\ NotStreamed \subseteq Streams
        BY <1>0, <1>1 DEF NotStreamed
      <3>5. \A s \in Streams : s \notin NotStreamed' \/ (Passed(s))' => (Complete(s))'
        BY <1>0, <1>1, <2>2, <3>2, <3>3, <3>4 DEF Complete
      <3>6. \A s \in NotStreamed' : (Logged(s))' = 0
        BY <2>2, <3>1, <3>4
      <3>7. \A s \in Streams : finisher'["worker"].texts[s] = (ToRecord(s))'
        BY <1>1, <2>1 DEF ToRecord, Text
      <3> QED
        BY <1>1, <3>5, <3>6, <3>7 DEF WorkerRecords
    <2>6. OwnIsWhole'
      BY <1>1 DEF InvRest, OwnIsWhole
    <2>7. CollectedIsHead'
      <3>1. finisher'["worker"].pc # "finish"
        BY <2>1
      <3> QED
        BY <1>0, <1>1, <2>1, <2>2, <3>1, CollectedKept DEF InvRest, InvTypes, Finishers
    <2> QED
      BY <2>3, <2>4, <2>5, <2>6, <2>7 DEF InvRest
  <1> QED
    BY <1>2, <1>3, <1>4, <1>5

LEMMA WorkerAppendsKeeps ==
  ASSUME InvTypes, InvRest, NEW t \in Streams, WorkerAppends(t)
  PROVE  InvRest'
PROOF
  <1> USE DEF Numbers
  <1>0. Numbers
    BY NumbersTyped DEF InvTypes
  <1>1. /\ finisher["worker"].pc = t
        /\ UNCHANGED <<hosted, printed, exec, pending, finished, tails>>
    BY DEF WorkerAppends
  <1>2. /\ finisher'["caller"] = finisher["caller"]
        /\ finisher'["worker"].pc = IF t = "stdout" THEN "stderr" ELSE "finish"
        /\ finisher'["worker"].status = finisher["worker"].status
        /\ finisher'["worker"].texts = finisher["worker"].texts
        /\ finisher["worker"].status \in Own
    BY <1>1 DEF WorkerAppends, InvTypes, OutputTypeOK, Finishers, Roles
  <1>3. /\ Recording /\ exec \in {"ok", "error"}
        /\ \A s \in Streams : s \notin NotStreamed \/ Passed(s) => Logged(s) = printed[s]
        /\ \A s \in Streams : finisher["worker"].texts[s] = ToRecord(s)
        /\ \A s \in NotStreamed : Passed(s) \/ Logged(s) = 0
    BY <1>1 DEF InvRest, WorkerRecords, Recording, Complete
  <1>4. ~Passed(t)
    BY <1>1 DEF Passed, Streams
  <1>5. /\ (Joined(t))' = Piece(0, printed[t]) /\ (Logged(t))' = printed[t]
        /\ \A s : s # t => (Joined(s))' = Joined(s) /\ (Logged(s))' = Logged(s)
    <2>1. output \in Seq(OutputEvents)
      BY DEF InvTypes, OutputTypeOK
    <2>2. Joined(t) = Piece(0, Logged(t))
      BY DEF InvRest, Heads
    <2>3. CASE t \in NotStreamed
      <3>1. Logged(t) = 0 /\ Joined(t) = Piece(0, 0)
        BY <1>3, <1>4, <2>2, <2>3
      <3>2. output' = output \o EventsOf(t, Piece(0, printed[t]))
        BY <2>3 DEF WorkerAppends, Text
      <3>3. 0 \in Nat /\ printed[t] \in Nat /\ 0 + printed[t] = printed[t]
        BY <1>0
      <3>4. /\ (Joined(t))' = Piece(0, 0 + printed[t]) /\ (Logged(t))' = 0 + printed[t]
            /\ \A s : s # t => (Joined(s))' = Joined(s) /\ (Logged(s))' = Logged(s)
        <4> DEFINE m == printed[t]
        <4>1. m \in Nat /\ output' = output \o EventsOf(t, Piece(0, m))
          BY <3>2, <3>3
        <4> HIDE DEF m
        <4>2. /\ (Joined(t))' = Piece(0, 0 + m) /\ (Logged(t))' = 0 + m
              /\ \A s : s # t => (Joined(s))' = Joined(s) /\ (Logged(s))' = Logged(s)
          BY <2>1, <3>1, <3>3, <4>1, LogContinues
        <4> QED
          BY <4>2 DEF m
      <3> QED
        BY <3>3, <3>4
    <2>4. CASE t \notin NotStreamed
      <3>1. output' = output \o EventsOf(t, <<>>)
        BY <2>4 DEF WorkerAppends
      <3>2. \A s : (Joined(s))' = Joined(s) /\ (Logged(s))' = Logged(s)
        BY <2>1, <3>1, LogKeptEmpty
      <3> QED
        BY <1>3, <2>2, <2>4, <3>2
    <2> QED
      BY <2>3, <2>4
  <1>6. \A s \in Streams : (Logged(s))' \in Nat /\ Logged(s) <= (Logged(s))' /\ (Logged(s))' <= printed[s]
    <2>1. \A s \in Streams : Logged(s) <= printed[s]
      BY DEF InvRest, Heads
    <2> QED
      BY <1>0, <1>5, <2>1
  <1>7. Heads'
    <2>1. \A s \in Streams : (Joined(s))' = Piece(0, (Logged(s))') /\ (Logged(s))' <= printed'[s]
      BY <1>1, <1>5, <1>6 DEF InvRest, Heads
    <2> QED
      BY <2>1 DEF Heads
  <1>8. \A s \in Streams : Logged(s) = printed[s] => (Logged(s))' = printed'[s]
    BY <1>1, <1>5
  <1>9. Streaming'
    <2>1. exec \notin Streams /\ exec # "running"
      BY <1>3 DEF Streams
    <2>2. /\ ~hosted /\ ~Ended => (Logged("stdout"))' = printed'["stdout"]
          /\ ~hosted /\ exec = "ok" /\ ~Ended => (Logged("stderr"))' = printed'["stderr"]
      BY <1>0, <1>8, <2>1 DEF InvRest, Streaming, Complete
    <2>3. Ended' <=> Ended
      BY <1>1 DEF Ended
    <2>4. hosted /\ exec = "error" => printed["stdout"] = 0
      BY DEF InvRest, Streaming
    <2> QED
      BY <1>1, <2>1, <2>2, <2>3, <2>4 DEF Streaming, Streams, Complete
  <1>10. NotStreamed' = NotStreamed
    BY <1>1 DEF NotStreamed
  <1>11. WorkerRecords'
    <2>1. \A s \in Streams : (Passed(s))' => s = t \/ Passed(s)
      BY <1>0, <1>1, <1>2 DEF Passed
    <2>2. \A s \in Streams : s \notin NotStreamed' \/ (Passed(s))' => (Complete(s))'
      BY <1>1, <1>3, <1>5, <1>8, <1>10, <2>1 DEF Complete
    <2>3. \A s \in Streams : finisher'["worker"].texts[s] = (ToRecord(s))'
      BY <1>1, <1>2, <1>3 DEF ToRecord, Text
    <2>4. \A s \in NotStreamed' : (Passed(s))' \/ (Logged(s))' = 0
      <3>1. (Passed(t))'
        BY <1>2 DEF Passed, Streams
      <3>2. \A s \in NotStreamed : s = t \/ Passed(s) \/ (Logged(s))' = 0
        BY <1>3, <1>5
      <3>3. \A s \in NotStreamed : Passed(s) => (Passed(s))'
        BY <1>0, <1>1, <1>2 DEF Passed, Streams
      <3> QED
        BY <1>10, <3>1, <3>2, <3>3
    <2> QED
      BY <1>1, <1>3, <2>2, <2>3, <2>4 DEF WorkerRecords
  <1>12. OwnIsWhole'
    <2>1. finished \notin Own
      BY <1>1 DEF InvRest, OwnIsWhole, Streams
    <2> QED
      BY <1>1, <2>1 DEF OwnIsWhole
  <1>13. CollectedIsHead'
    <2>1. \A g \in Finishers : finisher'[g] = finisher[g] \/ finisher'[g].status \notin Collected
      BY <1>2 DEF Finishers, Own, Collected
    <2> QED
      BY <1>1, <1>6, <2>1, CollectedKept DEF InvRest, InvTypes
  <1> QED
    BY <1>7, <1>9, <1>11, <1>12, <1>13 DEF InvRest

LEMMA CollectKeeps ==
  ASSUME InvTypes, InvRest, NEW f \in Finishers, Collect(f)
  PROVE  InvRest'
PROOF
  <1> USE DEF Numbers
  <1>0. Numbers
    BY NumbersTyped DEF InvTypes
  <1>1. /\ finisher[f].pc = "collect"
        /\ UNCHANGED <<hosted, printed, exec, pending, output, finished, tails>>
    BY DEF Collect
  <1>2. CASE Ended
    <2>1. finisher'[f].pc = "done" /\ \A g \in Finishers : g # f => finisher'[g] = finisher[g]
      BY <1>2, LeaveFacts DEF Collect, InvTypes
    <2> QED
      BY <1>1, <2>1, FinisherMoves
  <1>3. CASE ~Ended
    <2>1. /\ finisher'[f] = [pc |-> "finish", status |-> finisher[f].status,
                             texts |-> [s \in Streams |-> Joined(s)]]
          /\ \A g \in Finishers : g # f => finisher'[g] = finisher[g]
      <3>1. [s \in Streams |-> Joined(s)] \in [Streams -> Texts]
        BY JoinedIsText DEF InvTypes, OutputTypeOK
      <3>2. finisher[f].status \in {"none"} \cup Own \cup Collected
        BY DEF InvTypes, OutputTypeOK
      <3>3. Decide(f, "finish", finisher[f].status, [s \in Streams |-> Joined(s)])
        BY <1>3 DEF Collect
      <3> QED
        BY <3>1, <3>2, <3>3, DecideFacts DEF InvTypes
    <2>2. finisher[f].status \in Collected /\ finisher[f].status \notin Own
      BY <1>1 DEF InvTypes, Roles, Finishers, Own, Collected
    <2>3. \A s : (Joined(s))' = Joined(s) /\ (Logged(s))' = Logged(s)
      BY <1>1, LogKept
    <2>4. f = "worker" \/ finisher'["worker"] = finisher["worker"]
      BY <2>1 DEF Finishers
    <2>5. Heads'
      <3>1. \A s \in Streams : Logged(s) <= printed'[s]
        BY <1>1 DEF InvRest, Heads
      <3> QED
        BY <2>3, <3>1, HeadsKept DEF InvRest
    <2>6. Streaming'
      BY <1>1, <2>3 DEF InvRest, Streaming, Complete, Ended
    <2>7. WorkerRecords'
      <3>1. CASE f = "worker"
        <4>1. finisher'["worker"].pc = "finish" /\ finisher'["worker"].status \notin Own
          BY <2>1, <2>2, <3>1
        <4> QED
          BY <4>1 DEF WorkerRecords, Recording, Streams
      <3>2. CASE finisher'["worker"] = finisher["worker"]
        BY <1>1, <2>3, <3>2
           DEF InvRest, WorkerRecords, Recording, NotStreamed, Passed, Complete, ToRecord, Text
      <3> QED
        BY <2>4, <3>1, <3>2
    <2>8. OwnIsWhole'
      <3>1. finished \notin Own
        BY <1>3 DEF Ended, Own
      <3> QED
        BY <1>1, <3>1 DEF OwnIsWhole
    <2>9. CollectedIsHead'
      <3>1. ASSUME NEW g \in Finishers, finisher'[g].pc = "finish", finisher'[g].status \in Collected,
                   NEW s \in Streams
            PROVE  \E n \in 0..(Logged(s))' : finisher'[g].texts[s] = Piece(0, n)
        <4>1. CASE g = f
          <5>1. finisher'[g].texts[s] = Joined(s)
            BY <2>1, <4>1
          <5>2. Joined(s) = Piece(0, Logged(s)) /\ Logged(s) \in 0..(Logged(s))'
            BY <1>0, <2>3 DEF InvRest, Heads
          <5> QED
            BY <5>1, <5>2
        <4>2. CASE g # f
          <5>1. finisher'[g] = finisher[g]
            BY <2>1, <4>2
          <5> QED
            BY <2>3, <3>1, <5>1 DEF InvRest, CollectedIsHead
        <4> QED
          BY <4>1, <4>2
      <3>2. finished \notin Collected
        BY <1>3 DEF Ended, Collected
      <3> QED
        BY <1>1, <3>1, <3>2 DEF CollectedIsHead
    <2> QED
      BY <2>5, <2>6, <2>7, <2>8, <2>9 DEF InvRest
  <1> QED
    BY <1>2, <1>3

LEMMA FinishOutputKeeps ==
  ASSUME InvTypes, InvRest, NEW f \in Finishers, FinishOutput(f)
  PROVE  InvRest'
PROOF
  <1> USE DEF Numbers
  <1>0. Numbers
    BY NumbersTyped DEF InvTypes
  <1>1. /\ finisher[f].pc = "finish" /\ UNCHANGED <<hosted, printed, exec, pending>>
        /\ finisher'[f].pc = "done" /\ \A g \in Finishers : g # f => finisher'[g] = finisher[g]
    BY LeaveFacts DEF FinishOutput, InvTypes
  <1>2. CASE Ended
    <2>1. UNCHANGED <<output, finished, tails>>
      BY <1>2 DEF FinishOutput
    <2> QED
      BY <1>1, <2>1, FinisherMoves
  <1>3. CASE ~Ended
    <2>1. /\ output' = Append(output, EndEvent) /\ finished' = finisher[f].status
          /\ tails' = [s \in Streams |-> TailOf(finisher[f].texts[s])]
      BY <1>3 DEF FinishOutput
    <2>2. \A s \in Streams : (Joined(s))' = Joined(s) /\ (Logged(s))' = Logged(s)
      BY <2>1, LogEnds DEF InvTypes, OutputTypeOK
    <2>3. f = "worker" \/ finisher'["worker"] = finisher["worker"]
      BY <1>1 DEF Finishers
    <2>4. Ended'
      BY <2>1, <1>1 DEF Ended, InvTypes, Roles, Finishers, Own, Collected
    <2>5. NotStreamed' = NotStreamed /\ NotStreamed \subseteq Streams
      BY <1>0, <1>1 DEF NotStreamed
    <2>6. Heads'
      <3>1. \A s \in Streams : Logged(s) <= printed'[s]
        BY <1>1 DEF InvRest, Heads
      <3> QED
        BY <2>2, <3>1, HeadsKept DEF InvRest
    <2>7. Streaming'
      BY <1>0, <1>1, <2>2, <2>4 DEF InvRest, Streaming
    <2>8. WorkerRecords'
      <3>1. CASE f = "worker"
        BY <1>1, <3>1 DEF WorkerRecords, Recording, Streams
      <3>2. CASE finisher'["worker"] = finisher["worker"]
        <4>1. Recording' => Recording
          BY <3>2 DEF Recording
        <4>2. \A s \in Streams : /\ (Passed(s))' <=> Passed(s)
                                 /\ (Complete(s))' <=> Complete(s)
                                 /\ (ToRecord(s))' = ToRecord(s)
          BY <1>1, <2>2, <3>2 DEF Passed, Complete, ToRecord, Text
        <4> QED
          BY <1>1, <2>2, <2>5, <3>2, <4>1, <4>2 DEF InvRest, WorkerRecords
      <3> QED
        BY <2>3, <3>1, <3>2
    <2>9. OwnIsWhole'
      <3>1. SUFFICES ASSUME finished' \in Own
                     PROVE  OwnIsWhole'
        BY DEF OwnIsWhole
      <3>2. f = "worker" /\ finisher["worker"].status \in Own
        BY <1>1, <2>1, <3>1 DEF InvTypes, Roles, Finishers, Own, Collected
      <3>3. Recording /\ Passed("stdout") /\ Passed("stderr")
        BY <1>1, <3>2 DEF Recording, Passed
      <3>4. /\ exec \in {"ok", "error"}
            /\ \A s \in Streams : Complete(s) /\ finisher["worker"].texts[s] = ToRecord(s)
        BY <1>0, <3>3 DEF InvRest, WorkerRecords
      <3>5. \A s \in Streams : (Complete(s))' /\ tails'[s] = (TailOf(ToRecord(s)))'
        <4>1. \A s \in Streams : tails'[s] = TailOf(ToRecord(s))
          BY <2>1, <3>2, <3>4
        <4>2. \A s \in Streams : (ToRecord(s))' = ToRecord(s)
          BY <1>1 DEF ToRecord, Text
        <4>3. \A s \in Streams : (Complete(s))'
          BY <1>1, <2>2, <3>4 DEF Complete
        <4> QED
          BY <4>1, <4>2, <4>3 DEF TailOf
      <3> QED
        BY <1>1, <3>2, <3>4, <3>5 DEF OwnIsWhole
    <2>10. CollectedIsHead'
      <3>1. ASSUME NEW g \in Finishers, finisher'[g].pc = "finish", finisher'[g].status \in Collected,
                   NEW s \in Streams
            PROVE  \E n \in 0..(Logged(s))' : finisher'[g].texts[s] = Piece(0, n)
        <4>1. finisher'[g] = finisher[g]
          BY <1>1, <3>1
        <4> QED
          BY <2>2, <3>1, <4>1 DEF InvRest, CollectedIsHead
      <3>2. ASSUME finished' \in Collected, NEW s \in Streams
            PROVE  \E n \in 0..(Logged(s))' : tails'[s] = TailOf(Piece(0, n))
        <4>1. PICK n \in 0..Logged(s) : finisher[f].texts[s] = Piece(0, n)
          BY <1>1, <2>1, <3>2 DEF InvRest, CollectedIsHead
        <4> QED
          BY <2>1, <2>2, <4>1
      <3> QED
        BY <3>1, <3>2 DEF CollectedIsHead
    <2> QED
      BY <2>6, <2>7, <2>8, <2>9, <2>10 DEF InvRest
  <1> QED
    BY <1>2, <1>3

-----------------------------------------------------------------------------
(* The theorems *)

OutputInv == OutputTypeOK /\ Roles /\ InvRest

LEMMA OutputInvInit == OutputInit => OutputInv
PROOF
  <1> SUFFICES ASSUME OutputInit PROVE OutputInv
    OBVIOUS
  <1>1. OutputTypeOK /\ Roles
    BY TypeInit
  <1>2. \A s : Joined(s) = <<>> /\ Logged(s) = 0
    BY JoinedIs, JoiningEmpty, EmptySeq DEF OutputInit, Logged
  <1>3. Piece(0, 0) = <<>>
    <2>1. 0 \in Nat
      OBVIOUS
    <2> QED
      BY <2>1, PieceFacts
  <1>4. \A s \in Streams : printed[s] = 0
    BY DEF OutputInit
  <1>5. /\ exec = "running" /\ finished = "running"
        /\ finisher["worker"].pc = "watch" /\ finisher["caller"].pc = "idle"
    BY DEF OutputInit, Finishers
  <1>6. Heads
    BY <1>2, <1>3, <1>4 DEF Heads
  <1>7. Streaming
    BY <1>2, <1>4, <1>5 DEF Streaming, Complete, Streams
  <1>8. WorkerRecords
    BY <1>2, <1>5 DEF WorkerRecords, Recording, Streams
  <1>9. OwnIsWhole
    BY <1>5 DEF OwnIsWhole, Own
  <1>10. CollectedIsHead
    BY <1>5 DEF CollectedIsHead, Collected, Finishers
  <1> QED
    BY <1>1, <1>6, <1>7, <1>8, <1>9, <1>10 DEF OutputInv, InvRest

LEMMA OutputInvStep == OutputInv /\ [OutputNext]_outputVars => OutputInv'
PROOF
  <1> SUFFICES ASSUME OutputInv, [OutputNext]_outputVars PROVE OutputInv'
    OBVIOUS
  <1>1. InvTypes /\ InvRest
    BY TypeStep DEF OutputInv, InvTypes
  <1>2. SUFFICES InvRest'
    BY <1>1 DEF OutputInv, InvTypes
  <1>3. ASSUME NEW n \in 1..MaxText, PrintLine(n) PROVE InvRest'
    BY <1>1, <1>3, PrintLineKeeps
  <1>4. ASSUME NEW n \in 0..MaxText, NEW m \in 0..MaxText, EndExecution(n, m) PROVE InvRest'
    BY <1>1, <1>4, EndExecutionKeeps
  <1>5. CASE BreakOff
    BY <1>1, <1>5, BreakOffKeeps
  <1>6. CASE AppendPending
    BY <1>1, <1>6, AppendPendingKeeps
  <1>7. CASE CancelBegins
    <2>1. /\ finisher'["caller"] = [pc |-> "collect", status |-> "canceled", texts |-> NoTails]
          /\ \A g \in Finishers : g # "caller" => finisher'[g] = finisher[g]
      BY <1>1, <1>7, DecideFacts, NoTailsFacts DEF CancelBegins, InvTypes, Finishers, Collected
    <2>2. finisher["caller"].pc # "done" /\ finisher'["caller"].pc = "collect" /\ "caller" \in Finishers
      BY <1>7, <2>1 DEF CancelBegins, Finishers
    <2> QED
      BY <1>1, <1>7, <2>1, <2>2, FinisherMoves DEF CancelBegins
  <1>8. CASE GiveUp
    <2>1. finisher["worker"].pc # "done" /\ "worker" \in Finishers
      BY <1>8 DEF GiveUp, Finishers
    <2>2. CASE Leave("worker")
      <3>1. finisher'["worker"].pc = "done" /\ \A g \in Finishers : g # "worker" => finisher'[g] = finisher[g]
        BY <1>1, <2>1, <2>2, LeaveFacts DEF InvTypes
      <3> QED
        BY <1>1, <1>8, <2>1, <3>1, FinisherMoves DEF GiveUp
    <2>3. ASSUME NEW st \in Collected, Decide("worker", "collect", st, NoTails)
          PROVE  InvRest'
      <3>1. /\ finisher'["worker"] = [pc |-> "collect", status |-> st, texts |-> NoTails]
            /\ \A g \in Finishers : g # "worker" => finisher'[g] = finisher[g]
        BY <1>1, <2>1, <2>3, DecideFacts, NoTailsFacts DEF InvTypes
      <3>2. finisher'["worker"].pc = "collect"
        BY <3>1
      <3> QED
        BY <1>1, <1>8, <2>1, <3>1, <3>2, FinisherMoves DEF GiveUp
    <2> QED
      BY <1>8, <2>2, <2>3 DEF GiveUp
  <1>9. CASE SeeEnd
    BY <1>1, <1>9, SeeEndKeeps
  <1>10. ASSUME NEW s \in Streams, WorkerAppends(s) PROVE InvRest'
    BY <1>1, <1>10, WorkerAppendsKeeps
  <1>11. ASSUME NEW f \in Finishers, Collect(f) PROVE InvRest'
    BY <1>1, <1>11, CollectKeeps
  <1>12. ASSUME NEW f \in Finishers, FinishOutput(f) PROVE InvRest'
    BY <1>1, <1>12, FinishOutputKeeps
  <1>13. CASE UNCHANGED outputVars
    <2>1. \A s : (Joined(s))' = Joined(s) /\ (Logged(s))' = Logged(s)
      BY <1>13, LogKept DEF outputVars
    <2>2. Heads' /\ Streaming'
      BY <1>1, <1>13, <2>1 DEF outputVars, InvRest, Heads, Streaming, Complete, Ended
    <2>3. WorkerRecords' /\ OwnIsWhole'
      BY <1>1, <1>13, <2>1
         DEF outputVars, InvRest, WorkerRecords, OwnIsWhole, Recording, NotStreamed, Passed, Complete,
             ToRecord, Text
    <2>4. CollectedIsHead'
      BY <1>1, <1>13, <2>1 DEF outputVars, InvRest, CollectedIsHead
    <2> QED
      BY <2>2, <2>3, <2>4 DEF InvRest
  <1> QED
    BY <1>3, <1>4, <1>5, <1>6, <1>7, <1>8, <1>9, <1>10, <1>11, <1>12, <1>13 DEF OutputNext

\* The invariant: threads and log agree on how much of each stream is recorded.
THEOREM OutputInvHolds == OutputSpec => []OutputInv
PROOF
  BY OutputInvInit, OutputInvStep, PTL DEF OutputSpec

\* The variables of CommandOutput keep their types.
THEOREM OutputTyped == OutputSpec => []OutputTypeOK
PROOF
  <1>1. OutputInv => OutputTypeOK
    BY DEF OutputInv
  <1> QED
    BY <1>1, OutputInvHolds, PTL

LEMMA InvLogIsOutput == OutputInv => LogIsOutput
PROOF
  <1> SUFFICES ASSUME OutputInv, NEW s \in Streams
               PROVE  IsHead(Joined(s), Text(s)) /\ (finished \in Own => Joined(s) = Text(s))
    BY DEF LogIsOutput
  <1>1. /\ Logged(s) \in Nat /\ printed[s] \in Nat /\ 0 \in Nat
    BY NumbersTyped DEF OutputInv, Numbers
  <1>2. Joined(s) = Piece(0, Logged(s)) /\ Logged(s) <= printed[s]
    BY DEF OutputInv, InvRest, Heads
  <1>3. Len(Joined(s)) = Logged(s) /\ Len(Text(s)) = printed[s]
    BY <1>1, PieceFacts DEF Logged, Text
  <1>4. Joined(s) = SubSeq(Text(s), 1, Logged(s))
    <2>1. Logged(s) \in 0..printed[s]
      BY <1>1, <1>2
    <2> QED
      BY <1>1, <1>2, <2>1, HeadOfPiece DEF Text
  <1>5. finished \in Own => Logged(s) = printed[s]
    BY DEF OutputInv, InvRest, OwnIsWhole, Complete
  <1> QED
    BY <1>2, <1>3, <1>4, <1>5 DEF IsHead, Text

\* The events of a stream, joined, are the beginning of what the command printed
\* to it, and all of it once the command completed or failed: _append_output_event
\* called by the execution thread and by the worker loses and repeats nothing.
THEOREM LogIsPrinted == OutputSpec => []LogIsOutput
PROOF
  BY InvLogIsOutput, OutputInvHolds, PTL

LEMMA InvTailsMatchLog == OutputInv => TailsMatchLog
PROOF
  <1> SUFFICES ASSUME OutputInv, Ended, NEW s \in Streams
               PROVE  IF finished \in Own
                      THEN IF exec = "error" /\ s = "stdout" THEN tails[s] = <<>>
                           ELSE IsTailOf(tails[s], Joined(s))
                      ELSE \E n \in 0..Len(Joined(s)) : IsTailOf(tails[s], SubSeq(Joined(s), 1, n))
    BY DEF TailsMatchLog
  <1>1. Logged(s) \in Nat /\ Joined(s) \in Texts
    BY NumbersTyped, JoinedIsText DEF OutputInv, OutputTypeOK, Numbers
  <1>2. CASE finished \in Own
    <2>1. tails[s] = TailOf(ToRecord(s)) /\ Joined(s) = Text(s)
      BY <1>2, InvLogIsOutput DEF OutputInv, InvRest, OwnIsWhole, LogIsOutput
    <2>2. CASE exec = "error" /\ s = "stdout"
      <3>1. tails[s] = TailOf(<<>>)
        BY <2>1, <2>2 DEF ToRecord
      <3>2. TailOf(<<>>) = <<>>
        BY SizesAssumption, SubSeqEmpty DEF TailOf
      <3> QED
        BY <1>2, <2>2, <3>1, <3>2
    <2>3. CASE ~(exec = "error" /\ s = "stdout")
      <3>1. tails[s] = TailOf(Joined(s))
        BY <2>1, <2>3 DEF ToRecord
      <3> QED
        BY <1>1, <1>2, <2>3, <3>1, TailIsTail
    <2> QED
      BY <2>2, <2>3
  <1>3. CASE finished \notin Own
    <2>1. finished \in Collected
      BY <1>3 DEF Ended, OutputInv, OutputTypeOK
    <2>2. PICK n \in 0..Logged(s) : tails[s] = TailOf(Piece(0, n))
      BY <2>1 DEF OutputInv, InvRest, CollectedIsHead
    <2>3. Piece(0, n) \in Texts /\ SubSeq(Joined(s), 1, n) = Piece(0, n)
      <3>1. n \in Nat /\ 0 \in Nat
        BY <1>1
      <3>2. Joined(s) = Piece(0, Logged(s))
        BY DEF OutputInv, InvRest, Heads
      <3> QED
        BY <1>1, <3>1, <3>2, PieceFacts, HeadOfPiece
    <2>4. IsTailOf(tails[s], SubSeq(Joined(s), 1, n))
      BY <2>2, <2>3, TailIsTail
    <2> QED
      BY <1>3, <2>4 DEF Logged
  <1> QED
    BY <1>2, <1>3

\* The tails that finish_command stores end the text that the log has, or had when
\* _finish_terminal read it for a command that was given up.
THEOREM RowTailsMatchLog == OutputSpec => []TailsMatchLog
PROOF
  BY InvTailsMatchLog, OutputInvHolds, PTL

-----------------------------------------------------------------------------
(* Chunks stand together *)

\* A chunk of the log out at i, as ChunksStandTogether describes it.
StandsAt(out, i) ==
  out[i].stream # "end" =>
    /\ \A j \in 0..out[i].count - 1 :
         /\ i - out[i].index + j \in 1..Len(out)
         /\ out[i - out[i].index + j].stream = out[i].stream
         /\ out[i - out[i].index + j].index = j /\ out[i - out[i].index + j].count = out[i].count
    /\ Len(out[i].text) \in 1..ChunkSize
    /\ out[i].index < out[i].count - 1 => Len(out[i].text) = ChunkSize

LEMMA StandingAre ==
  ASSUME output' \in Seq(OutputEvents), \A i \in DOMAIN output' : StandsAt(output', i)
  PROVE  ChunksStandTogether'
PROOF
  <1>1. DOMAIN output' = 1..Len(output')
    BY LenProperties
  <1>2. ASSUME NEW i \in DOMAIN output', output'[i].stream # "end"
        PROVE  /\ \A j \in 0..output'[i].count - 1 :
                    /\ i - output'[i].index + j \in DOMAIN output'
                    /\ output'[i - output'[i].index + j].stream = output'[i].stream
                    /\ output'[i - output'[i].index + j].index = j
                    /\ output'[i - output'[i].index + j].count = output'[i].count
               /\ Len(output'[i].text) \in 1..ChunkSize
               /\ output'[i].index < output'[i].count - 1 => Len(output'[i].text) = ChunkSize
    <2>1. StandsAt(output', i)
      BY <1>2
    <2> QED
      BY <1>1, <1>2, <2>1 DEF StandsAt
  <1> QED
    BY <1>2 DEF ChunksStandTogether

LEMMA ChunksAre ==
  ASSUME output \in Seq(OutputEvents)
  PROVE  ChunksStandTogether <=> \A i \in 1..Len(output) : StandsAt(output, i)
PROOF
  <1>1. DOMAIN output = 1..Len(output)
    BY LenProperties
  <1> QED
    BY <1>1 DEF ChunksStandTogether, StandsAt

\* A longer log leaves the chunks that stand in it alone.
LEMMA ChunkStays ==
  ASSUME NEW out \in Seq(OutputEvents), NEW more \in Seq(OutputEvents), NEW i \in 1..Len(out), StandsAt(out, i)
  PROVE  StandsAt(out \o more, i)
PROOF
  <1> DEFINE long == out \o more
  <1>1. /\ Len(out) \in Nat /\ Len(more) \in Nat /\ Len(long) = Len(out) + Len(more)
        /\ \A k \in 1..Len(out) : long[k] = out[k]
    BY LenProperties, ConcatProperties
  <1>2. out[i] \in OutputEvents /\ long[i] = out[i]
    BY <1>1, ElementOfSeq
  <1> HIDE DEF long
  <1>3. ASSUME long[i].stream # "end", NEW j \in 0..long[i].count - 1
        PROVE  /\ i - long[i].index + j \in 1..Len(long)
               /\ long[i - long[i].index + j].stream = long[i].stream
               /\ long[i - long[i].index + j].index = j
               /\ long[i - long[i].index + j].count = long[i].count
    <2>1. i - out[i].index + j \in 1..Len(out)
      BY <1>2, <1>3 DEF StandsAt
    <2>2. long[i - out[i].index + j] = out[i - out[i].index + j]
      BY <1>1, <2>1
    <2>3. /\ out[i - out[i].index + j].stream = out[i].stream
          /\ out[i - out[i].index + j].index = j
          /\ out[i - out[i].index + j].count = out[i].count
      BY <1>2, <1>3 DEF StandsAt
    <2>4. i - out[i].index + j \in 1..Len(long)
      BY <1>1, <2>1
    <2> QED
      BY <1>2, <2>2, <2>3, <2>4
  <1>4. long[i].stream # "end" => /\ Len(long[i].text) \in 1..ChunkSize
                                  /\ long[i].index < long[i].count - 1 => Len(long[i].text) = ChunkSize
    BY <1>2 DEF StandsAt
  <1> QED
    BY <1>3, <1>4 DEF StandsAt, long

\* The events of one text stand together wherever the block is put.
LEMMA BlockStands ==
  ASSUME NEW out \in Seq(OutputEvents), NEW text \in Texts, NEW t \in Streams,
         NEW i \in Len(out) + 1..Len(out) + ChunkCount(text)
  PROVE  StandsAt(out \o EventsOf(t, text), i)
PROOF
  <1> DEFINE n == Len(out)
             q == ChunkCount(text)
             evs == EventsOf(t, text)
             long == out \o evs
             p == i - n
  <1>1. n \in Nat /\ q \in Nat /\ ChunkSize \in Nat
    BY LenProperties, ChunkCountFacts, SizesAssumption
  <1>2. \A k \in 1..q : /\ evs[k].stream = t /\ evs[k].text = Chunk(text, k - 1)
                        /\ evs[k].index = k - 1 /\ evs[k].count = q
    <2>1. ASSUME NEW k \in 1..q
          PROVE  evs[k] = [stream |-> t, text |-> Chunk(text, k - 1), index |-> k - 1, count |-> q]
      BY EventsFacts
    <2>2. ASSUME NEW k \in 1..q
          PROVE  /\ evs[k].stream = t /\ evs[k].text = Chunk(text, k - 1)
                 /\ evs[k].index = k - 1 /\ evs[k].count = q
      <3> DEFINE e == evs[k]
                 c == Chunk(text, k - 1)
                 x == k - 1
      <3>1. e = [stream |-> t, text |-> c, index |-> x, count |-> q]
        BY <2>1
      <3> HIDE DEF e, c, x, q
      <3>2. e.stream = t /\ e.text = c /\ e.index = x /\ e.count = q
        BY <3>1
      <3> QED
        BY <3>2 DEF e, c, x
    <2> QED
      BY <2>2
  <1>3. /\ Len(long) = n + q
        /\ \A k \in 1..q : long[n + k] = evs[k]
    <2>1. evs \in Seq(OutputEvents) /\ Len(evs) = q
      BY EventsFacts
    <2>2. /\ Len(out \o evs) = n + q
          /\ \A k \in 1..n + q : (out \o evs)[k] = IF k <= n THEN out[k] ELSE evs[k - n]
      BY <2>1, ConcatProperties
    <2>3. ASSUME NEW k \in 1..q
          PROVE  long[n + k] = evs[k]
      <3>1. n + k \in 1..n + q /\ ~(n + k <= n) /\ (n + k) - n = k
        BY <1>1
      <3> HIDE DEF n, q, evs
      <3> QED
        BY <2>2, <3>1
    <2> QED
      BY <2>2, <2>3
  <1>4. p \in 1..q /\ i = n + p /\ p - 1 \in Nat /\ p - 1 < q
    BY <1>1
  <1> HIDE DEF n, q, evs, long, p
  <1>5. /\ long[i].stream = t /\ long[i].text = Chunk(text, p - 1)
        /\ long[i].index = p - 1 /\ long[i].count = q
    BY <1>2, <1>3, <1>4
  <1>6. ASSUME NEW j \in 0..q - 1
        PROVE  /\ i - (p - 1) + j \in 1..Len(long)
               /\ long[i - (p - 1) + j].stream = t
               /\ long[i - (p - 1) + j].index = j /\ long[i - (p - 1) + j].count = q
    <2>1. i - (p - 1) + j = n + (j + 1) /\ j + 1 \in 1..q /\ (j + 1) - 1 = j
      BY <1>1, <1>4
    <2>2. n + (j + 1) \in 1..n + q
      BY <1>1, <2>1
    <2>3. long[n + (j + 1)] = evs[j + 1]
      BY <1>3, <2>1
    <2> QED
      BY <1>2, <1>3, <2>1, <2>2, <2>3
  <1>7. /\ Len(long[i].text) \in 1..ChunkSize
        /\ long[i].index < long[i].count - 1 => Len(long[i].text) = ChunkSize
    BY <1>4, <1>5, ChunkFacts DEF q
  <1>8. StandsAt(long, i)
    BY <1>5, <1>6, <1>7 DEF StandsAt
  <1> QED
    BY <1>8 DEF long, evs

LEMMA ChunksGrow ==
  ASSUME output \in Seq(OutputEvents), ChunksStandTogether, NEW text \in Texts, NEW t \in Streams,
         output' = output \o EventsOf(t, text)
  PROVE  ChunksStandTogether'
PROOF
  <1>1. EventsOf(t, text) \in Seq(OutputEvents) /\ Len(EventsOf(t, text)) = ChunkCount(text)
    BY EventsFacts
  <1>2. /\ output' \in Seq(OutputEvents) /\ Len(output') = Len(output) + ChunkCount(text)
        /\ Len(output) \in Nat /\ ChunkCount(text) \in Nat
    BY <1>1, ConcatProperties, LenProperties, ChunkCountFacts
  <1>3. ASSUME NEW i \in 1..Len(output')
        PROVE  StandsAt(output', i)
    <2>1. CASE i <= Len(output)
      <3>1. i \in 1..Len(output)
        BY <1>2, <2>1
      <3>2. StandsAt(output, i)
        BY <3>1, ChunksAre
      <3>3. StandsAt(output \o EventsOf(t, text), i)
        BY <1>1, <3>1, <3>2, ChunkStays
      <3> QED
        BY <3>3
    <2>2. CASE ~(i <= Len(output))
      <3>1. i \in Len(output) + 1..Len(output) + ChunkCount(text)
        BY <1>2, <2>2
      <3>2. StandsAt(output \o EventsOf(t, text), i)
        BY <3>1, BlockStands
      <3> QED
        BY <3>2
    <2> QED
      BY <2>1, <2>2
  <1>4. \A i \in DOMAIN output' : StandsAt(output', i)
    BY <1>2, <1>3, LenProperties
  <1> QED
    BY <1>2, <1>4, StandingAre

LEMMA ChunksEnd ==
  ASSUME output \in Seq(OutputEvents), ChunksStandTogether, output' = Append(output, EndEvent)
  PROVE  ChunksStandTogether'
PROOF
  <1>1. EndEvent \in OutputEvents /\ EndEvent.stream = "end"
    <2>1. <<>> \in Texts
      BY DEF Texts
    <2> QED
      BY <2>1 DEF EndEvent, OutputEvents
  <1>2. <<EndEvent>> \in Seq(OutputEvents) /\ output' = output \o <<EndEvent>>
    BY <1>1, AppendIsConcat
  <1>3. /\ output' \in Seq(OutputEvents) /\ Len(output') = Len(output) + 1 /\ Len(output) \in Nat
        /\ output'[Len(output) + 1] = EndEvent
    BY <1>1, AppendProperties, LenProperties
  <1>4. ASSUME NEW i \in 1..Len(output')
        PROVE  StandsAt(output', i)
    <2>1. CASE i <= Len(output)
      <3>1. i \in 1..Len(output)
        BY <1>3, <2>1
      <3>2. StandsAt(output, i)
        BY <3>1, ChunksAre
      <3>3. StandsAt(output \o <<EndEvent>>, i)
        BY <1>2, <3>1, <3>2, ChunkStays
      <3> QED
        BY <1>2, <3>3
    <2>2. CASE ~(i <= Len(output))
      <3>1. i = Len(output) + 1
        BY <1>3, <2>2
      <3> QED
        BY <1>1, <1>3, <3>1 DEF StandsAt
    <2> QED
      BY <2>1, <2>2
  <1>5. \A i \in DOMAIN output' : StandsAt(output', i)
    BY <1>3, <1>4, LenProperties
  <1> QED
    BY <1>3, <1>5, StandingAre

\* The chunks of a text stand together in the log, numbered in order and complete,
\* full but for the last: _append_output_event splits a text and appends it whole.
THEOREM ChunksAreTogether == OutputSpec => []ChunksStandTogether
PROOF
  <1>1. OutputInit => ChunksStandTogether
    BY DEF OutputInit, ChunksStandTogether
  <1>2. OutputInv /\ ChunksStandTogether /\ [OutputNext]_outputVars => ChunksStandTogether'
    <2> SUFFICES ASSUME OutputInv, ChunksStandTogether, [OutputNext]_outputVars
                 PROVE  ChunksStandTogether'
      OBVIOUS
    <2>1. output \in Seq(OutputEvents) /\ pending \in Texts
      BY DEF OutputInv, OutputTypeOK
    <2>2. CASE output' = output
      BY <2>2 DEF ChunksStandTogether
    <2>3. CASE AppendPending
      <3>1. PICK t \in Streams : exec = t
        BY <2>3 DEF AppendPending
      <3>2. PICK text \in Texts : pending = text
        BY <2>1
      <3>3. output' = output \o EventsOf(t, text)
        BY <2>3, <3>1, <3>2 DEF AppendPending
      <3> QED
        BY <2>1, <3>3, ChunksGrow
    <2>4. ASSUME NEW t \in Streams, WorkerAppends(t)
          PROVE  ChunksStandTogether'
      <3>1. (IF t \in NotStreamed THEN Text(t) ELSE <<>>) \in Texts
        <4>1. printed[t] \in Nat /\ 0 \in Nat
          BY NumbersTyped DEF OutputInv, Numbers
        <4>2. Text(t) \in Texts
          BY <4>1, PieceFacts DEF Text
        <4>3. <<>> \in Texts
          BY DEF Texts
        <4> QED
          BY <4>2, <4>3
      <3>2. PICK text \in Texts : (IF t \in NotStreamed THEN Text(t) ELSE <<>>) = text
        BY <3>1
      <3>3. output' = output \o EventsOf(t, text)
        BY <2>4, <3>2 DEF WorkerAppends
      <3> QED
        BY <2>1, <3>3, ChunksGrow
    <2>5. ASSUME NEW f \in Finishers, FinishOutput(f)
          PROVE  ChunksStandTogether'
      <3>1. output' = output \/ output' = Append(output, EndEvent)
        BY <2>5 DEF FinishOutput
      <3> QED
        BY <2>1, <2>2, <3>1, ChunksEnd
    <2> QED
      BY <2>2, <2>3, <2>4, <2>5
         DEF OutputNext, outputVars, PrintLine, EndExecution, BreakOff, CancelBegins, GiveUp, SeeEnd, Collect
  <1> QED
    BY <1>1, <1>2, OutputInvHolds, PTL DEF OutputSpec
=============================================================================
