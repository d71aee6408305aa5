------------------------ MODULE LiveDashboardProofs ------------------------
(***************************************************************************)
(* Theorems about LiveDashboard for any number of streams, messages,       *)
(* snapshots and troubles: the slots of the server are counted, every      *)
(* variable has its type, and what a page holds and is sent is all that    *)
(* the server takes for sent.                                              *)
(*                                                                         *)
(* Counting alone is not inductive: that a new stream takes one slot more  *)
(* needs that the page's thread is gone whenever its stream is not open.   *)
(*                                                                         *)
(* Nor is StreamCompletes: it says nothing of a page that merges a fetched *)
(* snapshot, or what a first message repairs.  FollowInv adds that what    *)
(* any rest of the coming messages tells is what the server took for sent, *)
(* and that a fetch on its way completes with the messages that will come  *)
(* after it, unless one later than the fetch is merged before it arrives.  *)
(* It rests on what merging does, which is a fold: MergeOneMore and        *)
(* MergeTwice, proved from the definition by induction over sets of        *)
(* numbers.                                                                *)
(***************************************************************************)
EXTENDS LiveDashboard, SequenceTheorems, WellFoundedInduction, TLAPS

OneThread == stream # "open" => handler = "none"
CountsOK == leftover \in Nat /\ slots \in 0..MaxClients
SlotsInv == CountsOK /\ OneThread /\ SlotsCounted

LEMMA SlotsInit == LiveInit => SlotsInv
BY BoundsAreNumbers DEF LiveInit, SlotsInv, CountsOK, OneThread, SlotsCounted

LEMMA SlotsStep == SlotsInv /\ [LiveNext]_vars => SlotsInv'
<1> SUFFICES ASSUME SlotsInv, [LiveNext]_vars PROVE SlotsInv'
  OBVIOUS
<1> USE BoundsAreNumbers DEF SlotsInv, CountsOK, OneThread, SlotsCounted
<1>1. CASE Publish
  BY <1>1 DEF Publish, threadVars, linkVars
<1>2. CASE ThreadStep
  BY <1>2 DEF ThreadStep, WriteFirst, ReadVersion, WakeUp, TimeOut, WriteNext
<1>3. CASE LeftoverStep
  BY <1>3 DEF LeftoverStep, EndLeftover
<1>4. CASE Connect
  BY <1>4 DEF Connect
<1>5. CASE Reject \/ Retry
  BY <1>5 DEF Reject, Retry, threadVars
<1>6. ASSUME NEW heard \in BOOLEAN, Break(heard) PROVE SlotsInv'
  BY <1>6 DEF Break
<1>7. CASE Receive
  BY <1>7 DEF Receive, threadVars
<1>8. CASE ApplyTimer \/ Show \/ Answer
  BY <1>8 DEF ApplyTimer, Show, Answer, threadVars, linkVars
<1>9. CASE Serve \/ FetchFails \/ RefetchTimer \/ StallTimer \/ Hide
  BY <1>9 DEF Serve, FetchFails, RefetchTimer, StallTimer, Hide, threadVars, linkVars
<1>10. CASE UNCHANGED vars
  BY <1>10 DEF vars, threadVars, linkVars
<1> QED BY <1>1, <1>2, <1>3, <1>4, <1>5, <1>6, <1>7, <1>8, <1>9, <1>10 DEF LiveNext, LinkStep, FetchStep

(* _sse_client_count is the number of threads that serve a stream or have  *)
(* lost its reader, however streams break, are refused and come back, and  *)
(* it never exceeds _MAX_SSE_CLIENTS (web_server.py 1252-1290).            *)
THEOREM SlotsAreCounted == LiveSpec => []SlotsCounted
<1>1. SlotsInv => SlotsCounted
  BY DEF SlotsInv
<1> QED BY <1>1, SlotsInit, SlotsStep, PTL DEF LiveSpec

\* The limit holds with it.
THEOREM SlotsAreLimited == LiveSpec => [](slots <= MaxClients)
<1>1. SlotsInv => slots <= MaxClients
  BY BoundsAreNumbers DEF SlotsInv, CountsOK
<1> QED BY <1>1, SlotsInit, SlotsStep, PTL DEF LiveSpec

-----------------------------------------------------------------------------
\* Induction over the natural numbers, as a statement about a set of them.
LEMMA LessIsWellFounded == \E R : IsWellFoundedOn(R, Nat) /\ \A x, y \in Nat : x < y => <<x, y>> \in R
<1>1. \A x, y \in Nat : x < y => <<x, y>> \in OpToRel(<, Nat)
  BY DEF OpToRel
<1> QED BY <1>1, NatLessThanWellFounded

LEMMA LeastNumber == ASSUME NEW T \in SUBSET Nat, T # {} PROVE \E n \in T : \A k \in T : n <= k
<1>1. PICK R : IsWellFoundedOn(R, Nat) /\ \A x, y \in Nat : x < y => <<x, y>> \in R
  BY LessIsWellFounded
<1>2. T \subseteq Nat /\ IsWellFoundedOn(R, Nat)
  BY <1>1
<1>3. \E n \in T : \A k \in T : ~(<<k, n>> \in R)
  BY <1>2, WFMin, Zenon
<1>4. PICK n \in T : \A k \in T : ~(<<k, n>> \in R)
  BY <1>3
<1>5. \A k \in T : ~(k < n)
  BY <1>1, <1>4
<1> QED BY <1>4, <1>5

LEMMA EveryNumber ==
    ASSUME NEW S \in SUBSET Nat, 0 \in S, \A n \in S : n + 1 \in S
    PROVE  S = Nat
<1> SUFFICES ASSUME Nat \ S # {} PROVE FALSE
  OBVIOUS
<1>1. PICK n \in Nat \ S : \A k \in Nat \ S : n <= k
  BY LeastNumber
<1>2. n # 0
  OBVIOUS
<1>3. n - 1 \in Nat /\ ~(n <= n - 1) /\ (n - 1) + 1 = n
  BY <1>2
<1>4. n - 1 \in S
  BY <1>1, <1>3
<1> QED BY <1>3, <1>4

-----------------------------------------------------------------------------
\* MergeBatch: the fold is a function of the sets of places, so that its equations can be proved.
Folded(g, s, batch) ==
    g = [T \in SUBSET DOMAIN batch |->
            IF T = {} THEN s ELSE MergeSseSummary(g[T \ {Max(T)}], batch[Max(T)])]

LEMMA MergeBatchIs ==
    ASSUME NEW s, NEW batch
    PROVE  MergeBatch(s, batch) = (CHOOSE g : Folded(g, s, batch))[DOMAIN batch]
BY DEF MergeBatch, FoldLeft, MapThenFoldSet, Folded

LEMMA MaxIs == ASSUME NEW T \in SUBSET Nat, NEW n \in T, \A k \in T : k <= n PROVE Max(T) = n
<1>1. \A y \in T : n >= y
  OBVIOUS
<1>2. \A x \in T : (\A y \in T : x >= y) => x = n
  OBVIOUS
<1> QED BY <1>1, <1>2 DEF Max

LEMMA FoldExists == ASSUME NEW s, NEW batch \in Seq(Messages) PROVE \E g : Folded(g, s, batch)
<1> DEFINE FoldTo(g, k) == g = [T \in SUBSET (1..k) |->
                IF T = {} THEN s ELSE MergeSseSummary(g[T \ {Max(T)}], batch[Max(T)])]
           Reached == {k \in Nat : \E g : FoldTo(g, k)}
<1>1. 0 \in Reached
  <2> DEFINE g == [T \in SUBSET (1..0) |-> s]
  <2>1. \A T \in SUBSET (1..0) : T = {}
    OBVIOUS
  <2>2. FoldTo(g, 0)
    BY <2>1
  <2> QED BY <2>2
<1>2. ASSUME NEW k \in Reached PROVE k + 1 \in Reached
  <2>1. k \in Nat
    OBVIOUS
  <2>2. PICK g : FoldTo(g, k)
    OBVIOUS
  <2> DEFINE h == [T \in SUBSET (1..(k + 1)) |->
                     IF k + 1 \in T THEN MergeSseSummary(g[T \ {k + 1}], batch[k + 1]) ELSE g[T]]
  <2>3. ASSUME NEW T \in SUBSET (1..(k + 1))
        PROVE  h[T] = IF T = {} THEN s ELSE MergeSseSummary(h[T \ {Max(T)}], batch[Max(T)])
    <3>1. CASE k + 1 \in T
      <4>1. Max(T) = k + 1
        <5>1. T \in SUBSET Nat /\ \A j \in T : j <= k + 1
          BY <2>1
        <5> QED BY <5>1, <3>1, MaxIs
      <4>2. T \ {k + 1} \in SUBSET (1..k) /\ T \ {k + 1} \in SUBSET (1..(k + 1)) /\ k + 1 \notin T \ {k + 1}
        BY <2>1
      <4>3. h[T \ {k + 1}] = g[T \ {k + 1}]
        BY <4>2
      <4>4. h[T] = MergeSseSummary(g[T \ {k + 1}], batch[k + 1])
        BY <3>1
      <4> HIDE DEF h
      <4> QED BY <3>1, <4>1, <4>3, <4>4
    <3>2. CASE k + 1 \notin T
      <4>1. T \in SUBSET (1..k)
        BY <2>1, <3>2
      <4>2. h[T] = g[T]
        BY <3>2
      <4>3. CASE T = {}
        BY <2>2, <4>1, <4>2, <4>3
      <4>4. CASE T # {}
        <5>1. g[T] = MergeSseSummary(g[T \ {Max(T)}], batch[Max(T)])
          BY <2>2, <4>1, <4>4
        <5>2. T \ {Max(T)} \in SUBSET (1..(k + 1)) /\ k + 1 \notin T \ {Max(T)}
          BY <3>2
        <5>3. h[T \ {Max(T)}] = g[T \ {Max(T)}]
          BY <5>2
        <5> HIDE DEF h
        <5> QED BY <4>2, <4>4, <5>1, <5>3
      <4> QED BY <4>3, <4>4
    <3> QED BY <3>1, <3>2
  <2>4. FoldTo(h, k + 1)
    <3>1. DOMAIN h = SUBSET (1..(k + 1)) /\ h = [T \in SUBSET (1..(k + 1)) |-> h[T]]
      OBVIOUS
    <3> HIDE DEF h
    <3> QED BY <2>3, <3>1
  <2> HIDE DEF h, FoldTo
  <2> QED BY <2>1, <2>4
<1>3. Reached = Nat
  <2>1. Reached \in SUBSET Nat
    OBVIOUS
  <2> HIDE DEF Reached
  <2> QED BY <1>1, <1>2, <2>1, EveryNumber
<1>4. Len(batch) \in Nat /\ DOMAIN batch = 1..Len(batch)
  OBVIOUS
<1>5. PICK g : FoldTo(g, Len(batch))
  BY <1>3, <1>4
<1> QED BY <1>4, <1>5 DEF Folded

LEMMA FoldIs ==
    ASSUME NEW s, NEW batch \in Seq(Messages)
    PROVE  \E g : Folded(g, s, batch) /\ MergeBatch(s, batch) = g[1..Len(batch)]
<1>1. Folded(CHOOSE g : Folded(g, s, batch), s, batch)
  BY FoldExists
<1>2. DOMAIN batch = 1..Len(batch)
  OBVIOUS
<1> QED BY <1>1, <1>2, MergeBatchIs

LEMMA FoldStep ==
    ASSUME NEW s, NEW batch \in Seq(Messages), NEW g, Folded(g, s, batch), NEW n \in 1..Len(batch)
    PROVE  g[1..n] = MergeSseSummary(g[1..(n - 1)], batch[n])
<1>1. 1..n \in SUBSET DOMAIN batch /\ 1..n # {}
  OBVIOUS
<1>2. Max(1..n) = n
  BY MaxIs
<1>3. (1..n) \ {n} = 1..(n - 1)
  OBVIOUS
<1>4. g[1..n] = MergeSseSummary(g[(1..n) \ {Max(1..n)}], batch[Max(1..n)])
  BY <1>1 DEF Folded
<1> QED BY <1>2, <1>3, <1>4

LEMMA FoldStart ==
    ASSUME NEW s, NEW batch \in Seq(Messages), NEW g, Folded(g, s, batch)
    PROVE  g[1..0] = s
<1>1. 1..0 = {} /\ {} \in SUBSET DOMAIN batch
  OBVIOUS
<1> QED BY <1>1 DEF Folded

\* Nothing to merge, and one message more: what the loop of flush does.
LEMMA MergeNone == ASSUME NEW s PROVE MergeBatch(s, <<>>) = s
<1>1. <<>> \in Seq(Messages) /\ Len(<<>>) = 0
  OBVIOUS
<1>2. PICK g : Folded(g, s, <<>>) /\ MergeBatch(s, <<>>) = g[1..Len(<<>>)]
  BY <1>1, FoldIs
<1> QED BY <1>1, <1>2, FoldStart

LEMMA MergeOneMore ==
    ASSUME NEW s, NEW batch \in Seq(Messages), NEW m \in Messages
    PROVE  MergeBatch(s, Append(batch, m)) = MergeSseSummary(MergeBatch(s, batch), m)
<1> DEFINE more == Append(batch, m)
           n == Len(batch)
<1>1. more \in Seq(Messages) /\ Len(more) = n + 1 /\ n \in Nat /\ more[n + 1] = m
  OBVIOUS
<1>2. \A j \in 1..n : more[j] = batch[j]
  OBVIOUS
<1> HIDE DEF more
<1>3. PICK g : Folded(g, s, batch) /\ MergeBatch(s, batch) = g[1..n]
  BY FoldIs
<1>4. PICK h : Folded(h, s, more) /\ MergeBatch(s, more) = h[1..(n + 1)]
  BY <1>1, FoldIs
<1> DEFINE Alike == {j \in Nat : j <= n => h[1..j] = g[1..j]}
<1>5. 0 \in Alike
  BY <1>1, <1>3, <1>4, FoldStart
<1>6. ASSUME NEW j \in Alike PROVE j + 1 \in Alike
  <2> SUFFICES ASSUME j + 1 <= n PROVE h[1..(j + 1)] = g[1..(j + 1)]
    OBVIOUS
  <2>1. j \in Nat /\ j <= n /\ j + 1 \in 1..Len(batch) /\ j + 1 \in 1..Len(more) /\ (j + 1) - 1 = j
    BY <1>1
  <2>2. h[1..(j + 1)] = MergeSseSummary(h[1..j], more[j + 1])
    BY <1>1, <1>4, <2>1, FoldStep
  <2>3. g[1..(j + 1)] = MergeSseSummary(g[1..j], batch[j + 1])
    BY <1>3, <2>1, FoldStep
  <2>4. h[1..j] = g[1..j]
    BY <2>1
  <2>5. more[j + 1] = batch[j + 1]
    BY <1>2, <2>1
  <2> QED BY <2>2, <2>3, <2>4, <2>5
<1>7. Alike = Nat
  <2>1. Alike \in SUBSET Nat
    OBVIOUS
  <2> HIDE DEF Alike
  <2> QED BY <1>5, <1>6, <2>1, EveryNumber
<1>8. h[1..n] = g[1..n]
  BY <1>1, <1>7
<1>9. n + 1 \in 1..Len(more) /\ (n + 1) - 1 = n
  BY <1>1
<1>10. h[1..(n + 1)] = MergeSseSummary(h[1..n], m)
  BY <1>1, <1>4, <1>9, FoldStep
<1> QED BY <1>3, <1>4, <1>8, <1>10 DEF more

LEMMA EverySequence ==
    ASSUME NEW M, NEW T \in SUBSET Seq(M), <<>> \in T, \A b \in T : \A m \in M : Append(b, m) \in T
    PROVE  T = Seq(M)
<1> DEFINE Long == {n \in Nat : \A b \in Seq(M) : Len(b) = n => b \in T}
<1>1. 0 \in Long
  OBVIOUS
<1>2. ASSUME NEW n \in Long PROVE n + 1 \in Long
  <2> SUFFICES ASSUME NEW b \in Seq(M), Len(b) = n + 1 PROVE b \in T
    OBVIOUS
  <2>1. b # <<>>
    OBVIOUS
  <2>2. PICK a \in Seq(M), m \in M : b = Append(a, m)
    BY <2>1, SequenceEmptyOrAppend
  <2>3. Len(a) = n
    BY <2>2
  <2> QED BY <2>2, <2>3
<1>3. Long = Nat
  <2>1. Long \in SUBSET Nat
    OBVIOUS
  <2> HIDE DEF Long
  <2> QED BY <1>1, <1>2, <2>1, EveryNumber
<1>4. \A b \in Seq(M) : Len(b) \in Long
  BY <1>3
<1>5. \A b \in Seq(M) : b \in T
  BY <1>4
<1> QED BY <1>5

Blocks == {"memory", "live"}

\* What one message does to the blocks and to the row.
LEMMA MergeOne ==
    ASSUME NEW s \in Contents, NEW m \in Messages
    PROVE  MergeSseSummary(s, m) \in Contents
<1>1. \A p \in Parts : s.value[p] \in Versions
  BY DEF Contents
<1>2. s.value \in [Parts -> Versions] /\ s.listed \in BOOLEAN /\ s = [value |-> s.value, listed |-> s.listed]
  BY DEF Contents
<1>3. (m.memory = Same \/ m.memory \in Versions) /\ (m.live = Same \/ m.live \in Versions)
      /\ m.row \in Versions /\ m.listed \in BOOLEAN
  BY DEF Messages
<1> DEFINE value == [s.value EXCEPT !["memory"] = IF m.memory = Same THEN @ ELSE m.memory,
                                    !["live"] = IF m.live = Same THEN @ ELSE m.live]
           t == [s EXCEPT !.value = value]
<1>4. value \in [Parts -> Versions]
  BY <1>1, <1>2, <1>3 DEF Parts
<1>5. t = [value |-> value, listed |-> s.listed]
  BY <1>2
<1> HIDE DEF value
<1>6. [value EXCEPT !["row"] = m.row] \in [Parts -> Versions]
  BY <1>3, <1>4
<1>7. MergeSseSummary(s, m) = MergeRow(t, m)
  BY DEF MergeSseSummary, value
<1>8. t \in Contents
  BY <1>2, <1>4, <1>5 DEF Contents
<1>9. [value |-> [t.value EXCEPT !["row"] = m.row], listed |-> m.listed] \in Contents
  BY <1>3, <1>5, <1>6 DEF Contents
<1> HIDE DEF t
<1> QED BY <1>7, <1>8, <1>9 DEF MergeRow

Ignored(s, m) == m.rows = "same" \/ (m.rows = "patch" /\ ~s.listed)
LEMMA MergeOneIs ==
    ASSUME NEW s \in Contents, NEW m \in Messages
    PROVE  /\ \A p \in Blocks : MergeSseSummary(s, m).value[p] = IF m[p] = Same THEN s.value[p] ELSE m[p]
           /\ MergeSseSummary(s, m).value["row"] = IF Ignored(s, m) THEN s.value["row"] ELSE m.row
           /\ MergeSseSummary(s, m).listed = IF Ignored(s, m) THEN s.listed ELSE m.listed
<1>1. s.value \in [Parts -> Versions] /\ s = [value |-> s.value, listed |-> s.listed]
  BY DEF Contents
<1>2. m["memory"] = m.memory /\ m["live"] = m.live
  BY DEF Messages
<1> DEFINE value == [s.value EXCEPT !["memory"] = IF m.memory = Same THEN @ ELSE m.memory,
                                    !["live"] = IF m.live = Same THEN @ ELSE m.live]
           t == [s EXCEPT !.value = value]
<1>3. value["memory"] = (IF m.memory = Same THEN s.value["memory"] ELSE m.memory)
      /\ value["live"] = (IF m.live = Same THEN s.value["live"] ELSE m.live)
      /\ value["row"] = s.value["row"] /\ DOMAIN value = Parts
  BY <1>1 DEF Parts
<1> HIDE DEF value
<1>4. t.value = value /\ t.listed = s.listed
  BY <1>1
<1>5. MergeSseSummary(s, m) = MergeRow(t, m)
  BY DEF MergeSseSummary, value
<1> HIDE DEF t
<1> DEFINE r == [value |-> [t.value EXCEPT !["row"] = m.row], listed |-> m.listed]
<1>6. r.value["memory"] = value["memory"] /\ r.value["live"] = value["live"]
      /\ r.value["row"] = m.row /\ r.listed = m.listed
  BY <1>3, <1>4 DEF Parts
<1>7. MergeRow(t, m) = IF Ignored(s, m) THEN t ELSE r
  BY <1>4 DEF MergeRow, Ignored
<1> HIDE DEF r
<1>8. CASE Ignored(s, m)
  BY <1>2, <1>3, <1>4, <1>5, <1>7, <1>8 DEF Blocks
<1>9. CASE ~Ignored(s, m)
  BY <1>2, <1>3, <1>6, <1>5, <1>7, <1>9 DEF Blocks
<1> QED BY <1>8, <1>9

LEMMA MergeIsContents ==
    ASSUME NEW s \in Contents, NEW batch \in Seq(Messages) PROVE MergeBatch(s, batch) \in Contents
<1> DEFINE T == {b \in Seq(Messages) : MergeBatch(s, b) \in Contents}
<1>1. <<>> \in T
  BY MergeNone
<1>2. ASSUME NEW b \in T, NEW m \in Messages PROVE Append(b, m) \in T
  <2>1. b \in Seq(Messages) /\ Append(b, m) \in Seq(Messages) /\ MergeBatch(s, b) \in Contents
    OBVIOUS
  <2>2. MergeBatch(s, Append(b, m)) \in Contents
    BY <2>1, MergeOneMore, MergeOne
  <2> QED BY <2>1, <2>2
<1>3. T = Seq(Messages)
  <2>1. T \in SUBSET Seq(Messages)
    OBVIOUS
  <2> HIDE DEF T
  <2> QED BY <1>1, <1>2, <2>1, EverySequence
<1> QED BY <1>3

\* Merging in two goes
LEMMA MergeTwice ==
    ASSUME NEW s, NEW a \in Seq(Messages), NEW c \in Seq(Messages)
    PROVE  MergeBatch(s, a \o c) = MergeBatch(MergeBatch(s, a), c)
<1> DEFINE T == {b \in Seq(Messages) : MergeBatch(s, a \o b) = MergeBatch(MergeBatch(s, a), b)}
<1>1. <<>> \in T
  BY MergeNone
<1>2. ASSUME NEW b \in T, NEW m \in Messages PROVE Append(b, m) \in T
  <2>1. b \in Seq(Messages) /\ a \o b \in Seq(Messages) /\ MergeBatch(s, a \o b) = MergeBatch(MergeBatch(s, a), b)
    OBVIOUS
  <2>2. a \o Append(b, m) = Append(a \o b, m) /\ Append(b, m) \in Seq(Messages)
    BY <2>1
  <2>3. MergeBatch(s, Append(a \o b, m)) = MergeSseSummary(MergeBatch(s, a \o b), m)
    BY <2>1, MergeOneMore
  <2>4. MergeBatch(MergeBatch(s, a), Append(b, m)) = MergeSseSummary(MergeBatch(MergeBatch(s, a), b), m)
    BY <2>1, MergeOneMore
  <2> QED BY <2>1, <2>2, <2>3, <2>4
<1>3. T = Seq(Messages)
  <2>1. T \in SUBSET Seq(Messages)
    OBVIOUS
  <2> HIDE DEF T
  <2> QED BY <1>1, <1>2, <2>1, EverySequence
<1> QED BY <1>3

LEMMA MissesNone == ASSUME NEW s PROVE ~MissesRow(s, <<>>)
BY DEF MissesRow

LEMMA MissesOneMore ==
    ASSUME NEW s, NEW batch \in Seq(Messages), NEW m \in Messages
    PROVE  MissesRow(s, Append(batch, m)) <=> MissesRow(s, batch) \/ Misses(MergeBatch(s, batch), m)
<1> DEFINE more == Append(batch, m)
           n == Len(batch)
<1>1. n \in Nat /\ DOMAIN more = 1..(n + 1) /\ DOMAIN batch = 1..n /\ more[n + 1] = m
  OBVIOUS
<1>2. \A i \in 1..n : more[i] = batch[i]
  OBVIOUS
<1>3. \A i \in 1..(n + 1) : SubSeq(more, 1, i - 1) = SubSeq(batch, 1, i - 1)
  OBVIOUS
<1>4. SubSeq(batch, 1, (n + 1) - 1) = batch
  BY <1>1
<1> DEFINE At(b, i) == Misses(Before(s, b, i), b[i])
<1>5. \A i \in 1..n : At(more, i) <=> At(batch, i)
  <2> TAKE i \in 1..n
  <2>1. i \in 1..(n + 1)
    BY <1>1
  <2>2. Before(s, more, i) = Before(s, batch, i)
    BY <1>3, <2>1 DEF Before
  <2> HIDE DEF more
  <2> QED BY <1>2, <2>2
<1>6. At(more, n + 1) <=> Misses(MergeBatch(s, batch), m)
  <2>1. n + 1 \in 1..(n + 1)
    BY <1>1
  <2>2. Before(s, more, n + 1) = MergeBatch(s, batch)
    BY <1>3, <1>4, <2>1 DEF Before
  <2> HIDE DEF more
  <2> QED BY <1>1, <2>2
<1>7. MissesRow(s, more) <=> \E i \in 1..(n + 1) : At(more, i)
  BY <1>1 DEF MissesRow
<1>8. MissesRow(s, batch) <=> \E i \in 1..n : At(batch, i)
  BY <1>1 DEF MissesRow
<1> HIDE DEF At, more
<1>9. (\E i \in 1..(n + 1) : At(more, i)) <=> (\E i \in 1..n : At(more, i)) \/ At(more, n + 1)
  <2>1. \A i \in 1..(n + 1) : i \in 1..n \/ i = n + 1
    BY <1>1
  <2>2. n + 1 \in 1..(n + 1) /\ \A i \in 1..n : i \in 1..(n + 1)
    BY <1>1
  <2> QED BY <2>1, <2>2
<1>10. (\E i \in 1..n : At(more, i)) <=> (\E i \in 1..n : At(batch, i))
  BY <1>5
<1> QED BY <1>6, <1>7, <1>8, <1>9, <1>10 DEF more

LEMMA MissesTwice ==
    ASSUME NEW s, NEW a \in Seq(Messages), NEW c \in Seq(Messages)
    PROVE  MissesRow(s, a \o c) <=> MissesRow(s, a) \/ MissesRow(MergeBatch(s, a), c)
<1> DEFINE T == {b \in Seq(Messages) :
                   MissesRow(s, a \o b) <=> MissesRow(s, a) \/ MissesRow(MergeBatch(s, a), b)}
<1>1. <<>> \in T
  <2>1. a \o <<>> = a /\ <<>> \in Seq(Messages)
    OBVIOUS
  <2>2. ~MissesRow(MergeBatch(s, a), <<>>)
    BY MissesNone
  <2> QED BY <2>1, <2>2
<1>2. ASSUME NEW b \in T, NEW m \in Messages PROVE Append(b, m) \in T
  <2>1. b \in Seq(Messages) /\ a \o b \in Seq(Messages)
    OBVIOUS
  <2>2. MissesRow(s, a \o b) <=> MissesRow(s, a) \/ MissesRow(MergeBatch(s, a), b)
    OBVIOUS
  <2>3. a \o Append(b, m) = Append(a \o b, m) /\ Append(b, m) \in Seq(Messages)
    BY <2>1
  <2>4. MissesRow(s, Append(a \o b, m)) <=> MissesRow(s, a \o b) \/ Misses(MergeBatch(s, a \o b), m)
    BY <2>1, MissesOneMore
  <2>5. MissesRow(MergeBatch(s, a), Append(b, m))
           <=> MissesRow(MergeBatch(s, a), b) \/ Misses(MergeBatch(MergeBatch(s, a), b), m)
    BY <2>1, MissesOneMore
  <2>6. MergeBatch(s, a \o b) = MergeBatch(MergeBatch(s, a), b)
    BY <2>1, MergeTwice
  <2>7. MissesRow(s, a \o Append(b, m)) <=> MissesRow(s, a) \/ MissesRow(MergeBatch(s, a), Append(b, m))
    BY <2>2, <2>3, <2>4, <2>5, <2>6
  <2> QED BY <2>3, <2>7
<1>3. T = Seq(Messages)
  <2>1. T \in SUBSET Seq(Messages)
    OBVIOUS
  <2> HIDE DEF T
  <2> QED BY <1>1, <1>2, <2>1, EverySequence
<1> QED BY <1>3

-----------------------------------------------------------------------------
\* What messages tell: a block that one of them carries, the row if one of them changes it.
Tells(c, p) == \E i \in DOMAIN c : c[i][p] # Same
TellsRow(c) == \E i \in DOMAIN c : c[i].rows # "same"

LEMMA TellsOneMore ==
    ASSUME NEW c \in Seq(Messages), NEW m \in Messages
    PROVE  /\ \A p : Tells(Append(c, m), p) <=> Tells(c, p) \/ m[p] # Same
           /\ TellsRow(Append(c, m)) <=> TellsRow(c) \/ m.rows # "same"
<1> DEFINE more == Append(c, m)
           n == Len(c)
<1>1. n \in Nat /\ DOMAIN more = 1..(n + 1) /\ DOMAIN c = 1..n /\ more[n + 1] = m
  OBVIOUS
<1>2. \A i \in 1..n : more[i] = c[i]
  OBVIOUS
<1>3. \A i \in 1..(n + 1) : i \in 1..n \/ i = n + 1
  BY <1>1
<1>4. n + 1 \in 1..(n + 1) /\ \A i \in 1..n : i \in 1..(n + 1)
  BY <1>1
<1> HIDE DEF more
<1>5. TellsRow(more) <=> TellsRow(c) \/ m.rows # "same"
  BY <1>1, <1>2, <1>3, <1>4 DEF TellsRow
<1>6. ASSUME NEW p PROVE Tells(more, p) <=> Tells(c, p) \/ m[p] # Same
  BY <1>1, <1>2, <1>3, <1>4 DEF Tells
<1> QED BY <1>5, <1>6 DEF more

LEMMA TellsNothing == ~TellsRow(<<>>) /\ \A p : ~Tells(<<>>, p)
BY DEF Tells, TellsRow

LEMMA TellsTwice ==
    ASSUME NEW a \in Seq(Messages), NEW c \in Seq(Messages)
    PROVE  /\ \A p : Tells(a \o c, p) <=> Tells(a, p) \/ Tells(c, p)
           /\ TellsRow(a \o c) <=> TellsRow(a) \/ TellsRow(c)
<1> DEFINE all == a \o c
           k == Len(a)
           n == Len(c)
<1>1. k \in Nat /\ n \in Nat /\ DOMAIN all = 1..(k + n) /\ DOMAIN c = 1..n /\ DOMAIN a = 1..k
  OBVIOUS
<1>2. \A i \in 1..k : all[i] = a[i]
  OBVIOUS
<1>3. \A i \in 1..n : all[k + i] = c[i]
  OBVIOUS
<1>4. \A i \in 1..(k + n) : i \in 1..k \/ \E j \in 1..n : i = k + j
  <2> TAKE i \in 1..(k + n)
  <2>1. CASE i <= k
    BY <1>1, <2>1
  <2>2. CASE ~(i <= k)
    <3>1. i - k \in 1..n /\ i = k + (i - k)
      BY <1>1, <2>2
    <3> QED BY <3>1
  <2> QED BY <2>1, <2>2
<1>5. \A i \in 1..k : i \in 1..(k + n)
  BY <1>1
<1>6. \A i \in 1..n : k + i \in 1..(k + n)
  BY <1>1
<1> HIDE DEF all, k, n
<1>7. TellsRow(all) <=> TellsRow(a) \/ TellsRow(c)
  <2>1. ASSUME NEW i \in DOMAIN all, all[i].rows # "same" PROVE TellsRow(a) \/ TellsRow(c)
    <3>1. CASE i \in 1..k
      BY <1>1, <1>2, <2>1, <3>1 DEF TellsRow
    <3>2. CASE \E j \in 1..n : i = k + j
      <4>1. PICK j \in 1..n : i = k + j
        BY <3>2
      <4>2. j \in DOMAIN c /\ c[j].rows # "same"
        BY <1>1, <1>3, <2>1, <4>1
      <4> QED BY <4>2 DEF TellsRow
    <3> QED BY <1>1, <1>4, <3>1, <3>2
  <2>2. ASSUME NEW i \in DOMAIN a, a[i].rows # "same" PROVE TellsRow(all)
    <3>1. i \in DOMAIN all /\ all[i].rows # "same"
      BY <1>1, <1>2, <1>5, <2>2
    <3> QED BY <3>1 DEF TellsRow
  <2>3. ASSUME NEW i \in DOMAIN c, c[i].rows # "same" PROVE TellsRow(all)
    <3>1. k + i \in DOMAIN all /\ all[k + i].rows # "same"
      BY <1>1, <1>3, <1>6, <2>3
    <3> QED BY <3>1 DEF TellsRow
  <2> QED BY <2>1, <2>2, <2>3 DEF TellsRow
<1>8. ASSUME NEW p PROVE Tells(all, p) <=> Tells(a, p) \/ Tells(c, p)
  <2>1. ASSUME NEW i \in DOMAIN all, all[i][p] # Same PROVE Tells(a, p) \/ Tells(c, p)
    <3>1. CASE i \in 1..k
      BY <1>1, <1>2, <2>1, <3>1 DEF Tells
    <3>2. CASE \E j \in 1..n : i = k + j
      <4>1. PICK j \in 1..n : i = k + j
        BY <3>2
      <4>2. j \in DOMAIN c /\ c[j][p] # Same
        BY <1>1, <1>3, <2>1, <4>1
      <4> QED BY <4>2 DEF Tells
    <3> QED BY <1>1, <1>4, <3>1, <3>2
  <2>2. ASSUME NEW i \in DOMAIN a, a[i][p] # Same PROVE Tells(all, p)
    <3>1. i \in DOMAIN all /\ all[i][p] # Same
      BY <1>1, <1>2, <1>5, <2>2
    <3> QED BY <3>1 DEF Tells
  <2>3. ASSUME NEW i \in DOMAIN c, c[i][p] # Same PROVE Tells(all, p)
    <3>1. k + i \in DOMAIN all /\ all[k + i][p] # Same
      BY <1>1, <1>3, <1>6, <2>3
    <3> QED BY <3>1 DEF Tells
  <2> QED BY <2>1, <2>2, <2>3 DEF Tells
<1> QED BY <1>7, <1>8 DEF all

\* A block that is told no longer depends on what was there before; one that is not told stays.
LEMMA ToldBlock ==
    ASSUME NEW p \in Blocks, NEW s \in Contents, NEW t \in Contents, NEW c \in Seq(Messages)
    PROVE  /\ Tells(c, p) => MergeBatch(s, c).value[p] = MergeBatch(t, c).value[p]
           /\ ~Tells(c, p) => MergeBatch(s, c).value[p] = s.value[p]
<1> DEFINE Said(b) == /\ Tells(b, p) => MergeBatch(s, b).value[p] = MergeBatch(t, b).value[p]
                      /\ ~Tells(b, p) => MergeBatch(s, b).value[p] = s.value[p]
           T == {b \in Seq(Messages) : Said(b)}
<1>1. <<>> \in T
  BY MergeNone, TellsNothing
<1>2. ASSUME NEW b \in T, NEW m \in Messages PROVE Append(b, m) \in T
  <2>1. b \in Seq(Messages) /\ Append(b, m) \in Seq(Messages) /\ Said(b)
    OBVIOUS
  <2>2. MergeBatch(s, b) \in Contents /\ MergeBatch(t, b) \in Contents
    BY <2>1, MergeIsContents
  <2>3. /\ MergeBatch(s, Append(b, m)) = MergeSseSummary(MergeBatch(s, b), m)
        /\ MergeBatch(t, Append(b, m)) = MergeSseSummary(MergeBatch(t, b), m)
    BY <2>1, MergeOneMore
  <2>4. /\ MergeBatch(s, Append(b, m)).value[p] = IF m[p] = Same THEN MergeBatch(s, b).value[p] ELSE m[p]
        /\ MergeBatch(t, Append(b, m)).value[p] = IF m[p] = Same THEN MergeBatch(t, b).value[p] ELSE m[p]
    BY <2>2, <2>3, MergeOneIs
  <2>5. Tells(Append(b, m), p) <=> Tells(b, p) \/ m[p] # Same
    BY <2>1, TellsOneMore
  <2>6. Said(Append(b, m))
    BY <2>1, <2>4, <2>5
  <2> QED BY <2>1, <2>6
<1>3. T = Seq(Messages)
  <2>1. T \in SUBSET Seq(Messages)
    OBVIOUS
  <2> HIDE DEF T
  <2> QED BY <1>1, <1>2, <2>1, EverySequence
<1>4. c \in T
  BY <1>3
<1> QED BY <1>4

LEMMA UntoldRow ==
    ASSUME NEW s \in Contents, NEW c \in Seq(Messages), ~TellsRow(c)
    PROVE  MergeBatch(s, c).value["row"] = s.value["row"] /\ MergeBatch(s, c).listed = s.listed
<1> DEFINE Stays(b) == MergeBatch(s, b).value["row"] = s.value["row"] /\ MergeBatch(s, b).listed = s.listed
           T == {b \in Seq(Messages) : ~TellsRow(b) => Stays(b)}
<1>1. <<>> \in T
  BY MergeNone
<1>2. ASSUME NEW b \in T, NEW m \in Messages PROVE Append(b, m) \in T
  <2>1. b \in Seq(Messages) /\ Append(b, m) \in Seq(Messages) /\ (~TellsRow(b) => Stays(b))
    OBVIOUS
  <2>2. MergeBatch(s, b) \in Contents
    BY <2>1, MergeIsContents
  <2>3. MergeBatch(s, Append(b, m)) = MergeSseSummary(MergeBatch(s, b), m)
    BY <2>1, MergeOneMore
  <2>4. TellsRow(Append(b, m)) <=> TellsRow(b) \/ m.rows # "same"
    BY <2>1, TellsOneMore
  <2>5. m.rows = "same" => /\ MergeBatch(s, Append(b, m)).value["row"] = MergeBatch(s, b).value["row"]
                           /\ MergeBatch(s, Append(b, m)).listed = MergeBatch(s, b).listed
    BY <2>2, <2>3, MergeOneIs DEF Ignored
  <2>6. ~TellsRow(Append(b, m)) => Stays(Append(b, m))
    BY <2>1, <2>4, <2>5
  <2> QED BY <2>1, <2>6
<1>3. T = Seq(Messages)
  <2>1. T \in SUBSET Seq(Messages)
    OBVIOUS
  <2> HIDE DEF T
  <2> QED BY <1>1, <1>2, <2>1, EverySequence
<1>4. c \in T
  BY <1>3
<1> QED BY <1>4

-----------------------------------------------------------------------------
(* What the page still has to merge, compared with what the server takes   *)
(* for sent.  Complete: merged over s it brings everything of t.  Settles: *)
(* whatever it is merged over, what it tells is what t has.                *)
SameRow(s, t) == (s.value["row"] = t.value["row"] /\ s.listed = t.listed) \/ (~s.listed /\ ~t.listed)
Complete(s, c, t) ==
    /\ NoOlderBlocks(MergeBatch(s, c), t)
    /\ MissesRow(s, c) \/ NoOlderRow(MergeBatch(s, c), t)
SettlesOver(s, c, t) ==
    /\ \A p \in Blocks : Tells(c, p) => MergeBatch(s, c).value[p] = t.value[p]
    /\ TellsRow(c) => MissesRow(s, c) \/ SameRow(MergeBatch(s, c), t)
Settles(c, t) == \A s \in Contents : SettlesOver(s, c, t)

\* m takes a page from t to u, or is the first message, of u.
Carries(m, u) == m.row = u.value["row"] /\ m.listed = u.listed
Follows(m, t, u) ==
    /\ Carries(m, u)
    /\ \A p \in Blocks : m[p] = u.value[p] \/ (m[p] = Same /\ t.value[p] = u.value[p])
    /\ m.rows = "same" => SameRow(t, u)
Starts(m, u) == Carries(m, u) /\ m.rows = "all" /\ \A p \in Blocks : m[p] = u.value[p]

LEMMA ContentsAre ==
    ASSUME NEW s \in Contents
    PROVE  /\ \A p \in Parts : s.value[p] \in Nat /\ s.value[p] # Same /\ s.value[p] \in Versions
           /\ s.value["row"] \in Nat /\ s.value["row"] # Same
           /\ \A p \in Blocks : s.value[p] \in Nat /\ s.value[p] # Same
           /\ s.listed \in BOOLEAN
<1>1. s.listed \in BOOLEAN /\ \A p \in Parts : s.value[p] \in Versions
  BY DEF Contents
<1>2. \A v \in Versions : v \in Nat /\ v # Same
  BY BoundsAreNumbers, NoValues DEF Versions
<1> QED BY <1>1, <1>2 DEF Parts, Blocks

\* One message over s: the row is that of u, or the page misses it, or it is not told.
LEMMA RowAfter ==
    ASSUME NEW s \in Contents, NEW m \in Messages, NEW u \in Contents, Carries(m, u)
    PROVE  /\ m.rows # "same" => Misses(s, m) \/ SameRow(MergeSseSummary(s, m), u)
           /\ m.rows = "same" => /\ MergeSseSummary(s, m).value["row"] = s.value["row"]
                                 /\ MergeSseSummary(s, m).listed = s.listed
BY MergeOneIs DEF Ignored, Misses, SameRow, Carries

LEMMA FollowCompletes ==
    ASSUME NEW s \in Contents, NEW c \in Seq(Messages), NEW m \in Messages, NEW t \in Contents, NEW u \in Contents,
           Follows(m, t, u), Complete(s, c, t)
    PROVE  Complete(s, Append(c, m), u)
<1> DEFINE old == MergeBatch(s, c)
           new == MergeBatch(s, Append(c, m))
<1>1. new = MergeSseSummary(old, m) /\ old \in Contents
  BY MergeOneMore, MergeIsContents
<1>2. new \in Contents
  BY <1>1, MergeOne
<1> HIDE DEF old, new
<1>3. \A p \in Blocks : new.value[p] = IF m[p] = Same THEN old.value[p] ELSE m[p]
  BY <1>1, MergeOneIs
<1>4. NoOlderBlocks(new, u)
  <2> SUFFICES ASSUME NEW p \in Blocks PROVE new.value[p] >= u.value[p]
    BY DEF NoOlderBlocks, Blocks
  <2>1. old.value[p] >= t.value[p]
    BY DEF Complete, NoOlderBlocks, Blocks, old
  <2>2. u.value[p] \in Nat /\ u.value[p] # Same
    BY ContentsAre
  <2>3. m[p] = u.value[p] \/ (m[p] = Same /\ t.value[p] = u.value[p])
    BY DEF Follows
  <2> QED BY <1>3, <2>1, <2>2, <2>3
<1>5. MissesRow(s, Append(c, m)) <=> MissesRow(s, c) \/ Misses(old, m)
  BY MissesOneMore DEF old
<1>6. ASSUME ~MissesRow(s, Append(c, m)) PROVE NoOlderRow(new, u)
  <2>1. ~Misses(old, m) /\ NoOlderRow(old, t)
    BY <1>5, <1>6 DEF Complete, old
  <2>2. Carries(m, u)
    BY DEF Follows
  <2>3. /\ old.value["row"] \in Nat /\ new.value["row"] \in Nat /\ u.value["row"] \in Nat /\ t.value["row"] \in Nat
        /\ old.listed \in BOOLEAN /\ new.listed \in BOOLEAN /\ u.listed \in BOOLEAN /\ t.listed \in BOOLEAN
    BY <1>1, <1>2, ContentsAre
  <2>4. CASE m.rows # "same"
    <3>1. SameRow(new, u)
      BY <1>1, <2>1, <2>2, <2>4, RowAfter
    <3> QED BY <2>3, <3>1 DEF SameRow, NoOlderRow
  <2>5. CASE m.rows = "same"
    <3>1. new.value["row"] = old.value["row"] /\ new.listed = old.listed
      BY <1>1, <2>2, <2>5, RowAfter
    <3>2. SameRow(t, u)
      BY <2>5 DEF Follows
    <3>3. CASE t.value["row"] = u.value["row"] /\ t.listed = u.listed
      BY <2>1, <3>1, <3>3 DEF NoOlderRow
    <3>4. CASE ~t.listed /\ ~u.listed
      <4>1. ~(old.listed /\ old.value["row"] < u.value["row"])
        BY <2>1, <2>2, <2>5, <3>4 DEF Misses, Carries
      <4>2. new.value["row"] >= u.value["row"] \/ ~new.listed
        BY <2>3, <3>1, <4>1
      <4> QED BY <3>4, <4>2 DEF NoOlderRow
    <3> QED BY <3>2, <3>3, <3>4 DEF SameRow
  <2> QED BY <2>4, <2>5
<1> QED BY <1>4, <1>6 DEF Complete, new

LEMMA FollowSettles ==
    ASSUME NEW c \in Seq(Messages), NEW m \in Messages, NEW t \in Contents, NEW u \in Contents,
           Follows(m, t, u), Settles(c, t)
    PROVE  Settles(Append(c, m), u)
<1> SUFFICES ASSUME NEW s \in Contents PROVE SettlesOver(s, Append(c, m), u)
  BY DEF Settles
<1> DEFINE old == MergeBatch(s, c)
           new == MergeBatch(s, Append(c, m))
<1>1. new = MergeSseSummary(old, m) /\ old \in Contents
  BY MergeOneMore, MergeIsContents
<1>2. SettlesOver(s, c, t)
  BY DEF Settles
<1>3. MissesRow(s, Append(c, m)) <=> MissesRow(s, c) \/ Misses(old, m)
  BY MissesOneMore DEF old
<1>4. /\ \A p : Tells(Append(c, m), p) <=> Tells(c, p) \/ m[p] # Same
      /\ TellsRow(Append(c, m)) <=> TellsRow(c) \/ m.rows # "same"
  BY TellsOneMore
<1> HIDE DEF old, new
<1>5. \A p \in Blocks : new.value[p] = IF m[p] = Same THEN old.value[p] ELSE m[p]
  BY <1>1, MergeOneIs
<1>6. ASSUME NEW p \in Blocks, Tells(Append(c, m), p) PROVE new.value[p] = u.value[p]
  <2>1. u.value[p] # Same
    BY ContentsAre
  <2>2. m[p] = u.value[p] \/ (m[p] = Same /\ t.value[p] = u.value[p])
    BY DEF Follows
  <2>3. Tells(c, p) => old.value[p] = t.value[p]
    BY <1>2 DEF SettlesOver, old
  <2> QED BY <1>4, <1>5, <1>6, <2>1, <2>2, <2>3
<1>7. ASSUME TellsRow(Append(c, m)), ~MissesRow(s, Append(c, m)) PROVE SameRow(new, u)
  <2>1. ~Misses(old, m) /\ ~MissesRow(s, c)
    BY <1>3, <1>7
  <2>2. Carries(m, u)
    BY DEF Follows
  <2>4. CASE m.rows # "same"
    BY <1>1, <2>1, <2>2, <2>4, RowAfter
  <2>5. CASE m.rows = "same"
    <3>1. new.value["row"] = old.value["row"] /\ new.listed = old.listed
      BY <1>1, <2>2, <2>5, RowAfter
    <3>2. SameRow(t, u)
      BY <2>5 DEF Follows
    <3>3. SameRow(old, t)
      BY <1>2, <1>4, <1>7, <2>1, <2>5 DEF SettlesOver, old
    <3> QED BY <3>1, <3>2, <3>3 DEF SameRow
  <2> QED BY <2>4, <2>5
<1> QED BY <1>6, <1>7 DEF SettlesOver, new

LEMMA StartSettles ==
    ASSUME NEW c \in Seq(Messages), NEW m \in Messages, NEW u \in Contents, Starts(m, u)
    PROVE  Settles(Append(c, m), u)
<1> SUFFICES ASSUME NEW s \in Contents PROVE SettlesOver(s, Append(c, m), u)
  BY DEF Settles
<1> DEFINE old == MergeBatch(s, c)
           new == MergeBatch(s, Append(c, m))
<1>1. new = MergeSseSummary(old, m) /\ old \in Contents
  BY MergeOneMore, MergeIsContents
<1>2. MissesRow(s, Append(c, m)) <=> MissesRow(s, c) \/ Misses(old, m)
  BY MissesOneMore DEF old
<1> HIDE DEF old, new
<1>3. \A p \in Blocks : new.value[p] = u.value[p]
  <2> TAKE p \in Blocks
  <2>1. new.value[p] = IF m[p] = Same THEN old.value[p] ELSE m[p]
    BY <1>1, MergeOneIs
  <2>2. m[p] = u.value[p] /\ u.value[p] # Same
    BY ContentsAre DEF Starts
  <2> QED BY <2>1, <2>2
<1>4. Misses(old, m) \/ SameRow(new, u)
  BY <1>1, RowAfter DEF Starts
<1> QED BY <1>2, <1>3, <1>4 DEF SettlesOver, new

LEMMA SettlesNone == ASSUME NEW t PROVE Settles(<<>>, t)
BY TellsNothing DEF Settles, SettlesOver

\* A page that is ahead of t, or is told everything, completes to t.
LEMMA AheadCompletes ==
    ASSUME NEW s \in Contents, NEW c \in Seq(Messages), NEW t \in Contents, Settles(c, t),
           \A p \in Blocks : Tells(c, p) \/ s.value[p] >= t.value[p],
           TellsRow(c) \/ NoOlderRow(s, t)
    PROVE  Complete(s, c, t)
<1> DEFINE new == MergeBatch(s, c)
<1>1. new \in Contents
  BY MergeIsContents
<1>2. SettlesOver(s, c, t)
  BY DEF Settles
<1>3. ASSUME NEW p \in Blocks PROVE new.value[p] >= t.value[p]
  <2>1. t.value[p] \in Nat
    BY ContentsAre
  <2>2. Tells(c, p) => new.value[p] = t.value[p]
    BY <1>2 DEF SettlesOver
  <2>3. ~Tells(c, p) => new.value[p] = s.value[p]
    BY ToldBlock
  <2> QED BY <2>1, <2>2, <2>3
<1>4. ASSUME ~MissesRow(s, c) PROVE NoOlderRow(new, t)
  <2>1. CASE TellsRow(c)
    <3>1. SameRow(new, t)
      BY <1>2, <1>4, <2>1 DEF SettlesOver
    <3>2. t.value["row"] \in Nat
      BY ContentsAre
    <3> QED BY <3>1, <3>2 DEF SameRow, NoOlderRow
  <2>2. CASE ~TellsRow(c)
    <3>1. new.value["row"] = s.value["row"] /\ new.listed = s.listed
      BY <2>2, UntoldRow
    <3> QED BY <2>2, <3>1 DEF NoOlderRow
  <2> QED BY <2>1, <2>2
<1>5. NoOlderBlocks(new, t)
  BY <1>3 DEF NoOlderBlocks, Blocks
<1> QED BY <1>4, <1>5 DEF Complete

\* What is merged in part
LEMMA CompletesRest ==
    ASSUME NEW s \in Contents, NEW a \in Seq(Messages), NEW c \in Seq(Messages), NEW t \in Contents,
           Complete(s, a \o c, t), ~MissesRow(s, a)
    PROVE  Complete(MergeBatch(s, a), c, t)
BY MergeTwice, MissesTwice DEF Complete

-----------------------------------------------------------------------------
\* fillToolLive over the messages under way: the live block after i of them
ToldIn(w, i) == {j \in 1..i : w[j].live # Same}
LiveAt(w, l, i) == IF ToldIn(w, i) = {} THEN l ELSE w[Max(ToldIn(w, i))].live
FillsOf(w, l) == [i \in DOMAIN w |-> [w[i] EXCEPT !.live = LiveAt(w, l, i)]]
LiveNow == Versions \cup {Same}

LEMMA ComingIs == Coming = queue \o FillsOf(wire, lastLive)
BY DEF Coming, Filled, Told, FillsOf, LiveAt, ToldIn

LEMMA ComingNext == Coming' = queue' \o FillsOf(wire', lastLive')
BY DEF Coming, Filled, Told, FillsOf, LiveAt, ToldIn

LEMMA LiveAtStart == ASSUME NEW w, NEW l PROVE LiveAt(w, l, 0) = l
<1>1. ToldIn(w, 0) = {}
  BY DEF ToldIn
<1> QED BY <1>1 DEF LiveAt

LEMMA LiveAtNext ==
    ASSUME NEW w, NEW l, NEW i \in Nat
    PROVE  LiveAt(w, l, i + 1) = IF w[i + 1].live = Same THEN LiveAt(w, l, i) ELSE w[i + 1].live
<1>1. CASE w[i + 1].live = Same
  <2>1. ToldIn(w, i + 1) = ToldIn(w, i)
    BY <1>1 DEF ToldIn
  <2> QED BY <1>1, <2>1 DEF LiveAt
<1>2. CASE w[i + 1].live # Same
  <2>1. i + 1 \in ToldIn(w, i + 1) /\ \A k \in ToldIn(w, i + 1) : k <= i + 1
    BY <1>2 DEF ToldIn
  <2>2. ToldIn(w, i + 1) \in SUBSET Nat
    BY DEF ToldIn
  <2>3. Max(ToldIn(w, i + 1)) = i + 1
    BY <2>1, <2>2, MaxIs
  <2> QED BY <1>2, <2>1, <2>3 DEF LiveAt
<1> QED BY <1>1, <1>2

LEMMA MessageIs ==
    ASSUME NEW m \in Messages, NEW l \in LiveNow
    PROVE  /\ [m EXCEPT !.live = l] \in Messages /\ [m EXCEPT !.live = l].live = l
           /\ [m EXCEPT !.live = l].memory = m.memory /\ [m EXCEPT !.live = l].rows = m.rows
           /\ [m EXCEPT !.live = l].row = m.row /\ [m EXCEPT !.live = l].listed = m.listed
           /\ [m EXCEPT !.live = l].at = m.at /\ [m EXCEPT !.live = l].lists = m.lists
           /\ m["memory"] = m.memory /\ m["live"] = m.live /\ m.live \in LiveNow /\ m.memory \in LiveNow
           /\ m.at \in Versions /\ m.lists \in Versions /\ m.row \in Versions /\ m.listed \in BOOLEAN
           /\ m.rows \in Changes
BY DEF Messages, LiveNow

LEMMA LiveAtType ==
    ASSUME NEW w \in Seq(Messages), NEW l \in LiveNow
    PROVE  \A i \in 0..Len(w) : LiveAt(w, l, i) \in LiveNow
<1> DEFINE T == {i \in Nat : i <= Len(w) => LiveAt(w, l, i) \in LiveNow}
<1>1. 0 \in T
  BY LiveAtStart
<1>2. ASSUME NEW i \in T PROVE i + 1 \in T
  <2> SUFFICES ASSUME i + 1 <= Len(w) PROVE LiveAt(w, l, i + 1) \in LiveNow
    OBVIOUS
  <2>1. i \in Nat /\ i <= Len(w) /\ LiveAt(w, l, i) \in LiveNow
    OBVIOUS
  <2>2. w[i + 1] \in Messages
    BY <2>1
  <2>3. w[i + 1].live \in LiveNow
    BY <2>2, MessageIs
  <2> QED BY <2>1, <2>3, LiveAtNext
<1>3. T = Nat
  <2>1. T \in SUBSET Nat
    OBVIOUS
  <2> HIDE DEF T
  <2> QED BY <1>1, <1>2, <2>1, EveryNumber
<1> QED BY <1>3

LEMMA FillsType ==
    ASSUME NEW w \in Seq(Messages), NEW l \in LiveNow
    PROVE  FillsOf(w, l) \in Seq(Messages) /\ Len(FillsOf(w, l)) = Len(w)
<1>1. \A i \in 1..Len(w) : [w[i] EXCEPT !.live = LiveAt(w, l, i)] \in Messages
  <2> TAKE i \in 1..Len(w)
  <2>1. w[i] \in Messages /\ i \in 0..Len(w)
    OBVIOUS
  <2>2. LiveAt(w, l, i) \in LiveNow
    BY <2>1, LiveAtType
  <2> QED BY <2>1, <2>2, MessageIs
<1>2. DOMAIN w = 1..Len(w) /\ Len(w) \in Nat
  OBVIOUS
<1>3. FillsOf(w, l) \in [1..Len(w) -> Messages]
  BY <1>1, <1>2 DEF FillsOf
<1> QED BY <1>2, <1>3

\* One message more on its way
LEMMA FillsAppend ==
    ASSUME NEW w \in Seq(Messages), NEW l \in LiveNow, NEW m \in Messages
    PROVE  LET last == IF m.live = Same THEN LiveAt(w, l, Len(w)) ELSE m.live
           IN  /\ FillsOf(Append(w, m), l) = Append(FillsOf(w, l), [m EXCEPT !.live = last])
               /\ LiveAt(Append(w, m), l, Len(Append(w, m))) = last
               /\ last \in LiveNow
<1> DEFINE last == IF m.live = Same THEN LiveAt(w, l, Len(w)) ELSE m.live
           n == Len(w)
           v == Append(w, m)
<1>1. n \in Nat /\ v \in Seq(Messages) /\ Len(v) = n + 1 /\ DOMAIN v = 1..(n + 1) /\ DOMAIN w = 1..n
  OBVIOUS
<1>2. v[n + 1] = m /\ \A i \in 1..n : v[i] = w[i]
  OBVIOUS
<1> HIDE DEF v
<1>3. \A i \in 0..n : LiveAt(v, l, i) = LiveAt(w, l, i)
  <2> DEFINE T == {i \in Nat : i <= n => LiveAt(v, l, i) = LiveAt(w, l, i)}
  <2>1. 0 \in T
    BY LiveAtStart
  <2>2. ASSUME NEW i \in T PROVE i + 1 \in T
    <3> SUFFICES ASSUME i + 1 <= n PROVE LiveAt(v, l, i + 1) = LiveAt(w, l, i + 1)
      OBVIOUS
    <3>1. i \in Nat /\ i <= n /\ LiveAt(v, l, i) = LiveAt(w, l, i) /\ i + 1 \in 1..n
      BY <1>1
    <3> QED BY <1>2, <3>1, LiveAtNext
  <2>3. T = Nat
    <3>1. T \in SUBSET Nat
      OBVIOUS
    <3> HIDE DEF T
    <3> QED BY <2>1, <2>2, <3>1, EveryNumber
  <2> QED BY <1>1, <2>3
<1>4. LiveAt(v, l, n + 1) = last
  <2>1. LiveAt(v, l, n) = LiveAt(w, l, n)
    BY <1>1, <1>3
  <2> QED BY <1>1, <1>2, <2>1, LiveAtNext
<1>5. last \in LiveNow
  <2>1. LiveAt(w, l, n) \in LiveNow
    BY <1>1, LiveAtType
  <2> QED BY <2>1, MessageIs
<1> HIDE DEF last
<1>6. [m EXCEPT !.live = last] \in Messages
  BY <1>5, MessageIs
<1> DEFINE x == FillsOf(v, l)
           y == Append(FillsOf(w, l), [m EXCEPT !.live = last])
<1>7. x \in Seq(Messages) /\ Len(x) = n + 1 /\ FillsOf(w, l) \in Seq(Messages) /\ Len(FillsOf(w, l)) = n
  BY <1>1, FillsType
<1>8. y \in Seq(Messages) /\ Len(y) = n + 1
  BY <1>6, <1>7
<1>9. ASSUME NEW i \in 1..(n + 1) PROVE x[i] = y[i]
  <2>1. x[i] = [v[i] EXCEPT !.live = LiveAt(v, l, i)]
    BY <1>1 DEF FillsOf
  <2>2. CASE i = n + 1
    <3>1. y[i] = [m EXCEPT !.live = last]
      BY <1>6, <1>7, <2>2
    <3> HIDE DEF x, y
    <3> QED BY <1>2, <1>4, <2>1, <2>2, <3>1
  <2>3. CASE i \in 1..n
    <3>1. y[i] = FillsOf(w, l)[i]
      BY <1>6, <1>7, <2>3
    <3>2. FillsOf(w, l)[i] = [w[i] EXCEPT !.live = LiveAt(w, l, i)]
      BY <1>1, <2>3 DEF FillsOf
    <3>3. LiveAt(v, l, i) = LiveAt(w, l, i) /\ v[i] = w[i]
      BY <1>1, <1>2, <1>3, <2>3
    <3> HIDE DEF x, y
    <3> QED BY <2>1, <3>1, <3>2, <3>3
  <2>4. i = n + 1 \/ i \in 1..n
    BY <1>1
  <2> HIDE DEF x, y
  <2> QED BY <2>2, <2>3, <2>4
<1> HIDE DEF x, y
<1>10. x = y
  BY <1>7, <1>8, <1>9, SeqEqual
<1> QED BY <1>1, <1>4, <1>5, <1>10 DEF x, y, v, last

\* The first message comes: Receive fills it in and keeps its live block.
FillWith(m, l) == [m EXCEPT !.live = IF @ = Same THEN l ELSE @]
LEMMA FillsHead ==
    ASSUME NEW w \in Seq(Messages), NEW l \in LiveNow, w # <<>>
    PROVE  LET h == FillWith(Head(w), l)
           IN  /\ h \in Messages /\ h.live \in LiveNow
               /\ FillsOf(w, l) = <<h>> \o FillsOf(Tail(w), h.live)
               /\ LiveAt(w, l, Len(w)) = LiveAt(Tail(w), h.live, Len(Tail(w)))
<1> DEFINE h == FillWith(Head(w), l)
           n == Len(w)
           v == Tail(w)
           k == h.live
<1>1. n \in Nat /\ n >= 1 /\ v \in Seq(Messages) /\ Len(v) = n - 1 /\ Head(w) = w[1] /\ Head(w) \in Messages
  OBVIOUS
<1>2. \A i \in 1..(n - 1) : v[i] = w[i + 1]
  OBVIOUS
<1>3. DOMAIN w = 1..n /\ DOMAIN v = 1..(n - 1)
  BY <1>1
<1> DEFINE z == IF Head(w).live = Same THEN l ELSE Head(w).live
<1>4. z \in LiveNow
  BY <1>1, MessageIs
<1>5. h = [Head(w) EXCEPT !.live = z]
  BY DEF FillWith
<1>6. h \in Messages /\ k \in LiveNow /\ k = IF Head(w).live = Same THEN l ELSE Head(w).live
  <2>1. z = IF Head(w).live = Same THEN l ELSE Head(w).live
    OBVIOUS
  <2> HIDE DEF z, h
  <2> QED BY <1>1, <1>4, <1>5, <2>1, MessageIs
<1> HIDE DEF v, h
<1>7. LiveAt(w, l, 1) = k
  <2>1. LiveAt(w, l, 0 + 1) = IF w[0 + 1].live = Same THEN LiveAt(w, l, 0) ELSE w[0 + 1].live
    BY LiveAtNext
  <2>2. 0 + 1 = 1
    OBVIOUS
  <2> QED BY <1>1, <1>6, <2>1, <2>2, LiveAtStart
<1>8. \A i \in 0..(n - 1) : LiveAt(v, k, i) = LiveAt(w, l, i + 1)
  <2> DEFINE T == {i \in Nat : i <= n - 1 => LiveAt(v, k, i) = LiveAt(w, l, i + 1)}
  <2>1. 0 \in T
    <3>1. 0 + 1 = 1
      OBVIOUS
    <3> QED BY <1>7, <3>1, LiveAtStart
  <2>2. ASSUME NEW i \in T PROVE i + 1 \in T
    <3> SUFFICES ASSUME i + 1 <= n - 1 PROVE LiveAt(v, k, i + 1) = LiveAt(w, l, (i + 1) + 1)
      OBVIOUS
    <3>1. i \in Nat /\ i <= n - 1 /\ LiveAt(v, k, i) = LiveAt(w, l, i + 1) /\ i + 1 \in 1..(n - 1) /\ i + 1 \in Nat
      BY <1>1
    <3>2. LiveAt(w, l, (i + 1) + 1)
             = IF w[(i + 1) + 1].live = Same THEN LiveAt(w, l, i + 1) ELSE w[(i + 1) + 1].live
      BY <3>1, LiveAtNext
    <3>3. LiveAt(v, k, i + 1) = IF v[i + 1].live = Same THEN LiveAt(v, k, i) ELSE v[i + 1].live
      BY <3>1, LiveAtNext
    <3>4. v[i + 1] = w[(i + 1) + 1]
      BY <1>2, <3>1
    <3> QED BY <3>1, <3>2, <3>3, <3>4
  <2>3. T = Nat
    <3>1. T \in SUBSET Nat
      OBVIOUS
    <3> HIDE DEF T
    <3> QED BY <2>1, <2>2, <3>1, EveryNumber
  <2> QED BY <1>1, <2>3
<1>9. LiveAt(w, l, n) = LiveAt(v, k, Len(v))
  <2>1. n - 1 \in 0..(n - 1) /\ (n - 1) + 1 = n
    BY <1>1
  <2> QED BY <1>1, <1>8, <2>1
<1> DEFINE x == FillsOf(w, l)
           y == <<h>> \o FillsOf(v, k)
<1>10. x \in Seq(Messages) /\ Len(x) = n
  BY <1>1, FillsType
<1>11. FillsOf(v, k) \in Seq(Messages) /\ Len(FillsOf(v, k)) = n - 1
  BY <1>1, <1>6, FillsType
<1>12. <<h>> \in Seq(Messages) /\ Len(<<h>>) = 1
  BY <1>6
<1>13. y \in Seq(Messages) /\ Len(y) = n
  BY <1>1, <1>11, <1>12
<1>14. ASSUME NEW i \in 1..n PROVE x[i] = y[i]
  <2>1. x[i] = [w[i] EXCEPT !.live = LiveAt(w, l, i)]
    BY <1>3 DEF FillsOf
  <2>2. CASE i = 1
    <3>1. y[i] = h
      BY <1>1, <1>11, <1>12, <2>2
    <3> HIDE DEF x, y
    <3> QED BY <1>1, <1>5, <1>6, <1>7, <2>1, <2>2, <3>1
  <2>3. CASE i # 1
    <3>1. y[i] = FillsOf(v, k)[i - 1]
      BY <1>1, <1>11, <1>12, <2>3
    <3>2. i - 1 \in 1..(n - 1) /\ i - 1 \in 0..(n - 1) /\ (i - 1) + 1 = i
      BY <1>1, <2>3
    <3>3. FillsOf(v, k)[i - 1] = [v[i - 1] EXCEPT !.live = LiveAt(v, k, i - 1)]
      BY <1>3, <3>2 DEF FillsOf
    <3>4. LiveAt(v, k, i - 1) = LiveAt(w, l, i) /\ v[i - 1] = w[i]
      BY <1>2, <1>8, <3>2
    <3> HIDE DEF x, y
    <3> QED BY <2>1, <3>1, <3>3, <3>4
  <2> QED BY <2>2, <2>3
<1> HIDE DEF x, y
<1>15. x = y
  BY <1>10, <1>13, <1>14, SeqEqual
<1> QED BY <1>6, <1>9, <1>15 DEF x, y, v, h

\* A list that ends with m, in two parts of which the second is not empty
Joined(a, c, x, m) == Append(x, m) = a \o c /\ c # <<>>
EndsWith(a, c, x, m) == \E b \in Seq(Messages) : c = Append(b, m) /\ x = a \o b
LEMMA SplitAppend ==
    ASSUME NEW x \in Seq(Messages), NEW m \in Messages, NEW a \in Seq(Messages), NEW c \in Seq(Messages),
           Joined(a, c, x, m)
    PROVE  EndsWith(a, c, x, m)
<1>0. Append(x, m) = a \o c /\ c # <<>>
  BY DEF Joined
<1>1. PICK b \in Seq(Messages), e \in Messages : c = Append(b, e)
  BY <1>0, SequenceEmptyOrAppend
<1>2. a \o Append(b, e) = Append(a \o b, e) /\ a \o b \in Seq(Messages)
  OBVIOUS
<1>3. Append(x, m) = Append(a \o b, e)
  BY <1>0, <1>1, <1>2
<1> DEFINE y == a \o b
<1>4. y \in Seq(Messages) /\ Append(x, m) = Append(y, e)
  BY <1>2, <1>3
<1> HIDE DEF y
<1>5. x = y /\ m = e
  BY <1>4, AppendInjective
<1> QED BY <1>1, <1>5 DEF y, EndsWith

-----------------------------------------------------------------------------
\* Every variable has its type.
LEMMA RowChangeType == ASSUME NEW before PROVE RowChange(before) \in Changes
<1>1. CASE before = Nothing
  BY <1>1 DEF RowChange, Changes
<1>2. CASE before # Nothing /\ before.value["row"] = snap.value["row"]
  BY <1>2 DEF RowChange, Changes
<1>3. CASE before # Nothing /\ before.value["row"] # snap.value["row"]
  BY <1>3 DEF RowChange, Changes
<1> QED BY <1>1, <1>2, <1>3

LEMMA SummaryType ==
    ASSUME TypeOK, NEW before PROVE Summary(before) \in Messages
<1>1. snap \in Contents /\ version \in Versions
  BY DEF TypeOK
<1>2. \A p \in Parts : Omit(before, p) \in Versions \cup {Same}
  BY <1>1 DEF Omit, Contents
<1>3. snap.value["lists"] \in Versions /\ snap.value["row"] \in Versions /\ snap.listed \in BOOLEAN
  BY <1>1 DEF Contents, Parts
<1>4. Omit(before, "memory") \in Versions \cup {Same} /\ Omit(before, "live") \in Versions \cup {Same}
  BY <1>2 DEF Parts
<1> QED BY <1>1, <1>3, <1>4, RowChangeType DEF Summary, Messages

LEMMA WireType ==
    ASSUME NEW S, NEW w \in Seq(S), NEW m \in S
    PROVE  Append(w, m) \in Seq(S) /\ Len(Append(w, m)) = Len(w) + 1
OBVIOUS

LEMMA LastMessage ==
    ASSUME NEW batch \in Seq(Messages), batch # <<>>
    PROVE  Last(batch) \in Messages /\ Last(batch).at \in Versions
<1>1. Len(batch) \in 1..Len(batch)
  OBVIOUS
<1>2. Last(batch) \in Messages
  BY <1>1 DEF Last
<1> QED BY <1>2 DEF Messages

LEMMA FlushType ==
    ASSUME NEW s \in Contents \cup {Nothing}, NEW batch \in Seq(Messages), Len(batch) <= MaxQueued,
           NEW missing \in Versions, merged \in Versions, Flush(s, batch, missing)
    PROVE  /\ held' \in Contents \cup {Nothing} /\ queue' \in Seq(Messages) /\ Len(queue') <= MaxQueued
           /\ merged' \in Versions /\ gone' \in Versions /\ applyTimer' = FALSE
<1>1. 0 \in Versions
  BY BoundsAreNumbers DEF Versions
<1>2. CASE s = Nothing \/ batch = <<>>
  BY <1>2 DEF Flush
<1>3. CASE ~(s = Nothing \/ batch = <<>>)
  <2>1. /\ held' = MergeBatch(s, batch) /\ queue' = <<>> /\ merged' = Last(batch).at /\ applyTimer' = FALSE
        /\ gone' = IF MissesRow(s, batch) THEN Last(batch).at ELSE IF BringsAll(batch) THEN 0 ELSE missing
    BY <1>3 DEF Flush
  <2>2. MergeBatch(s, batch) \in Contents
    BY <1>3, MergeIsContents
  <2>3. Last(batch).at \in Versions
    BY <1>3, LastMessage
  <2>4. queue' \in Seq(Messages) /\ Len(queue') <= MaxQueued
    BY <2>1, BoundsAreNumbers
  <2> QED BY <1>1, <2>1, <2>2, <2>3, <2>4
<1> QED BY <1>2, <1>3

\* What Receive puts in the queue
Batch == IF Full(Append(queue, Fill(Head(wire)))) THEN Tail(Append(queue, Fill(Head(wire))))
         ELSE Append(queue, Fill(Head(wire)))
Missing == IF Full(Append(queue, Fill(Head(wire)))) THEN Later(gone, Head(Append(queue, Fill(Head(wire)))).at)
           ELSE gone

LEMMA FillIs == Fill(Head(wire)) = FillWith(Head(wire), lastLive)
BY DEF Fill, FillWith

LEMMA BatchType ==
    ASSUME TypeOK, wire # <<>>
    PROVE  /\ Fill(Head(wire)) \in Messages /\ Fill(Head(wire)).live \in LiveNow
           /\ Batch \in Seq(Messages) /\ Len(Batch) <= MaxQueued /\ Batch # <<>> /\ Missing \in Versions
<1> DEFINE m == Fill(Head(wire))
           all == Append(queue, m)
<1>1. wire \in Seq(Messages) /\ lastLive \in LiveNow /\ queue \in Seq(Messages) /\ Len(queue) <= MaxQueued /\ gone \in Versions
  BY DEF TypeOK, LiveNow
<1>2. m \in Messages /\ m.live \in LiveNow
  BY <1>1, FillsHead, FillIs
<1> HIDE DEF m
<1>3. all \in Seq(Messages) /\ Len(all) = Len(queue) + 1 /\ all # <<>> /\ Len(queue) \in Nat
  BY <1>1, <1>2
<1> HIDE DEF all
<1>4. Head(all) \in Messages /\ Tail(all) \in Seq(Messages) /\ Len(Tail(all)) = Len(all) - 1
  BY <1>3
<1>5. Head(all).at \in Versions
  BY <1>4 DEF Messages
<1>6. Batch = (IF Full(all) THEN Tail(all) ELSE all) /\ Missing = (IF Full(all) THEN Later(gone, Head(all).at) ELSE gone)
  BY DEF Batch, Missing, all, m
<1>7. MaxQueued \in Nat /\ MaxQueued >= 1
  BY BoundsAreNumbers
<1>8. Missing \in Versions
  BY <1>1, <1>5, <1>6 DEF Later
<1>9. CASE Full(all)
  BY <1>1, <1>3, <1>4, <1>6, <1>7, <1>8, <1>9, <1>2 DEF Full, m
<1>10. CASE ~Full(all)
  BY <1>1, <1>3, <1>6, <1>7, <1>8, <1>10, <1>2 DEF Full, m
<1> QED BY <1>9, <1>10

LEMMA TypeInit == LiveInit => TypeOK
<1> SUFFICES ASSUME LiveInit PROVE TypeOK
  OBVIOUS
<1>1. MaxVersion \in Nat /\ MaxVersion >= 1 /\ Versions = 0..MaxVersion /\ MaxClients \in Nat /\ MaxWire \in Nat
      /\ MaxQueued \in Nat /\ MaxTroubles \in Nat
  BY BoundsAreNumbers DEF Versions
<1>2. snap \in Contents
  <2>1. [p \in Parts |-> 1] \in [Parts -> Versions]
    BY <1>1
  <2> QED BY <2>1 DEF LiveInit, FirstSnapshots, Contents
<1>3. wire \in Seq(Messages) /\ Len(wire) = 0 /\ queue \in Seq(Messages) /\ Len(queue) = 0
  BY DEF LiveInit
<1>4. {dropped, hidden, applyTimer, refetchTimer, everConnected} \subseteq BOOLEAN
  BY DEF LiveInit
<1>5. version \in Versions \ {0} /\ known \in Versions /\ rev \in Versions /\ merged \in Versions /\ gone \in Versions
  BY <1>1 DEF LiveInit
<1> QED BY <1>1, <1>2, <1>3, <1>4, <1>5 DEF LiveInit, TypeOK

LEMMA TypeStep == TypeOK /\ SlotsInv /\ SlotsInv' /\ [LiveNext]_vars => TypeOK'
<1> SUFFICES ASSUME TypeOK, SlotsInv, SlotsInv', [LiveNext]_vars PROVE TypeOK'
  OBVIOUS
<1>a. leftover' \in Nat /\ slots' \in 0..MaxClients
  BY DEF SlotsInv, CountsOK
<1>b. MaxVersion \in Nat /\ Versions = 0..MaxVersion /\ MaxWire \in Nat /\ MaxTroubles \in Nat
  BY BoundsAreNumbers DEF Versions
<1> USE <1>a, <1>b DEF TypeOK, threadVars, linkVars, queueVars, viewVars, serverVars
<1>1. CASE Publish
  <2>1. version' \in Versions \ {0}
    BY <1>1 DEF Publish
  <2>2. PICK p \in Parts, listed \in BOOLEAN :
            snap' = [value |-> [snap.value EXCEPT ![p] = version + 1], listed |-> listed]
    BY <1>1 DEF Publish
  <2>3. version + 1 \in Versions /\ snap.value \in [Parts -> Versions]
    BY <1>1 DEF Publish, Contents
  <2>4. [snap.value EXCEPT ![p] = version + 1] \in [Parts -> Versions]
    BY <2>3
  <2>5. snap' \in Contents
    BY <2>2, <2>4 DEF Contents
  <2> QED BY <1>1, <2>1, <2>5 DEF Publish
<1>2. CASE ThreadStep
  <2>1. CASE WriteFirst \/ WriteNext
    <3>1. Summary(sent) \in Messages
      BY SummaryType
    <3>2. wire' = Append(wire, Summary(sent)) /\ sent' = snap /\ Len(wire) < MaxWire
      BY <2>1 DEF WriteFirst, WriteNext, Write
    <3>3. wire' \in Seq(Messages) /\ Len(wire') <= MaxWire
      BY <3>1, <3>2, WireType
    <3> QED BY <1>2, <2>1, <3>2, <3>3 DEF ThreadStep, WriteFirst, WriteNext
  <2>2. CASE ReadVersion \/ WakeUp \/ TimeOut
    BY <1>2, <2>2 DEF ThreadStep, ReadVersion, WakeUp, TimeOut
  <2> QED BY <1>2, <2>1, <2>2 DEF ThreadStep
<1>3. CASE LeftoverStep
  BY <1>3 DEF LeftoverStep, EndLeftover
<1>4. CASE Connect
  <2>1. fetch' \in {Nothing, Asked} \cup Contents
    BY <1>4 DEF Connect, Refresh
  <2> QED BY <1>4, <2>1 DEF Connect
<1>5. CASE Reject \/ Retry
  BY <1>5 DEF Reject, Retry
<1>6. ASSUME NEW heard \in BOOLEAN, Break(heard) PROVE TypeOK'
  <2>1. wire' \in Seq(Messages) /\ Len(wire') <= MaxWire
    BY <1>6 DEF Break
  <2> QED BY <1>6, <2>1 DEF Break, Trouble
<1>7. CASE Receive
  <2>1. wire # <<>>
    BY <1>7 DEF Receive
  <2>2. wire' = Tail(wire) /\ wire' \in Seq(Messages) /\ Len(wire') <= MaxWire
    BY <1>7, <2>1 DEF Receive
  <2>3. /\ Fill(Head(wire)).live \in LiveNow
        /\ Batch \in Seq(Messages) /\ Len(Batch) <= MaxQueued /\ Missing \in Versions
    BY <2>1, BatchType
  <2>4. /\ lastLive' = Fill(Head(wire)).live
        /\ dropped' \in BOOLEAN
        /\ \/ /\ hidden
              /\ queue' = Batch /\ gone' = Missing
              /\ UNCHANGED <<held, merged, applyTimer, refetchTimer>>
           \/ /\ ~hidden
              /\ RefreshSoon(Fill(Head(wire)))
              /\ \/ Flush(held, Batch, Missing)
                 \/ /\ queue' = Batch /\ gone' = Missing /\ applyTimer' = TRUE
                    /\ UNCHANGED <<held, merged>>
    BY <1>7 DEF Receive, Batch, Missing
  <2>5. /\ held' \in Contents \cup {Nothing} /\ queue' \in Seq(Messages) /\ Len(queue') <= MaxQueued
        /\ merged' \in Versions /\ gone' \in Versions /\ applyTimer' \in BOOLEAN
    <3>1. CASE Flush(held, Batch, Missing)
      BY <2>3, <3>1, FlushType
    <3>2. CASE ~Flush(held, Batch, Missing)
      BY <2>3, <2>4, <3>2
    <3> QED BY <3>1, <3>2
  <2>6. refetchTimer' \in BOOLEAN
    BY <2>4 DEF RefreshSoon
  <2>7. lastLive' \in Versions \cup {Same}
    BY <2>3, <2>4 DEF LiveNow
  <2> QED BY <1>7, <2>2, <2>4, <2>5, <2>6, <2>7 DEF Receive
<1>8. CASE ApplyTimer
  <2>1. Flush(held, queue, gone)
    BY <1>8 DEF ApplyTimer
  <2>2. /\ held' \in Contents \cup {Nothing} /\ queue' \in Seq(Messages) /\ Len(queue') <= MaxQueued
        /\ merged' \in Versions /\ gone' \in Versions /\ applyTimer' = FALSE
    BY <2>1, FlushType
  <2> QED BY <1>8, <2>2 DEF ApplyTimer
<1>9. CASE Show
  <2>1. Flush(held, queue, gone)
    BY <1>9 DEF Show
  <2>2. /\ held' \in Contents \cup {Nothing} /\ queue' \in Seq(Messages) /\ Len(queue') <= MaxQueued
        /\ merged' \in Versions /\ gone' \in Versions /\ applyTimer' = FALSE
    BY <2>1, FlushType
  <2>3. fetch' \in {Nothing, Asked} \cup Contents
    BY <1>9 DEF Show, Refresh
  <2> QED BY <1>9, <2>2, <2>3 DEF Show
<1>10. CASE Answer
  <2> DEFINE missing == IF merged > VersionOf(fetch) THEN merged
                        ELSE IF gone > VersionOf(fetch) THEN gone ELSE 0
  <2>1. Flush(fetch, queue, missing) /\ fetch \in Contents
    BY <1>10 DEF Answer
  <2>2. missing \in Versions
    OBVIOUS
  <2> HIDE DEF missing
  <2>3. /\ held' \in Contents \cup {Nothing} /\ queue' \in Seq(Messages) /\ Len(queue') <= MaxQueued
        /\ merged' \in Versions /\ gone' \in Versions /\ applyTimer' = FALSE
    BY <2>1, <2>2, FlushType
  <2>4. rev' \in Versions
    BY <1>10, <2>1, ContentsAre DEF Answer, Parts
  <2> QED BY <1>10, <2>3, <2>4 DEF Answer
<1>11. CASE Serve
  BY <1>11 DEF Serve
<1>12. CASE FetchFails
  BY <1>12 DEF FetchFails, Trouble
<1>13. CASE RefetchTimer \/ StallTimer
  BY <1>13 DEF RefetchTimer, StallTimer, Refresh
<1>14. CASE Hide
  BY <1>14 DEF Hide, Trouble
<1>15. CASE UNCHANGED vars
  BY <1>15 DEF vars
<1> QED BY <1>1, <1>2, <1>3, <1>4, <1>5, <1>6, <1>7, <1>8, <1>9, <1>10, <1>11, <1>12, <1>13, <1>14, <1>15
        DEF LiveNext, LinkStep, FetchStep

(* The daemon's thread, the link and the page only ever hold what the code *)
(* gives them: no more messages wait than maxQueued, none is of a snapshot *)
(* that was not published (useDashboard.js 85-96, web_server.py 412-541).  *)
THEOREM LiveTyped == LiveSpec => []TypeOK
<1>1. LiveInit => TypeOK /\ SlotsInv
  BY TypeInit, SlotsInit
<1>2. TypeOK /\ SlotsInv /\ [LiveNext]_vars => (TypeOK /\ SlotsInv)'
  BY TypeStep, SlotsStep
<1> QED BY <1>1, <1>2, PTL DEF LiveSpec

-----------------------------------------------------------------------------
(* The invariant behind StreamCompletes, for what is still to be merged    *)
(* (c), what the page shows (h), the fetch under way (f) and what the      *)
(* server takes for sent (t).  A fetch may come to replace what the page   *)
(* shows when some of c are merged and gone with it: it completes, with    *)
(* the rest of c, when the last of those is not later than the fetch.      *)
Covered(f, a, mg, gn) ==
    IF a = <<>> THEN mg <= VersionOf(f) /\ gn <= VersionOf(f) ELSE Last(a).at <= VersionOf(f)
FetchOK(f, c, t, mg, gn) ==
    \A a, b \in Seq(Messages) : c = a \o b /\ Covered(f, a, mg, gn) => Complete(f, b, t)
SettlesEach(c, t) == \A a, b \in Seq(Messages) : c = a \o b => Settles(b, t)
StreamOK(c, h, f, t, mg, gn) ==
    /\ SettlesEach(c, t)
    /\ h \in Contents /\ gn = 0 => Complete(h, c, t)
    /\ f \in Contents => FetchOK(f, c, t, mg, gn)

MessageOK(m) == m.at >= 1 /\ (m.rows = "all" => m.memory # Same /\ m.live # Same)
AllOK(c) == \A i \in DOMAIN c : MessageOK(c[i])

LEMMA VersionIs ==
    ASSUME NEW s \in Contents
    PROVE  /\ VersionOf(s) \in Nat /\ \A p \in Parts : s.value[p] <= VersionOf(s)
           /\ \E p \in Parts : s.value[p] = VersionOf(s)
<1> DEFINE vs == {s.value[p] : p \in Parts}
<1>1. \A p \in Parts : s.value[p] \in Nat
  BY ContentsAre
<1>2. \E q \in Parts : \A p \in Parts : s.value[p] <= s.value[q]
  <2> DEFINE later(x, y) == IF x >= y THEN x ELSE y
             a == s.value["memory"]
             b == s.value["live"]
             c == s.value["lists"]
             d == s.value["row"]
  <2>1. a \in Nat /\ b \in Nat /\ c \in Nat /\ d \in Nat
    BY <1>1 DEF Parts
  <2>2. \E x \in {a, b, c, d} : a <= x /\ b <= x /\ c <= x /\ d <= x
    BY <2>1
  <2> QED BY <2>2 DEF Parts
<1>3. \E v \in vs : \A p \in Parts : s.value[p] <= v
  BY <1>2
<1>4. VersionOf(s) \in vs /\ \A p \in Parts : s.value[p] <= VersionOf(s)
  BY <1>3 DEF VersionOf
<1> QED BY <1>1, <1>4

LEMMA Parted ==
    ASSUME NEW a \in Seq(Messages), NEW b \in Seq(Messages), NEW c \in Seq(Messages)
    PROVE  /\ (a \o b) \o c = a \o (b \o c) /\ a \o b \in Seq(Messages)
           /\ <<>> \o a = a /\ a \o <<>> = a /\ <<>> \in Seq(Messages)
           /\ b # <<>> => a \o b # <<>> /\ Last(a \o b) = Last(b)
           /\ (b = <<>> /\ a # <<>>) => a \o b # <<>> /\ Last(a \o b) = Last(a)
<1>1. Len(a \o b) = Len(a) + Len(b) /\ Len(a) \in Nat /\ Len(b) \in Nat
  OBVIOUS
<1>2. ASSUME b # <<>> PROVE a \o b # <<>> /\ Last(a \o b) = Last(b)
  <2>1. Len(b) >= 1
    BY <1>2
  <2>2. (a \o b)[Len(a) + Len(b)] = b[Len(b)]
    BY <1>1, <2>1
  <2> QED BY <1>1, <2>1, <2>2 DEF Last
<1>3. a \o <<>> = a
  OBVIOUS
<1>4. (a \o b) \o c = a \o (b \o c)
  BY ConcatAssociative
<1>5. <<>> \o a = a /\ <<>> \in Seq(Messages) /\ a \o b \in Seq(Messages)
  OBVIOUS
<1>6. ASSUME b = <<>>, a # <<>> PROVE a \o b # <<>> /\ Last(a \o b) = Last(a)
  BY <1>3, <1>6
<1> QED BY <1>2, <1>3, <1>4, <1>5, <1>6

LEMMA SettlesRest ==
    ASSUME NEW a \in Seq(Messages), NEW b \in Seq(Messages), NEW t, SettlesEach(a \o b, t)
    PROVE  SettlesEach(b, t)
<1> SUFFICES ASSUME NEW x \in Seq(Messages), NEW y \in Seq(Messages), b = x \o y PROVE Settles(y, t)
  BY DEF SettlesEach
<1>1. (a \o x) \o y = a \o b /\ a \o x \in Seq(Messages)
  BY Parted
<1> QED BY <1>1 DEF SettlesEach

\* The server writes a message that follows the one before, or the first of a stream.
LEMMA StreamFollows ==
    ASSUME NEW c \in Seq(Messages), NEW m \in Messages, NEW h, NEW f, NEW t \in Contents, NEW u \in Contents, NEW mg, NEW gn,
           \/ Follows(m, t, u) /\ StreamOK(c, h, f, t, mg, gn)
           \/ Starts(m, u),
           f \in Contents /\ m.at <= VersionOf(f) => f = u
    PROVE  StreamOK(Append(c, m), h, f, u, mg, gn)
<1>1. \A p \in Blocks : u.value[p] \in Nat /\ u.value[p] # Same
  BY ContentsAre
<1>2. u.value["row"] \in Nat
  BY ContentsAre
<1>3. ASSUME NEW a \in Seq(Messages), NEW b \in Seq(Messages), Append(c, m) = a \o b PROVE Settles(b, u)
  <2>1. CASE b = <<>>
    BY <2>1, SettlesNone
  <2>2. CASE b # <<>>
    <3>1. PICK x \in Seq(Messages) : b = Append(x, m) /\ c = a \o x
      <4>1. Joined(a, b, c, m)
        BY <1>3, <2>2 DEF Joined
      <4>2. EndsWith(a, b, c, m)
        BY <4>1, SplitAppend
      <4> QED BY <4>2 DEF EndsWith
    <3>2. CASE Starts(m, u)
      BY <3>1, <3>2, StartSettles
    <3>3. CASE Follows(m, t, u) /\ StreamOK(c, h, f, t, mg, gn)
      <4>1. Settles(x, t)
        BY <3>1, <3>3 DEF StreamOK, SettlesEach
      <4> QED BY <3>1, <3>3, <4>1, FollowSettles
    <3> QED BY <3>2, <3>3
  <2> QED BY <2>1, <2>2
<1>4. ASSUME NEW s \in Contents, NEW x \in Seq(Messages), Starts(m, u) PROVE Complete(s, Append(x, m), u)
  <2>1. Settles(Append(x, m), u) /\ Append(x, m) \in Seq(Messages)
    BY <1>4, StartSettles
  <2>2. \A p \in Blocks : Tells(Append(x, m), p)
    BY <1>1, <1>4, TellsOneMore DEF Starts
  <2>3. TellsRow(Append(x, m))
    BY <1>4, TellsOneMore DEF Starts
  <2> QED BY <2>1, <2>2, <2>3, AheadCompletes
<1>5. ASSUME h \in Contents, gn = 0 PROVE Complete(h, Append(c, m), u)
  <2>1. CASE Starts(m, u)
    BY <1>4, <1>5, <2>1
  <2>2. CASE Follows(m, t, u) /\ StreamOK(c, h, f, t, mg, gn)
    <3>1. Complete(h, c, t)
      BY <1>5, <2>2 DEF StreamOK
    <3> QED BY <1>5, <2>2, <3>1, FollowCompletes
  <2> QED BY <2>1, <2>2
<1>6. ASSUME f \in Contents, NEW a \in Seq(Messages), NEW b \in Seq(Messages), Append(c, m) = a \o b,
             Covered(f, a, mg, gn)
      PROVE  Complete(f, b, u)
  <2>1. CASE b = <<>>
    <3>1. a = Append(c, m)
      BY <1>6, <2>1, Parted
    <3>2. Last(a) = m /\ a # <<>>
      BY <3>1 DEF Last
    <3>3. f = u
      BY <1>6, <3>2 DEF Covered
    <3>4. \A p \in Blocks : f.value[p] >= u.value[p]
      BY <1>1, <3>3
    <3>5. NoOlderRow(f, u)
      BY <1>2, <3>3 DEF NoOlderRow
    <3>6. Settles(b, u) /\ b \in Seq(Messages)
      BY <2>1, SettlesNone
    <3> QED BY <1>6, <3>4, <3>5, <3>6, AheadCompletes
  <2>2. CASE b # <<>>
    <3>1. PICK x \in Seq(Messages) : b = Append(x, m) /\ c = a \o x
      <4>1. Joined(a, b, c, m)
        BY <1>6, <2>2 DEF Joined
      <4>2. EndsWith(a, b, c, m)
        BY <4>1, SplitAppend
      <4> QED BY <4>2 DEF EndsWith
    <3>2. CASE Starts(m, u)
      BY <1>4, <1>6, <3>1, <3>2
    <3>3. CASE Follows(m, t, u) /\ StreamOK(c, h, f, t, mg, gn)
      <4>1. Complete(f, x, t)
        BY <1>6, <3>1, <3>3 DEF StreamOK, FetchOK
      <4> QED BY <1>6, <3>1, <3>3, <4>1, FollowCompletes
    <3> QED BY <3>2, <3>3
  <2> QED BY <2>1, <2>2
<1>7. SettlesEach(Append(c, m), u)
  BY <1>3 DEF SettlesEach
<1>8. f \in Contents => FetchOK(f, Append(c, m), u, mg, gn)
  BY <1>6 DEF FetchOK
<1> QED BY <1>5, <1>7, <1>8 DEF StreamOK

\* A fetch that would replace the page after the messages of d, completes with what follows them.
LEMMA FetchRest ==
    ASSUME NEW d \in Seq(Messages), NEW c \in Seq(Messages), NEW f \in Contents, NEW t,
           NEW mg, NEW gn, NEW mg2, NEW gn2, FetchOK(f, d \o c, t, mg, gn),
           Covered(f, <<>>, mg2, gn2) => Covered(f, d, mg, gn)
    PROVE  FetchOK(f, c, t, mg2, gn2)
<1> SUFFICES ASSUME NEW a \in Seq(Messages), NEW b \in Seq(Messages), c = a \o b, Covered(f, a, mg2, gn2)
             PROVE  Complete(f, b, t)
  BY DEF FetchOK
<1>1. (d \o a) \o b = d \o c /\ d \o a \in Seq(Messages)
  BY Parted
<1>2. Covered(f, d \o a, mg, gn)
  <2>1. CASE a = <<>>
    <3>1. d \o a = d
      BY <2>1, Parted
    <3> QED BY <2>1, <3>1
  <2>2. CASE a # <<>>
    <3>1. d \o a # <<>> /\ Last(d \o a) = Last(a)
      BY <2>2, Parted
    <3> QED BY <2>2, <3>1 DEF Covered
  <2> QED BY <2>1, <2>2
<1> QED BY <1>1, <1>2 DEF FetchOK

\* Merging: the rest completes what came of it, unless the page misses something.
LEMMA MergedCompletes ==
    ASSUME NEW h \in Contents, NEW batch \in Seq(Messages), NEW c \in Seq(Messages), NEW t \in Contents,
           batch # <<>>, AllOK(batch), Settles(batch \o c, t),
           NEW missing, missing = 0 => Complete(h, batch \o c, t),
           (IF MissesRow(h, batch) THEN Last(batch).at ELSE IF BringsAll(batch) THEN 0 ELSE missing) = 0
    PROVE  Complete(MergeBatch(h, batch), c, t)
<1>1. Len(batch) \in DOMAIN batch
  OBVIOUS
<1>2. Last(batch).at >= 1
  BY <1>1 DEF AllOK, MessageOK, Last
<1>3. ~MissesRow(h, batch)
  BY <1>2
<1>4. Complete(h, batch \o c, t)
  <2>1. CASE BringsAll(batch)
    <3>1. PICK i \in DOMAIN batch : batch[i].rows = "all"
      BY <2>1 DEF BringsAll
    <3>2. batch[i] \in Messages
      OBVIOUS
    <3>3. batch[i]["memory"] # Same /\ batch[i]["live"] # Same
      BY <3>1, <3>2 DEF AllOK, MessageOK, Messages
    <3>4. TellsRow(batch) /\ \A p \in Blocks : Tells(batch, p)
      BY <3>1, <3>3 DEF TellsRow, Tells, Blocks
    <3>5. TellsRow(batch \o c) /\ \A p \in Blocks : Tells(batch \o c, p)
      BY <3>4, TellsTwice
    <3>6. batch \o c \in Seq(Messages)
      OBVIOUS
    <3> QED BY <3>5, <3>6, AheadCompletes
  <2>2. CASE ~BringsAll(batch)
    BY <1>3, <2>2
  <2> QED BY <2>1, <2>2
<1> QED BY <1>3, <1>4, CompletesRest

\* Messages are dropped from the front: gone tells of them.
Drops(d, gn, gn2) == (d = <<>> /\ gn2 = gn) \/ (d # <<>> /\ Last(d).at <= gn2 /\ gn <= gn2)

LEMMA DropsCovered ==
    ASSUME NEW d \in Seq(Messages), NEW f \in Contents, NEW mg \in Nat, NEW gn \in Nat, NEW gn2 \in Nat,
           Drops(d, gn, gn2), Covered(f, <<>>, mg, gn2)
    PROVE  Covered(f, d, mg, gn)
<1>1. VersionOf(f) \in Nat /\ mg <= VersionOf(f) /\ gn2 <= VersionOf(f)
  BY VersionIs DEF Covered
<1>2. CASE d = <<>>
  BY <1>1, <1>2 DEF Drops, Covered
<1>3. CASE d # <<>>
  <2>1. Last(d).at \in Nat
    BY <1>3, LastMessage, BoundsAreNumbers DEF Versions
  <2> QED BY <1>1, <1>3, <2>1 DEF Drops, Covered
<1> QED BY <1>2, <1>3

LEMMA StreamDrops ==
    ASSUME NEW d \in Seq(Messages), NEW c \in Seq(Messages), NEW h, NEW f, NEW t \in Contents,
           NEW mg \in Nat, NEW gn \in Nat, NEW gn2 \in Nat,
           StreamOK(d \o c, h, f, t, mg, gn), AllOK(d), Drops(d, gn, gn2)
    PROVE  StreamOK(c, h, f, t, mg, gn2)
<1>1. SettlesEach(c, t)
  BY SettlesRest DEF StreamOK
<1>2. ASSUME h \in Contents, gn2 = 0 PROVE Complete(h, c, t)
  <2>1. d = <<>>
    <3> SUFFICES ASSUME d # <<>> PROVE FALSE
      OBVIOUS
    <3>1. Len(d) \in DOMAIN d
      OBVIOUS
    <3>2. Last(d).at >= 1 /\ Last(d).at <= 0
      BY <1>2, <3>1 DEF AllOK, MessageOK, Last, Drops
    <3>3. Last(d).at \in Nat
      BY LastMessage, BoundsAreNumbers DEF Versions
    <3> QED BY <3>2, <3>3
  <2>2. gn = 0 /\ d \o c = c
    BY <1>2, <2>1 DEF Drops
  <2> QED BY <1>2, <2>2 DEF StreamOK
<1>3. ASSUME f \in Contents PROVE FetchOK(f, c, t, mg, gn2)
  <2>1. FetchOK(f, d \o c, t, mg, gn)
    BY <1>3 DEF StreamOK
  <2>2. Covered(f, <<>>, mg, gn2) => Covered(f, d, mg, gn)
    BY <1>3, DropsCovered
  <2> QED BY <1>3, <2>1, <2>2, FetchRest
<1> QED BY <1>1, <1>2, <1>3 DEF StreamOK

LEMMA AllOKParts ==
    ASSUME NEW a \in Seq(Messages), NEW c \in Seq(Messages)
    PROVE  AllOK(a \o c) => AllOK(a) /\ AllOK(c)
<1> SUFFICES ASSUME AllOK(a \o c) PROVE AllOK(a) /\ AllOK(c)
  OBVIOUS
<1> DEFINE d == a \o c
<1>1. DOMAIN a = 1..Len(a) /\ DOMAIN c = 1..Len(c) /\ DOMAIN d = 1..(Len(a) + Len(c)) /\ Len(a) \in Nat /\ Len(c) \in Nat
  OBVIOUS
<1>2. \A i \in 1..Len(a) : d[i] = a[i]
  OBVIOUS
<1>3. \A i \in 1..Len(c) : d[Len(a) + i] = c[i]
  OBVIOUS
<1>4. AllOK(d)
  OBVIOUS
<1> HIDE DEF d
<1>5. ASSUME NEW i \in DOMAIN a PROVE MessageOK(a[i])
  <2>1. i \in DOMAIN d /\ d[i] = a[i]
    BY <1>1, <1>2
  <2> QED BY <1>4, <2>1 DEF AllOK
<1>6. ASSUME NEW i \in DOMAIN c PROVE MessageOK(c[i])
  <2>1. Len(a) + i \in DOMAIN d /\ d[Len(a) + i] = c[i]
    BY <1>1, <1>3
  <2> QED BY <1>4, <2>1 DEF AllOK
<1> QED BY <1>5, <1>6 DEF AllOK

LEMMA AllOKMore ==
    ASSUME NEW c \in Seq(Messages), NEW m \in Messages, AllOK(c), MessageOK(m)
    PROVE  AllOK(Append(c, m))
<1> SUFFICES ASSUME NEW i \in DOMAIN Append(c, m) PROVE MessageOK(Append(c, m)[i])
  BY DEF AllOK
<1>1. (i \in DOMAIN c /\ Append(c, m)[i] = c[i]) \/ Append(c, m)[i] = m
  OBVIOUS
<1> HIDE DEF AllOK
<1>2. CASE Append(c, m)[i] = m
  BY <1>2
<1>3. CASE i \in DOMAIN c /\ Append(c, m)[i] = c[i]
  <2>1. MessageOK(c[i])
    BY <1>3 DEF AllOK
  <2> QED BY <1>3, <2>1
<1> QED BY <1>1, <1>2, <1>3

-----------------------------------------------------------------------------
VersionInv ==
    /\ \A p \in Parts : snap.value[p] <= version
    /\ \E p \in Parts : snap.value[p] = version
    /\ sent # Nothing => /\ \A p \in Parts : sent.value[p] <= snap.value[p]
                         /\ sent.value["row"] = snap.value["row"] => sent.listed = snap.listed
    /\ fetch \in Contents => /\ \A p \in Parts : fetch.value[p] <= snap.value[p]
                             /\ (\E p \in Parts : fetch.value[p] = version) => fetch = snap
StreamInv ==
    handler # "none" /\ sent # Nothing =>
        /\ LiveAt(wire, lastLive, Len(wire)) = sent.value["live"]
        /\ StreamOK(Coming, held, fetch, sent, merged, gone)
FollowInv == TypeOK /\ VersionInv /\ AllOK(Coming) /\ StreamInv

\* flush over s, of a batch that comes after d and before rest
LEMMA FlushStream ==
    ASSUME NEW s \in Contents \cup {Nothing}, NEW d \in Seq(Messages), NEW batch \in Seq(Messages),
           NEW rest \in Seq(Messages), NEW t \in Contents, NEW f, NEW missing \in Nat, merged \in Nat, gone \in Nat,
           Flush(s, batch, missing),
           SettlesEach(d \o (batch \o rest), t), AllOK(batch),
           s \in Contents /\ missing = 0 => Complete(s, batch \o rest, t),
           f \in Contents => FetchOK(f, d \o (batch \o rest), t, merged, gone) /\ Drops(d, gone, missing)
    PROVE  /\ StreamOK(queue' \o rest, held', f, t, merged', gone')
           /\ queue' = batch \/ queue' = <<>>
<1> DEFINE c == batch \o rest
<1>1. c \in Seq(Messages) /\ <<>> \o rest = rest /\ d \o batch \in Seq(Messages) /\ (d \o batch) \o rest = d \o c
  BY Parted
<1>2. SettlesEach(c, t)
  BY <1>1, SettlesRest
<1>3. CASE s = Nothing \/ batch = <<>>
  <2>1. held' = s /\ queue' = batch /\ gone' = missing /\ merged' = merged
    BY <1>3 DEF Flush
  <2>2. f \in Contents => FetchOK(f, c, t, merged, missing)
    BY <1>1, DropsCovered, FetchRest
  <2> QED BY <1>2, <2>1, <2>2 DEF StreamOK
<1>4. CASE ~(s = Nothing \/ batch = <<>>)
  <2>1. /\ held' = MergeBatch(s, batch) /\ queue' = <<>> /\ merged' = Last(batch).at
        /\ gone' = IF MissesRow(s, batch) THEN Last(batch).at ELSE IF BringsAll(batch) THEN 0 ELSE missing
    BY <1>4 DEF Flush
  <2>2. SettlesEach(rest, t) /\ Settles(c, t)
    <3>1. <<>> \in Seq(Messages) /\ <<>> \o c = c
      BY <1>1
    <3>2. Settles(c, t)
      BY <1>1, <1>2, <3>1 DEF SettlesEach
    <3>3. SettlesEach(rest, t)
      BY <1>2, SettlesRest
    <3> QED BY <3>2, <3>3
  <2>3. ASSUME gone' = 0 PROVE Complete(held', rest, t)
    <3>1. (IF MissesRow(s, batch) THEN Last(batch).at ELSE IF BringsAll(batch) THEN 0 ELSE missing) = 0
      BY <2>1, <2>3
    <3>2. s \in Contents /\ batch # <<>>
      BY <1>4
    <3>3. missing = 0 => Complete(s, batch \o rest, t)
      BY <3>2
    <3>4. Complete(MergeBatch(s, batch), rest, t)
      BY <2>2, <3>1, <3>2, <3>3, MergedCompletes
    <3> QED BY <2>1, <3>4
  <2>4. ASSUME f \in Contents PROVE FetchOK(f, rest, t, merged', gone')
    <3>1. d \o batch # <<>> /\ Last(d \o batch) = Last(batch)
      BY <1>4, Parted
    <3>2. Covered(f, <<>>, merged', gone') => Covered(f, d \o batch, merged, gone)
      BY <2>1, <3>1 DEF Covered
    <3>3. FetchOK(f, (d \o batch) \o rest, t, merged, gone)
      BY <1>1, <2>4
    <3> QED BY <1>1, <2>4, <3>2, <3>3, FetchRest
  <2>5. queue' \o rest = rest
    BY <1>1, <2>1
  <2> QED BY <2>1, <2>2, <2>3, <2>4, <2>5 DEF StreamOK
<1> QED BY <1>3, <1>4

\* The invariant holds at first, and through every action.
LEMMA FollowInit == LiveInit => FollowInv
<1> SUFFICES ASSUME LiveInit PROVE FollowInv
  OBVIOUS
<1>1. TypeOK
  BY TypeInit
<1>2. \A p \in Parts : snap.value[p] = 1
  BY DEF LiveInit, FirstSnapshots
<1>3. VersionInv
  BY <1>2, NothingApart DEF LiveInit, VersionInv, Parts
<1>4. AllOK(Coming)
  <2>1. queue = <<>> /\ FillsOf(wire, lastLive) = <<>>
    BY DEF LiveInit, FillsOf
  <2>2. Coming = <<>>
    BY <2>1, ComingIs
  <2> QED BY <2>2 DEF AllOK
<1>5. StreamInv
  BY DEF LiveInit, StreamInv
<1> QED BY <1>1, <1>3, <1>4, <1>5 DEF FollowInv

LEMMA SnapIsVersioned ==
    ASSUME TypeOK, VersionInv
    PROVE  /\ snap \in Contents /\ version \in Nat
           /\ \A p \in Parts : snap.value[p] \in Nat
           /\ sent # Nothing => sent \in Contents /\ \A p \in Parts : sent.value[p] \in Nat
           /\ fetch \in Contents => \A p \in Parts : fetch.value[p] \in Nat
<1>1. Versions \subseteq Nat
  BY BoundsAreNumbers DEF Versions
<1> QED BY <1>1, ContentsAre DEF TypeOK

LEMMA VersionStep == ASSUME TypeOK, VersionInv, LiveNext PROVE VersionInv'
<1>1. /\ snap \in Contents /\ version \in Nat
      /\ \A p \in Parts : snap.value[p] \in Nat
      /\ sent # Nothing => sent \in Contents /\ \A p \in Parts : sent.value[p] \in Nat
      /\ fetch \in Contents => \A p \in Parts : fetch.value[p] \in Nat
  BY SnapIsVersioned
<1>2. Nothing \notin Contents /\ Asked \notin Contents
  BY NothingApart
<1> USE <1>2 DEF threadVars, linkVars, queueVars, viewVars, serverVars
<1>3. CASE Publish
  <2>1. PICK q \in Parts, listed \in BOOLEAN :
           /\ IF q = "row" THEN snap.listed \/ listed ELSE listed = snap.listed
           /\ snap' = [value |-> [snap.value EXCEPT ![q] = version + 1], listed |-> listed]
    BY <1>3 DEF Publish
  <2>2. version' = version + 1 /\ sent' = sent /\ fetch' = fetch
    BY <1>3 DEF Publish
  <2>3. snap.value \in [Parts -> Versions]
    BY <1>1 DEF Contents
  <2>4. snap'.value[q] = version + 1 /\ snap'.listed = listed
        /\ \A p \in Parts : p # q => snap'.value[p] = snap.value[p]
    BY <2>1, <2>3
  <2>5. \A p \in Parts : snap.value[p] <= snap'.value[p] /\ snap'.value[p] <= version'
    BY <1>1, <2>2, <2>4 DEF VersionInv
  <2>6. sent # Nothing => \A p \in Parts : sent.value[p] <= snap'.value[p]
    BY <1>1, <2>4, <2>5 DEF VersionInv
  <2>7. ASSUME sent # Nothing, sent.value["row"] = snap'.value["row"] PROVE sent.listed = snap'.listed
    <3>1. "row" \in Parts
      BY DEF Parts
    <3>2. q # "row"
      BY <1>1, <2>4, <2>7, <3>1 DEF VersionInv
    <3> QED BY <2>1, <2>4, <2>7, <3>1, <3>2 DEF VersionInv
  <2>8. ASSUME fetch \in Contents
        PROVE  (\A p \in Parts : fetch.value[p] <= snap'.value[p]) /\ ~\E p \in Parts : fetch.value[p] = version'
    BY <1>1, <2>2, <2>4, <2>5, <2>8 DEF VersionInv
  <2>9. \E p \in Parts : snap'.value[p] = version'
    BY <2>2, <2>4
  <2> QED BY <2>2, <2>5, <2>6, <2>7, <2>8, <2>9 DEF VersionInv
<1>4. CASE UNCHANGED <<version, snap>>
           /\ (sent' = sent \/ sent' = snap \/ sent' = Nothing)
           /\ (fetch' = fetch \/ fetch' = snap \/ fetch' \notin Contents)
  <2>1. sent' # Nothing => /\ \A p \in Parts : sent'.value[p] <= snap.value[p]
                           /\ sent'.value["row"] = snap.value["row"] => sent'.listed = snap.listed
    BY <1>1, <1>4 DEF VersionInv
  <2>2. fetch' \in Contents => /\ \A p \in Parts : fetch'.value[p] <= snap.value[p]
                               /\ (\E p \in Parts : fetch'.value[p] = version) => fetch' = snap
    BY <1>1, <1>4 DEF VersionInv
  <2> QED BY <1>4, <2>1, <2>2 DEF VersionInv
<1>5. CASE ThreadStep
  <2>1. UNCHANGED <<version, snap, fetch>>
    BY <1>5 DEF ThreadStep
  <2>2. sent' = sent \/ sent' = snap
    BY <1>5 DEF ThreadStep, WriteFirst, ReadVersion, WakeUp, TimeOut, WriteNext, Write
  <2> QED BY <1>4, <2>1, <2>2
<1>6. CASE LeftoverStep
  BY <1>4, <1>6 DEF LeftoverStep, EndLeftover
<1>7. CASE LinkStep
  BY <1>4, <1>7 DEF LinkStep, Connect, Reject, Retry, Refresh
<1>8. ASSUME NEW heard \in BOOLEAN, Break(heard) PROVE VersionInv'
  BY <1>4, <1>8 DEF Break
<1>9. CASE Receive
  BY <1>4, <1>9 DEF Receive
<1>10. CASE ApplyTimer
  BY <1>4, <1>10 DEF ApplyTimer
<1>11. CASE FetchStep
  BY <1>4, <1>11 DEF FetchStep, Serve, Answer
<1>12. CASE FetchFails
  BY <1>4, <1>12 DEF FetchFails
<1>13. CASE RefetchTimer \/ StallTimer
  BY <1>4, <1>13 DEF RefetchTimer, StallTimer, Refresh
<1>14. CASE Hide
  BY <1>4, <1>14 DEF Hide
<1>15. CASE Show
  BY <1>4, <1>15 DEF Show, Refresh
<1> QED BY <1>3, <1>5, <1>6, <1>7, <1>8, <1>9, <1>10, <1>11, <1>12, <1>13, <1>14, <1>15 DEF LiveNext

LEMMA ComingParts ==
    ASSUME TypeOK
    PROVE  /\ Coming = queue \o FillsOf(wire, lastLive)
           /\ queue \in Seq(Messages) /\ FillsOf(wire, lastLive) \in Seq(Messages) /\ Coming \in Seq(Messages)
           /\ wire \in Seq(Messages) /\ lastLive \in LiveNow
<1>1. queue \in Seq(Messages) /\ wire \in Seq(Messages) /\ lastLive \in LiveNow
  BY DEF TypeOK, LiveNow
<1>2. FillsOf(wire, lastLive) \in Seq(Messages)
  BY <1>1, FillsType
<1>3. queue \o FillsOf(wire, lastLive) \in Seq(Messages)
  BY <1>1, <1>2, Parted
<1> QED BY <1>1, <1>2, <1>3, ComingIs

\* _write_sse: the message follows what was sent before, or starts anew.
LEMMA WriteFollows ==
    ASSUME TypeOK, VersionInv, AllOK(Coming), StreamInv, handler # "none", Write,
           UNCHANGED <<version, snap, queue, lastLive, held, fetch, merged, gone>>, TypeOK'
    PROVE  AllOK(Coming)' /\ StreamInv'
<1> DEFINE m == Summary(sent)
           last == IF m.live = Same THEN LiveAt(wire, lastLive, Len(wire)) ELSE m.live
           new == [m EXCEPT !.live = last]
<1>1. /\ snap \in Contents /\ version \in Nat
      /\ \A p \in Parts : snap.value[p] \in Nat
      /\ sent # Nothing => sent \in Contents /\ \A p \in Parts : sent.value[p] \in Nat
      /\ fetch \in Contents => \A p \in Parts : fetch.value[p] \in Nat
  BY SnapIsVersioned
<1>2. m \in Messages
  BY SummaryType
<1>3. /\ Coming = queue \o FillsOf(wire, lastLive)
      /\ queue \in Seq(Messages) /\ FillsOf(wire, lastLive) \in Seq(Messages) /\ Coming \in Seq(Messages)
      /\ wire \in Seq(Messages) /\ lastLive \in LiveNow
  BY ComingParts
<1>4. wire' = Append(wire, m) /\ sent' = snap
  BY DEF Write
<1>5. /\ m.memory = Omit(sent, "memory") /\ m.live = Omit(sent, "live") /\ m.rows = RowChange(sent)
      /\ m.row = snap.value["row"] /\ m.listed = snap.listed /\ m.at = version
  BY DEF Summary
<1> HIDE DEF m
<1>6. /\ FillsOf(Append(wire, m), lastLive) = Append(FillsOf(wire, lastLive), new)
      /\ LiveAt(Append(wire, m), lastLive, Len(Append(wire, m))) = last
      /\ last \in LiveNow
  BY <1>2, <1>3, FillsAppend
<1>7. new \in Messages /\ new.live = last /\ new.memory = m.memory /\ new.rows = m.rows
      /\ new.row = m.row /\ new.listed = m.listed /\ new.at = m.at
      /\ new["memory"] = m.memory /\ new["live"] = last
  <2> HIDE DEF last
  <2>1. new \in Messages
    BY <1>2, <1>6, MessageIs
  <2> HIDE DEF new
  <2>2. new["memory"] = new.memory /\ new["live"] = new.live
    BY <2>1 DEF Messages
  <2> QED BY <1>2, <1>6, <2>1, <2>2, MessageIs DEF new
<1>8. Coming' = Append(Coming, new)
  <2>1. Coming' = queue' \o FillsOf(wire', lastLive')
    BY ComingNext
  <2>2. Coming' = queue \o Append(FillsOf(wire, lastLive), new)
    BY <1>4, <1>6, <2>1
  <2> DEFINE w == FillsOf(wire, lastLive)
  <2>3. w \in Seq(Messages) /\ queue \in Seq(Messages) /\ new \in Messages
    BY <1>3, <1>7
  <2> HIDE DEF w, new
  <2>4. queue \o Append(w, new) = Append(queue \o w, new)
    BY <2>3
  <2> QED BY <1>3, <2>2, <2>4 DEF w
<1>9. /\ \A p \in Parts : snap.value[p] # Same
      /\ sent # Nothing => LiveAt(wire, lastLive, Len(wire)) = sent.value["live"]
                           /\ StreamOK(Coming, held, fetch, sent, merged, gone)
  BY <1>1, ContentsAre DEF StreamInv
<1>10. last = snap.value["live"]
  BY <1>5, <1>9 DEF Omit, Parts
<1> HIDE DEF last, new
<1>11. Carries(new, snap)
  BY <1>5, <1>7 DEF Carries
<1>12. (sent # Nothing /\ Follows(new, sent, snap)) \/ Starts(new, snap)
  <2>1. CASE sent = Nothing
    <3>1. m.rows = "all" /\ m.memory = snap.value["memory"]
      BY <1>5, <2>1 DEF Omit, RowChange
    <3> QED BY <1>7, <1>10, <1>11, <3>1 DEF Starts, Blocks
  <2>2. CASE sent # Nothing
    <3>1. new["memory"] = snap.value["memory"] \/ (new["memory"] = Same /\ sent.value["memory"] = snap.value["memory"])
      BY <1>5, <1>7, <2>2 DEF Omit
    <3>2. m.rows = "same" => sent.value["row"] = snap.value["row"] \/ (~sent.listed /\ ~snap.listed)
      BY <1>5, <2>2 DEF RowChange
    <3>3. m.rows = "same" => SameRow(sent, snap)
      BY <2>2, <3>2 DEF SameRow, VersionInv
    <3> QED BY <1>7, <1>10, <1>11, <2>2, <3>1, <3>3 DEF Follows, Blocks
  <2> QED BY <2>1, <2>2
<1>13. fetch \in Contents /\ new.at <= VersionOf(fetch) => fetch = snap
  <2> SUFFICES ASSUME fetch \in Contents, version <= VersionOf(fetch) PROVE fetch = snap
    BY <1>5, <1>7
  <2>1. PICK p \in Parts : fetch.value[p] = VersionOf(fetch)
    BY VersionIs
  <2>2. fetch.value[p] <= snap.value[p] /\ snap.value[p] <= version
    BY <2>1 DEF VersionInv
  <2>3. fetch.value[p] = version
    BY <1>1, <2>1, <2>2
  <2> QED BY <2>3 DEF VersionInv
<1>14. StreamOK(Append(Coming, new), held, fetch, snap, merged, gone)
  <2>1. CASE Starts(new, snap)
    BY <1>1, <1>3, <1>7, <1>13, <2>1, StreamFollows
  <2>2. CASE sent # Nothing /\ Follows(new, sent, snap)
    <3>1. sent \in Contents /\ StreamOK(Coming, held, fetch, sent, merged, gone)
      BY <1>1, <1>9, <2>2
    <3> QED BY <1>1, <1>3, <1>7, <1>13, <2>2, <3>1, StreamFollows
  <2> QED BY <1>12, <2>1, <2>2
<1>15. StreamInv'
  BY <1>4, <1>6, <1>8, <1>10, <1>14 DEF StreamInv
<1>16. MessageOK(new)
  <2>1. new.at >= 1
    BY <1>1, <1>5, <1>7 DEF TypeOK
  <2>2. m.rows = "all" => sent = Nothing
    BY <1>5 DEF RowChange
  <2>3. sent = Nothing => m.memory # Same
    BY <1>5, <1>9 DEF Omit, Parts
  <2>4. new.live # Same
    BY <1>7, <1>9, <1>10 DEF Parts
  <2> QED BY <1>7, <2>1, <2>2, <2>3, <2>4 DEF MessageOK
<1>17. AllOK(Append(Coming, new))
  BY <1>3, <1>7, <1>16, AllOKMore
<1> QED BY <1>8, <1>15, <1>17

\* A step that leaves the messages and what the page shows alone
LEMMA QuietFollows ==
    ASSUME TypeOK, VersionInv, AllOK(Coming), StreamInv,
           UNCHANGED <<queue, wire, lastLive, held, merged, gone>>,
           handler' # "none" /\ sent' # Nothing => handler # "none" /\ sent' = sent,
           fetch' = fetch \/ fetch' = snap \/ fetch' \notin Contents
    PROVE  AllOK(Coming)' /\ StreamInv'
<1>1. Coming' = Coming
  BY ComingIs, ComingNext
<1>2. /\ snap \in Contents /\ version \in Nat
      /\ \A p \in Parts : snap.value[p] \in Nat
      /\ sent # Nothing => sent \in Contents /\ \A p \in Parts : sent.value[p] \in Nat
  BY SnapIsVersioned
<1>3. ASSUME handler' # "none", sent' # Nothing
      PROVE  /\ LiveAt(wire', lastLive', Len(wire')) = sent'.value["live"]
             /\ StreamOK(Coming', held', fetch', sent', merged', gone')
  <2>1. /\ sent' = sent /\ sent \in Contents /\ \A p \in Parts : sent.value[p] \in Nat
        /\ LiveAt(wire, lastLive, Len(wire)) = sent.value["live"]
        /\ StreamOK(Coming, held, fetch, sent, merged, gone)
    BY <1>2, <1>3 DEF StreamInv
  <2>2. StreamOK(Coming, held, fetch', sent, merged, gone)
    <3>1. CASE fetch' = fetch
      BY <2>1, <3>1
    <3>2. CASE fetch' \notin Contents
      BY <2>1, <3>2 DEF StreamOK
    <3>3. CASE fetch' = snap
      <4>1. ASSUME NEW a \in Seq(Messages), NEW b \in Seq(Messages), Coming = a \o b PROVE Complete(snap, b, sent)
        <5>1. Settles(b, sent)
          BY <2>1, <4>1 DEF StreamOK, SettlesEach
        <5>2. \A p \in Parts : snap.value[p] >= sent.value[p]
          BY <1>2, <2>1, <1>3 DEF VersionInv
        <5>3. (\A p \in Blocks : snap.value[p] >= sent.value[p]) /\ NoOlderRow(snap, sent)
          BY <5>2 DEF Blocks, Parts, NoOlderRow
        <5> QED BY <1>2, <2>1, <5>1, <5>3, AheadCompletes
      <4>2. FetchOK(snap, Coming, sent, merged, gone)
        BY <4>1 DEF FetchOK
      <4> QED BY <2>1, <3>3, <4>2 DEF StreamOK
    <3> QED BY <3>1, <3>2, <3>3
  <2> QED BY <1>1, <2>1, <2>2
<1>4. StreamInv'
  BY <1>3 DEF StreamInv
<1> QED BY <1>1, <1>4

\* The connection breaks: what was under way is gone.
LEMMA BreakFollows ==
    ASSUME TypeOK, AllOK(Coming), UNCHANGED <<queue, lastLive>>, wire' = <<>>, handler' = "none"
    PROVE  AllOK(Coming)' /\ StreamInv'
<1>1. FillsOf(<<>>, lastLive) = <<>>
  BY DEF FillsOf
<1>2. /\ Coming = queue \o FillsOf(wire, lastLive)
      /\ queue \in Seq(Messages) /\ FillsOf(wire, lastLive) \in Seq(Messages)
  BY ComingParts
<1>3. queue \o <<>> = queue
  BY <1>2
<1>4. Coming' = queue
  BY <1>1, <1>3, ComingNext
<1>5. AllOK(queue)
  BY <1>2, AllOKParts
<1> QED BY <1>4, <1>5 DEF StreamInv

\* flush of the queue over s, by a timer, on return to the page or with the answer of a fetch
LEMMA FlushFollows ==
    ASSUME TypeOK, VersionInv, AllOK(Coming), StreamInv, UNCHANGED <<wire, lastLive, handler, sent>>,
           NEW s \in Contents \cup {Nothing}, NEW missing \in Nat, Flush(s, queue, missing),
           \/ s = held /\ missing = gone /\ (fetch' = fetch \/ fetch' \notin Contents)
           \/ /\ s = fetch /\ fetch \in Contents /\ fetch' = Nothing
              /\ missing = 0 => merged <= VersionOf(fetch) /\ gone <= VersionOf(fetch)
    PROVE  AllOK(Coming)' /\ StreamInv'
<1> DEFINE rest == FillsOf(wire, lastLive)
<1>1. /\ Coming = queue \o rest
      /\ queue \in Seq(Messages) /\ rest \in Seq(Messages)
  BY ComingParts
<1>2. Coming' = queue' \o rest
  BY ComingNext
<1> HIDE DEF rest
<1>3. <<>> \in Seq(Messages) /\ <<>> \o (queue \o rest) = queue \o rest /\ queue \o rest \in Seq(Messages)
      /\ <<>> \o rest = rest
  BY <1>1, Parted
<1>4. AllOK(queue) /\ AllOK(rest)
  BY <1>1, AllOKParts
<1>5. queue' = queue \/ queue' = <<>>
  BY DEF Flush
<1>6. AllOK(Coming')
  BY <1>1, <1>2, <1>3, <1>4, <1>5
<1>7. merged \in Nat /\ gone \in Nat /\ Nothing \notin Contents
  BY BoundsAreNumbers, NothingApart DEF TypeOK, Versions
<1>8. ASSUME handler # "none", sent # Nothing PROVE StreamOK(Coming', held', fetch', sent, merged', gone')
  <2>1. sent \in Contents /\ StreamOK(Coming, held, fetch, sent, merged, gone)
    BY <1>8, SnapIsVersioned DEF StreamInv
  <2>2. SettlesEach(<<>> \o (queue \o rest), sent)
    BY <1>1, <1>3, <2>1 DEF StreamOK
  <2>3. ASSUME s \in Contents, missing = 0 PROVE Complete(s, queue \o rest, sent)
    <3>1. CASE s = held /\ missing = gone
      BY <1>1, <2>1, <2>3, <3>1 DEF StreamOK
    <3>2. CASE s = fetch /\ fetch \in Contents /\ merged <= VersionOf(fetch) /\ gone <= VersionOf(fetch)
      <4>1. FetchOK(fetch, Coming, sent, merged, gone)
        BY <2>1, <3>2 DEF StreamOK
      <4>2. Covered(fetch, <<>>, merged, gone)
        BY <3>2 DEF Covered
      <4> QED BY <1>1, <1>3, <3>2, <4>1, <4>2 DEF FetchOK
    <3> QED BY <2>3, <3>1, <3>2
  <2>4. ASSUME fetch' \in Contents
        PROVE  FetchOK(fetch', <<>> \o (queue \o rest), sent, merged, gone) /\ Drops(<<>>, gone, missing)
    <3>1. fetch' = fetch /\ missing = gone
      BY <1>7, <2>4
    <3> QED BY <1>1, <1>3, <2>1, <2>4, <3>1 DEF StreamOK, Drops
  <2>5. StreamOK(queue' \o rest, held', fetch', sent, merged', gone')
    BY <1>1, <1>3, <1>4, <1>7, <2>1, <2>2, <2>3, <2>4, FlushStream
  <2> QED BY <1>2, <2>5
<1>9. StreamInv'
  BY <1>8 DEF StreamInv
<1> QED BY <1>6, <1>9

\* handleMessage takes the first message from the stream.
LEMMA ReceiveParts ==
    ASSUME TypeOK, wire # <<>>
    PROVE  LET h == Fill(Head(wire))
               rest == FillsOf(Tail(wire), h.live)
           IN  /\ rest \in Seq(Messages)
               /\ LiveAt(wire, lastLive, Len(wire)) = LiveAt(Tail(wire), h.live, Len(Tail(wire)))
               /\ \E d \in Seq(Messages) : Coming = d \o (Batch \o rest) /\ Drops(d, gone, Missing)
<1> DEFINE h == Fill(Head(wire))
           rest == FillsOf(Tail(wire), h.live)
           all == Append(queue, h)
<1>1. /\ Coming = queue \o FillsOf(wire, lastLive)
      /\ queue \in Seq(Messages) /\ wire \in Seq(Messages) /\ lastLive \in LiveNow
  BY ComingParts
<1>2. /\ h \in Messages /\ h.live \in LiveNow
      /\ FillsOf(wire, lastLive) = <<h>> \o rest
      /\ LiveAt(wire, lastLive, Len(wire)) = LiveAt(Tail(wire), h.live, Len(Tail(wire)))
  BY <1>1, FillsHead, FillIs
<1>3. Tail(wire) \in Seq(Messages)
  BY <1>1
<1>4. rest \in Seq(Messages)
  BY <1>2, <1>3, FillsType
<1>5. gone \in Nat
  BY BoundsAreNumbers DEF TypeOK, Versions
<1>6. Batch = (IF Full(all) THEN Tail(all) ELSE all) /\ Missing = (IF Full(all) THEN Later(gone, Head(all).at) ELSE gone)
  BY DEF Batch, Missing
<1> HIDE DEF rest, h
<1>7. <<h>> \in Seq(Messages) /\ all = queue \o <<h>> /\ all \in Seq(Messages) /\ all # <<>>
  <2>1. queue \in Seq(Messages) /\ h \in Messages
    BY <1>1, <1>2
  <2> QED BY <2>1, AppendProperties, AppendIsConcat
<1>8. Coming = all \o rest
  BY <1>1, <1>2, <1>4, <1>7, ConcatAssociative
<1> HIDE DEF all
<1>9. CASE ~Full(all)
  <2>1. <<>> \in Seq(Messages) /\ <<>> \o (all \o rest) = all \o rest
    BY <1>4, <1>7, Parted
  <2>2. Drops(<<>>, gone, Missing)
    BY <1>6, <1>9 DEF Drops
  <2>3. Coming = <<>> \o (Batch \o rest)
    BY <1>6, <1>8, <1>9, <2>1
  <2> QED BY <1>2, <1>4, <2>1, <2>2, <2>3 DEF rest, h
<1>10. CASE Full(all)
  <2> DEFINE d == <<Head(all)>>
  <2>1. Head(all) \in Messages /\ Tail(all) \in Seq(Messages) /\ all = d \o Tail(all)
    BY <1>7
  <2>2. d \in Seq(Messages) /\ d # <<>> /\ Last(d) = Head(all)
    BY <2>1 DEF Last
  <2>3. Head(all).at \in Nat
    BY <2>1, BoundsAreNumbers DEF Messages, Versions
  <2> HIDE DEF d
  <2>4. Coming = d \o (Batch \o rest)
    <3>1. Batch = Tail(all)
      BY <1>6, <1>10
    <3>2. (d \o Tail(all)) \o rest = d \o (Tail(all) \o rest)
      BY <1>4, <2>1, <2>2, ConcatAssociative
    <3> QED BY <1>8, <2>1, <3>1, <3>2
  <2>5. Drops(d, gone, Missing)
    BY <1>5, <1>6, <1>10, <2>2, <2>3 DEF Drops, Later
  <2> QED BY <1>2, <1>4, <2>2, <2>4, <2>5 DEF rest, h
<1> QED BY <1>9, <1>10

LEMMA ReceiveFollows ==
    ASSUME TypeOK, VersionInv, AllOK(Coming), StreamInv, Receive
    PROVE  AllOK(Coming)' /\ StreamInv'
<1> DEFINE rest == FillsOf(wire', lastLive')
<1>1. /\ wire # <<>> /\ wire' = Tail(wire) /\ lastLive' = Fill(Head(wire)).live
      /\ UNCHANGED <<handler, sent, fetch>>
  BY DEF Receive, threadVars
<1>2. /\ Batch \in Seq(Messages) /\ Missing \in Nat
  BY <1>1, BatchType, BoundsAreNumbers DEF Versions
<1>3. /\ rest \in Seq(Messages)
      /\ LiveAt(wire, lastLive, Len(wire)) = LiveAt(wire', lastLive', Len(wire'))
  BY <1>1, ReceiveParts
<1>4. PICK d \in Seq(Messages) : Coming = d \o (Batch \o rest) /\ Drops(d, gone, Missing)
  BY <1>1, ReceiveParts
<1>5. \/ Flush(held, Batch, Missing)
      \/ queue' = Batch /\ gone' = Missing /\ UNCHANGED <<held, merged>>
  BY DEF Receive, Batch, Missing
<1>6. Coming' = queue' \o rest
  BY ComingNext
<1> HIDE DEF rest
<1>7. Batch \o rest \in Seq(Messages) /\ <<>> \o rest = rest
  BY <1>2, <1>3, Parted
<1>8. AllOK(d) /\ AllOK(Batch \o rest) /\ AllOK(Batch) /\ AllOK(rest)
  <2>1. AllOK(d) /\ AllOK(Batch \o rest)
    BY <1>4, <1>7, AllOKParts
  <2> QED BY <1>2, <1>3, <2>1, AllOKParts
<1>9. queue' = Batch \/ queue' = <<>>
  BY <1>5 DEF Flush
<1>10. AllOK(Coming')
  <2>2. CASE queue' = Batch
    BY <1>6, <1>8, <2>2
  <2>3. CASE queue' = <<>>
    BY <1>6, <1>7, <1>8, <2>3
  <2> QED BY <1>9, <2>2, <2>3
<1>11. merged \in Nat /\ gone \in Nat /\ held \in Contents \cup {Nothing}
  BY BoundsAreNumbers DEF TypeOK, Versions
<1>12. ASSUME handler # "none", sent # Nothing PROVE StreamOK(Coming', held', fetch', sent, merged', gone')
  <2>1. sent \in Contents /\ StreamOK(d \o (Batch \o rest), held, fetch, sent, merged, gone)
    BY <1>4, <1>12, SnapIsVersioned DEF StreamInv
  <2>2. StreamOK(Batch \o rest, held, fetch, sent, merged, Missing)
    BY <1>2, <1>4, <1>7, <1>8, <1>11, <2>1, StreamDrops
  <2>3. CASE queue' = Batch /\ gone' = Missing /\ UNCHANGED <<held, merged>>
    BY <1>1, <1>6, <2>2, <2>3
  <2>4. CASE Flush(held, Batch, Missing)
    <3>1. SettlesEach(d \o (Batch \o rest), sent)
      BY <2>1 DEF StreamOK
    <3>2. held \in Contents /\ Missing = 0 => Complete(held, Batch \o rest, sent)
      BY <2>2 DEF StreamOK
    <3>3. fetch' \in Contents => FetchOK(fetch', d \o (Batch \o rest), sent, merged, gone) /\ Drops(d, gone, Missing)
      BY <1>1, <1>4, <2>1 DEF StreamOK
    <3>4. StreamOK(queue' \o rest, held', fetch', sent, merged', gone')
      BY <1>2, <1>3, <1>8, <1>11, <2>1, <2>4, <3>1, <3>2, <3>3, FlushStream
    <3> QED BY <1>6, <3>4
  <2> QED BY <1>5, <2>3, <2>4
<1>13. StreamInv'
  BY <1>1, <1>3, <1>12 DEF StreamInv
<1> QED BY <1>10, <1>13

LEMMA FollowStep == FollowInv /\ SlotsInv /\ SlotsInv' /\ [LiveNext]_vars => FollowInv'
<1> SUFFICES ASSUME TypeOK, VersionInv, AllOK(Coming), StreamInv, SlotsInv, SlotsInv', [LiveNext]_vars PROVE FollowInv'
  BY DEF FollowInv
<1>a. TypeOK'
  BY TypeStep
<1>b. CASE UNCHANGED vars
  <2>1. UNCHANGED <<version, snap, sent, fetch, queue, wire, lastLive, held, merged, gone, handler>>
    BY <1>b DEF vars, serverVars, threadVars, linkVars, queueVars, viewVars
  <2>2. VersionInv'
    BY <2>1 DEF VersionInv
  <2>3. AllOK(Coming)' /\ StreamInv'
    BY <2>1, QuietFollows
  <2> QED BY <1>a, <2>2, <2>3 DEF FollowInv
<1> SUFFICES ASSUME LiveNext PROVE AllOK(Coming)' /\ StreamInv'
  BY <1>a, <1>b, VersionStep DEF FollowInv
<1>c. gone \in Nat /\ merged \in Nat /\ held \in Contents \cup {Nothing} /\ fetch \in {Nothing, Asked} \cup Contents
  BY BoundsAreNumbers DEF TypeOK, Versions
<1>d. Nothing \notin Contents /\ Asked \notin Contents
  BY NothingApart
<1> USE <1>d DEF threadVars, linkVars, queueVars, viewVars, serverVars
<1>1. CASE Publish
  BY <1>1, QuietFollows DEF Publish
<1>2. CASE ThreadStep
  <2>1. CASE WriteFirst \/ WriteNext
    <3>1. handler # "none" /\ Write
      BY <2>1 DEF WriteFirst, WriteNext
    <3>2. UNCHANGED <<version, snap, queue, lastLive, held, fetch, merged, gone>>
      BY <1>2 DEF ThreadStep
    <3> QED BY <1>a, <3>1, <3>2, WriteFollows
  <2>2. CASE ReadVersion \/ WakeUp \/ TimeOut
    <3>1. UNCHANGED <<queue, wire, lastLive, held, merged, gone, fetch, sent>> /\ handler # "none"
      BY <1>2, <2>2 DEF ThreadStep, ReadVersion, WakeUp, TimeOut
    <3> QED BY <3>1, QuietFollows
  <2> QED BY <1>2, <2>1, <2>2 DEF ThreadStep
<1>3. CASE LeftoverStep
  BY <1>3, QuietFollows DEF LeftoverStep, EndLeftover
<1>4. CASE LinkStep
  <2>1. UNCHANGED <<queue, wire, lastLive, held, merged, gone>>
    BY <1>4 DEF LinkStep, Connect, Reject, Retry
  <2>2. handler' # "none" /\ sent' # Nothing => handler # "none" /\ sent' = sent
    BY <1>4 DEF LinkStep, Connect, Reject, Retry
  <2>3. fetch' = fetch \/ fetch' \notin Contents
    BY <1>4 DEF LinkStep, Connect, Reject, Retry, Refresh
  <2> QED BY <2>1, <2>2, <2>3, QuietFollows
<1>5. ASSUME NEW heard \in BOOLEAN, Break(heard) PROVE AllOK(Coming)' /\ StreamInv'
  BY <1>5, BreakFollows DEF Break
<1>6. CASE Receive
  BY <1>6, ReceiveFollows
<1>7. CASE ApplyTimer
  <2>1. Flush(held, queue, gone) /\ UNCHANGED <<wire, lastLive, handler, sent, fetch>>
    BY <1>7 DEF ApplyTimer
  <2> QED BY <1>c, <2>1, FlushFollows
<1>8. CASE Show
  <2>1. Flush(held, queue, gone) /\ UNCHANGED <<wire, lastLive, handler, sent>>
    BY <1>8 DEF Show
  <2>2. fetch' = fetch \/ fetch' \notin Contents
    BY <1>8 DEF Show, Refresh
  <2> QED BY <1>c, <2>1, <2>2, FlushFollows
<1>9. CASE Answer
  <2> DEFINE missing == IF merged > VersionOf(fetch) THEN merged
                        ELSE IF gone > VersionOf(fetch) THEN gone ELSE 0
  <2>1. Flush(fetch, queue, missing) /\ fetch \in Contents /\ fetch' = Nothing
        /\ UNCHANGED <<wire, lastLive, handler, sent>>
    BY <1>9, <1>c DEF Answer
  <2>2. VersionOf(fetch) \in Nat
    BY <2>1, VersionIs
  <2>3. missing \in Nat /\ (missing = 0 => merged <= VersionOf(fetch) /\ gone <= VersionOf(fetch))
    BY <1>c, <2>2
  <2> HIDE DEF missing
  <2> QED BY <2>1, <2>3, FlushFollows
<1>10. CASE Serve
  <2>1. UNCHANGED <<queue, wire, lastLive, held, merged, gone, sent, handler>> /\ fetch' = snap
    BY <1>10 DEF Serve
  <2> QED BY <2>1, QuietFollows
<1>11. CASE FetchFails \/ RefetchTimer \/ StallTimer \/ Hide
  <2>1. UNCHANGED <<queue, wire, lastLive, held, merged, gone, sent, handler>>
    BY <1>11 DEF FetchFails, RefetchTimer, StallTimer, Hide
  <2>2. fetch' = fetch \/ fetch' \notin Contents
    BY <1>11 DEF FetchFails, RefetchTimer, StallTimer, Hide, Refresh
  <2> QED BY <2>1, <2>2, QuietFollows
<1> QED BY <1>1, <1>2, <1>3, <1>4, <1>5, <1>6, <1>7, <1>8, <1>9, <1>10, <1>11 DEF LiveNext, FetchStep

(* Whatever breaks, reconnects, waits or is fetched in between: what the   *)
(* page shows, with the messages that wait in it and those under way, has  *)
(* every change of the keys and blocks that the server takes for sent to   *)
(* it, and of the row, unless the page lost a message or does not hear of  *)
(* the row (useDashboard.js 31-103, selectors.js 23-74, web_server.py      *)
(* 483-541).                                                               *)
THEOREM StreamIsComplete == LiveSpec => []StreamCompletes
<1>1. LiveInit => FollowInv /\ SlotsInv
  BY FollowInit, SlotsInit
<1>2. FollowInv /\ SlotsInv /\ [LiveNext]_vars => (FollowInv /\ SlotsInv)'
  BY FollowStep, SlotsStep
<1>3. FollowInv => StreamCompletes
  <2> SUFFICES ASSUME TypeOK, StreamInv, handler # "none", sent # Nothing, held # Nothing, gone = 0
               PROVE  Complete(held, Coming, sent)
    BY DEF FollowInv, StreamCompletes, Complete
  <2>1. held \in Contents
    BY DEF TypeOK
  <2> QED BY <2>1 DEF StreamInv, StreamOK
<1> QED BY <1>1, <1>2, <1>3, PTL DEF LiveSpec

(* A page that has merged all that was sent shows the newest snapshot, if  *)
(* it lost nothing and the server has written the newest: only the         *)
(* messages bring it there (web_server.py 1269-1279).                      *)
THEOREM CaughtUpIsNewest ==
    LiveSpec => [](handler # "none" /\ sent = snap /\ held # Nothing /\ gone = 0 /\ Coming = <<>> => Newest)
<1>1. LiveInit => TypeOK /\ SlotsInv
  BY TypeInit, SlotsInit
<1>2. TypeOK /\ SlotsInv /\ [LiveNext]_vars => (TypeOK /\ SlotsInv)'
  BY TypeStep, SlotsStep
<1>3. TypeOK /\ StreamCompletes
        => (handler # "none" /\ sent = snap /\ held # Nothing /\ gone = 0 /\ Coming = <<>> => Newest)
  <2> SUFFICES ASSUME TypeOK, StreamCompletes, handler # "none", sent = snap, held # Nothing, gone = 0, Coming = <<>>
               PROVE  NoOlder(held, sent)
    BY DEF Newest
  <2>1. snap \in Contents /\ Nothing \notin Contents
    BY NothingApart DEF TypeOK
  <2>2. MergeBatch(held, Coming) = held /\ ~MissesRow(held, Coming)
    BY MergeNone, MissesNone
  <2> QED BY <2>1, <2>2 DEF StreamCompletes, NoOlder
<1> QED BY <1>1, <1>2, <1>3, StreamIsComplete, PTL DEF LiveSpec
=============================================================================
