------------------------- MODULE WriteBehindProofs -------------------------
(***************************************************************************)
(* What the write-behind path guarantees for any rows, any calls and any   *)
(* failures of the file: its variables keep their types, and a retried row *)
(* waits in one place only and is never waiting while it is in the file.   *)
(***************************************************************************)
EXTENDS WriteBehind, SequenceTheorems, FiniteSetTheorems, WellFoundedInduction, TLAPS

-----------------------------------------------------------------------------
(* Sequences of rows *)

\* what is put together from two sequences has their rows, each once if they share none
LEMMA Joined ==
  ASSUME NEW s \in Seq(Rows), NEW t \in Seq(Rows)
  PROVE  /\ s \o t \in Seq(Rows)
         /\ RowsOf(s \o t) = RowsOf(s) \cup RowsOf(t)
         /\ Injective(s) /\ Injective(t) /\ RowsOf(s) \cap RowsOf(t) = {} => Injective(s \o t)
<1>1. /\ s \o t \in Seq(Rows) /\ Len(s \o t) = Len(s) + Len(t)
      /\ \A i \in 1..(Len(s) + Len(t)) : (s \o t)[i] = IF i <= Len(s) THEN s[i] ELSE t[i - Len(s)]
  BY ConcatProperties
<1>2. Len(s) \in Nat /\ Len(t) \in Nat
  BY LenProperties
<1>3. RowsOf(s \o t) \subseteq RowsOf(s) \cup RowsOf(t)
  BY <1>1, <1>2 DEF RowsOf
<1>4. RowsOf(s) \subseteq RowsOf(s \o t)
  BY <1>1, <1>2 DEF RowsOf
<1>5. RowsOf(t) \subseteq RowsOf(s \o t)
  <2> SUFFICES ASSUME NEW i \in 1..Len(t) PROVE t[i] \in RowsOf(s \o t)
    BY DEF RowsOf
  <2>1. i + Len(s) \in 1..(Len(s) + Len(t)) /\ (s \o t)[i + Len(s)] = t[i]
    BY <1>1, <1>2
  <2> QED BY <2>1, <1>1 DEF RowsOf
<1>6. ASSUME Injective(s), Injective(t), RowsOf(s) \cap RowsOf(t) = {} PROVE Injective(s \o t)
  <2> SUFFICES ASSUME NEW i \in 1..Len(s \o t), NEW j \in 1..Len(s \o t), (s \o t)[i] = (s \o t)[j]
               PROVE  i = j
    BY DEF Injective
  <2>1. CASE i <= Len(s) /\ j <= Len(s)
    BY <1>1, <1>2, <1>6, <2>1 DEF Injective
  <2>2. CASE i > Len(s) /\ j > Len(s)
    <3>1. i - Len(s) \in 1..Len(t) /\ j - Len(s) \in 1..Len(t) /\ t[i - Len(s)] = t[j - Len(s)]
      BY <1>1, <1>2, <2>2
    <3> QED BY <1>2, <1>6, <2>2, <3>1 DEF Injective
  <2>3. CASE i <= Len(s) /\ j > Len(s)
    <3>1. i \in 1..Len(s) /\ j - Len(s) \in 1..Len(t) /\ s[i] = t[j - Len(s)]
      BY <1>1, <1>2, <2>3
    <3> QED BY <1>6, <3>1 DEF RowsOf
  <2>4. CASE i > Len(s) /\ j <= Len(s)
    <3>1. j \in 1..Len(s) /\ i - Len(s) \in 1..Len(t) /\ s[j] = t[i - Len(s)]
      BY <1>1, <1>2, <2>4
    <3> QED BY <1>6, <3>1 DEF RowsOf
  <2> QED BY <1>1, <1>2, <2>1, <2>2, <2>3, <2>4
<1> QED BY <1>1, <1>3, <1>4, <1>5, <1>6

\* cutting a buffer at the cap brings no row in and repeats none
LEMMA Cut ==
  ASSUME NEW s \in Seq(Rows)
  PROVE  /\ Newest(s) \in Seq(Rows)
         /\ RowsOf(Newest(s)) \subseteq RowsOf(s)
         /\ Injective(s) => Injective(Newest(s))
<1>1. Len(s) \in Nat /\ Cap \in Nat \ {0} /\ \A i \in 1..Len(s) : s[i] \in Rows
  BY BoundAssumption, LenProperties, ElementOfSeq
<1>2. CASE Len(s) <= Cap
  BY <1>1, <1>2 DEF Newest
<1>3. CASE Len(s) > Cap
  <2> DEFINE m == Len(s) - Cap + 1
  <2>1. m \in 1..Len(s) /\ Newest(s) = SubSeq(s, m, Len(s))
    BY <1>1, <1>3 DEF Newest
  <2>2. \A i \in m..Len(s) : s[i] \in Rows
    BY <1>1, <2>1
  <2> HIDE DEF m
  <2>3. /\ Newest(s) \in Seq(Rows) /\ Len(Newest(s)) = Len(s) - m + 1
        /\ \A i \in 1..(Len(s) - m + 1) : Newest(s)[i] = s[m + i - 1]
    BY <1>1, <2>1, <2>2, SubSeqProperties
  <2>4. \A i \in 1..Len(Newest(s)) : m + i - 1 \in 1..Len(s) /\ Newest(s)[i] = s[m + i - 1]
    BY <1>1, <2>1, <2>3
  <2>5. RowsOf(Newest(s)) \subseteq RowsOf(s)
    BY <2>4 DEF RowsOf
  <2>6. Injective(s) => Injective(Newest(s))
    <3> SUFFICES ASSUME Injective(s), NEW i \in 1..Len(Newest(s)), NEW j \in 1..Len(Newest(s)), Newest(s)[i] = Newest(s)[j]
                 PROVE  i = j
      BY DEF Injective
    <3>1. m + i - 1 = m + j - 1
      BY <2>4 DEF Injective
    <3> QED BY <1>1, <2>1, <2>3, <3>1
  <2> QED BY <2>3, <2>5, <2>6
<1> QED BY <1>1, <1>2, <1>3

\* a set of positions that is not empty has a last one
LEMMA LastPosition ==
  ASSUME NEW n \in Nat, NEW T \in SUBSET (1..n), T # {}
  PROVE  \E i \in T : \A j \in T : j <= i
<1> DEFINE U == {k \in Nat : n - k \in T}
           R == {ss \in Nat \X Nat : ss[1] < ss[2]}
<1>1. PICK t \in T : TRUE
  OBVIOUS
<1>2. n - t \in U
  OBVIOUS
<1>3. IsWellFoundedOn(R, Nat)
  BY NatLessThanWellFounded DEF OpToRel
<1>4. PICK k \in U : \A y \in U : <<y, k>> \notin R
  <2> HIDE DEF R
  <2>1. U \subseteq Nat /\ U # {}
    BY <1>2
  <2> HIDE DEF U
  <2> QED BY <1>3, <2>1, WFMin
<1>5. \A j \in T : j <= n - k
  <2> SUFFICES ASSUME NEW j \in T PROVE j <= n - k
    OBVIOUS
  <2>1. n - j \in U
    OBVIOUS
  <2>2. ~ (n - j < k)
    BY <1>4, <2>1
  <2> QED BY <2>2
<1> QED BY <1>4, <1>5

-----------------------------------------------------------------------------
(* What a flush writes *)

USE DEF Flushers, Conns

Txns == [open : BOOLEAN, rows : SUBSET Entries, covered : SUBSET Sessions]

\* a transaction of the file holds no row that waits, except those of the flush
\* that is writing it
TxnApart ==
  \A c \in Flushers :
    /\ Stored(txn[c].rows) \cap In(buf) = {}
    /\ \A f \in Flushers : Stored(txn[c].rows) \cap In(batch[f]) # {} => f = c /\ pc[c] = "write" /\ using[c] = c

\* the file is given up with the last strike
Counting == mode = "file" => strikes < Patience

\* no row is anywhere before it is appended
Known == /\ Pending \cup Stored(store["file"]) \subseteq RowsOf(arrived)
         /\ \A c \in Flushers : Stored(txn[c].rows) \subseteq RowsOf(arrived)

Once == RetriesOnce /\ TxnApart /\ Known

\* before close() the closing thread does not flush
Unclosed == closed \/ pc[Closer] = "idle"

LEMMA NextTableType ==
  ASSUME TypeOK, NEW f \in Flushers
  PROVE  NextTable(f) \in 0..6 /\ (NextTable(f) # 0 => Order[NextTable(f)] \in Tables)
<1> DEFINE left == {i \in 1..6 : i > at[f] /\ batch[f][Order[i]] # <<>>}
<1>1. CASE left = {}
  BY <1>1 DEF NextTable
<1>2. CASE left # {}
  <2>1. \E i \in left : \A j \in left : i <= j
    <3>1. PICK k \in left : TRUE
      BY <1>2
    <3> HIDE DEF left
    <3>2. left \subseteq 1..6
      BY DEF left
    <3> QED BY <1>2, <3>2
  <2>2. NextTable(f) \in left
    BY <1>2, <2>1 DEF NextTable
  <2> QED BY <2>2 DEF Tables
<1> QED BY <1>1, <1>2

LEMMA CachedType ==
  ASSUME TypeOK, NEW s \in Seq(Rows)
  PROVE  Cached(s) \in [Keys -> Levels \cup {Nothing}]
<1> SUFFICES ASSUME NEW k \in Keys PROVE Cached(s)[k] \in Levels \cup {Nothing}
  BY DEF Cached
<1> DEFINE mine == {i \in 1..Len(s) : TableOf[s[i]] = "process_snapshots" /\ KeyOf[s[i]] = k}
<1>1. CASE mine = {}
  BY <1>1 DEF Cached, TypeOK
<1>2. CASE mine # {}
  <2>1. Len(s) \in Nat /\ \A i \in 1..Len(s) : s[i] \in Rows
    BY LenProperties, ElementOfSeq
  <2>2. \E i \in mine : \A j \in mine : j <= i
    BY <1>2, <2>1, LastPosition
  <2>3. (CHOOSE i \in mine : \A j \in mine : j <= i) \in 1..Len(s)
    BY <2>2
  <2> QED BY <1>2, <2>1, <2>3 DEF Cached, Levels
<1> QED BY <1>1, <1>2

LEMMA EntryType ==
  ASSUME NEW s \in Seq(Rows), NEW i \in 1..Len(s)
  PROVE  Entry(s, i) \in Entries /\ Entry(s, i).row = s[i]
<1>1. s[i] \in Rows /\ Len(s) \in Nat
  BY LenProperties, ElementOfSeq
<1>2. SeqNo(s, i) \in Nat
  <2> DEFINE earlier == {j \in 1..(i - 1) : KeyOf[s[j]] = KeyOf[s[i]]}
  <2>1. IsFiniteSet(earlier)
    <3>1. i - 1 \in Int /\ earlier \in SUBSET (1..(i - 1))
      BY <1>1
    <3>2. IsFiniteSet(1..(i - 1))
      BY <3>1, FS_Interval
    <3> HIDE DEF earlier
    <3> QED BY <3>1, <3>2, FS_Subset
  <2>2. Cardinality(earlier) \in Nat
    BY <2>1, FS_CardinalityType
  <2> QED BY <2>2 DEF SeqNo
<1>3. TableOf[s[i]] \in Tables /\ KeyOf[s[i]] \in Keys
  BY <1>1, RowAssumption DEF Keys
<1> QED BY <1>1, <1>2, <1>3 DEF Entry, Entries

\* an insert brings in the chosen rows at most
LEMMA InsertedRows ==
  ASSUME NEW seen \in SUBSET Entries, NEW s \in Seq(Rows), NEW chosen \in SUBSET (1..Len(s))
  PROVE  /\ Inserted(seen, s, chosen) \in SUBSET Entries
         /\ Stored(Inserted(seen, s, chosen)) \subseteq Stored(seen) \cup RowsOf(s)
<1>1. \A e \in Inserted(seen, s, chosen) : e \in seen \/ \E i \in 1..Len(s) : e = Entry(s, i)
  BY DEF Inserted
<1> QED BY <1>1, EntryType DEF Stored, RowsOf

\* what a connection sees has the types of what is stored
LEMMA SeenType ==
  ASSUME TypeOK, NEW c \in Conns
  PROVE  /\ Seen(c) \in SUBSET Entries /\ SeenCovered(c) \in SUBSET Sessions
         /\ Stored(Seen(c)) \subseteq Stored(txn[c].rows) \cup Stored(store[Source(c)])
<1>1. Source(c) \in {"file", "memory"}
  BY DEF Source
<1> QED BY <1>1 DEF Seen, SeenCovered, TypeOK, Stored

LEMMA WrittenRows ==
  ASSUME TypeOK, NEW f \in Flushers, NextTable(f) # 0,
         NEW chosen \in SUBSET (1..Len(batch[f][Order[NextTable(f)]])), WriteRows(f, NextTable(f), chosen)
  PROVE  /\ txn' \in [Conns -> Txns]
         /\ cache' \in [Keys -> Levels \cup {Nothing}]
         /\ \A c \in Conns \ {using[f]} : txn'[c] = txn[c]
         /\ Stored(txn'[using[f]].rows) \subseteq
              Stored(txn[using[f]].rows) \cup Stored(store[Source(using[f])]) \cup In(batch[f])
<1> DEFINE i == NextTable(f)
           s == batch[f][Order[i]]
           c == using[f]
           seen == Seen(c)
<1>1. Order[i] \in Tables /\ s \in Seq(Rows) /\ c \in Conns
  BY NextTableType DEF TypeOK
<1>2. seen \in SUBSET Entries
  BY <1>1, SeenType
<1>3. cache' \in [Keys -> Levels \cup {Nothing}]
  BY <1>1, CachedType DEF WriteRows, TypeOK
<1>4. /\ txn' = IF chosen = {} THEN txn
                ELSE [txn EXCEPT ![c] = [@ EXCEPT !.open = TRUE, !.rows = Inserted(seen, s, chosen)]]
  BY DEF WriteRows
<1>5. /\ Inserted(seen, s, chosen) \in SUBSET Entries
      /\ Stored(Inserted(seen, s, chosen)) \subseteq Stored(seen) \cup RowsOf(s)
  BY <1>1, <1>2, InsertedRows
<1>6. RowsOf(s) \subseteq In(batch[f])
  BY <1>1 DEF In
<1>7. Stored(seen) \subseteq Stored(txn[c].rows) \cup Stored(store[Source(c)])
  BY <1>1, SeenType
<1> HIDE DEF i, s, c, seen
<1>8. CASE chosen = {}
  BY <1>1, <1>3, <1>4, <1>8 DEF TypeOK, Txns, c
<1>9. CASE chosen # {}
  <2> DEFINE new == [txn[c] EXCEPT !.open = TRUE, !.rows = Inserted(seen, s, chosen)]
  <2>0. txn \in [Conns -> Txns]
    BY DEF TypeOK, Txns
  <2>1. new \in Txns /\ new.rows = Inserted(seen, s, chosen) /\ txn' = [txn EXCEPT ![c] = new]
    BY <1>1, <1>4, <1>5, <1>9, <2>0 DEF Txns
  <2> HIDE DEF new
  <2>2. txn' \in [Conns -> Txns] /\ txn'[c].rows = Inserted(seen, s, chosen)
    BY <1>1, <2>0, <2>1
  <2>3. \A d \in Conns \ {c} : txn'[d] = txn[d]
    BY <1>4, <1>9 DEF TypeOK
  <2> QED BY <1>3, <1>5, <1>6, <1>7, <2>2, <2>3 DEF c
<1> QED BY <1>8, <1>9
-----------------------------------------------------------------------------
(* Type correctness *)

USE DEF flushVars, fileVars, modeVars, restVars, transcriptVars, Places, Txns

LEMMA EmptyType == Empty \in [Tables -> Seq(Rows)] /\ In(Empty) = {} /\ \A t \in Tables : Injective(Empty[t])
<1>1. Empty \in [Tables -> Seq(Rows)]
  BY EmptySeq DEF Empty
<1>2. \A t \in Tables : Len(Empty[t]) = 0
  BY EmptySeq DEF Empty
<1> QED BY <1>1, <1>2 DEF In, RowsOf, Injective

LEMMA EndedType == Ended \in Txns /\ Stored(Ended.rows) = {}
BY DEF Ended, Stored

LEMMA SourceType == \A c \in Conns : Source(c) \in {"file", "memory"}
BY DEF Source

LEMMA InitType == WriteBehindInit => TypeOK
<1> SUFFICES ASSUME WriteBehindInit PROVE TypeOK
  OBVIOUS
<1> USE DEF WriteBehindInit
<1>1. buf \in [Tables -> Seq(Rows)] /\ batch \in [Flushers -> [Tables -> Seq(Rows)]]
  BY EmptyType
<1>2. txn \in [Conns -> Txns]
  BY EndedType
<1>3. arrived \in Seq(Rows)
  BY EmptySeq
<1>4. strikes \in 0..Patience /\ outages \in 0..MaxOutages
  BY BoundAssumption
<1>5. cache \in [Keys -> Levels \cup {Nothing}] /\ connected \subseteq Flushers
  BY ThreadAssumption
<1>6. /\ pc \in [Flushers -> Places] /\ at \in [Flushers -> 0..6] /\ known \in [Flushers -> SUBSET SUBSET Sessions]
      /\ using \in [Flushers -> Conns] /\ \A f \in Flushers : using[f] \in {f, Shared}
  OBVIOUS
<1>7. /\ store \in [{"file", "memory"} -> SUBSET Entries]
      /\ transcripts \in [{"file", "memory"} -> SUBSET Sessions]
  OBVIOUS
<1> QED BY <1>1, <1>2, <1>3, <1>4, <1>5, <1>6, <1>7 DEF TypeOK

LEMMA AppendType == ASSUME TypeOK, NEW c \in Calls, AppendRows(c) PROVE TypeOK'
<1>1. c \in Seq(Rows)
  BY RowAssumption
<1>2. buf' \in [Tables -> Seq(Rows)] /\ arrived' \in Seq(Rows)
  BY <1>1, Joined DEF AppendRows, TypeOK
<1> QED BY <1>2 DEF AppendRows, TypeOK

LEMMA TornType == ASSUME TypeOK, Tear PROVE torn' \subseteq Keys
<1>1. \A f \in Flushers : In(batch[f]) \subseteq Rows
  BY ElementOfSeq DEF In, RowsOf, TypeOK
<1> QED BY <1>1 DEF Tear, TypeOK, Keys

LEMMA TranscriptType == ASSUME TypeOK, NEW s \in Sessions, TranscriptStep(s) PROVE TypeOK'
<1>1. CASE TranscriptWrite(s)
  BY <1>1 DEF TranscriptWrite, WithoutSuperseded, TypeOK
<1>2. CASE TranscriptUpsert(s)
  <2>1. Seen(Shared) \in SUBSET Entries
    BY SeenType
  <2> QED BY <1>2, <2>1 DEF TranscriptUpsert, TypeOK
<1>3. CASE TranscriptCommit(s)
  <2>1. /\ WithoutSuperseded(Seen(Shared), s) \in SUBSET Entries /\ SeenCovered(Shared) \in SUBSET Sessions
        /\ Ended \in Txns
    BY SeenType, EndedType DEF WithoutSuperseded
  <2>2. torn' \subseteq Keys
    BY <1>3, TornType DEF TranscriptCommit
  <2> QED BY <1>3, <2>1, <2>2 DEF TranscriptCommit, TypeOK
<1>4. CASE TranscriptFails(s)
  <2>1. torn' \subseteq Keys /\ Ended \in Txns /\ outages' \in 0..MaxOutages
    BY <1>4, TornType, EndedType, BoundAssumption DEF TranscriptFails, TypeOK
  <2> QED BY <1>4, <2>1 DEF TranscriptFails, TypeOK
<1> QED BY <1>1, <1>2, <1>3, <1>4 DEF TranscriptStep

\* The write of a transcript leaves the flushing threads and their connections to the file alone;
\* from the file it only takes rows away, while nothing is open on it
LEMMA TranscriptFrame ==
  ASSUME TypeOK, NEW s \in Sessions, TranscriptStep(s)
  PROVE  /\ UNCHANGED <<flushVars, buf, arrived, dropped, mode, strikes, closed>>
         /\ \A c \in Flushers : txn'[c] = txn[c]
         /\ store'["file"] \subseteq store["file"]
         /\ store'["file"] = store["file"] \/ \A c \in Flushers : ~txn[c].open
<1>1. CASE TranscriptWrite(s)
  BY <1>1 DEF TranscriptWrite, WithoutSuperseded, TypeOK
<1>2. CASE TranscriptUpsert(s)
  BY <1>2, ThreadAssumption DEF TranscriptUpsert, TypeOK
<1>3. CASE TranscriptCommit(s)
  BY <1>3, ThreadAssumption DEF TranscriptCommit, TypeOK
<1>4. CASE TranscriptFails(s)
  BY <1>4, ThreadAssumption DEF TranscriptFails, TypeOK
<1> QED BY <1>1, <1>2, <1>3, <1>4 DEF TranscriptStep

LEMMA SwapType == ASSUME TypeOK, NEW f \in Flushers, Swap(f) PROVE TypeOK'
<1>1. /\ buf' \in [Tables -> Seq(Rows)] /\ batch' \in [Flushers -> [Tables -> Seq(Rows)]]
      /\ pc' \in [Flushers -> Places] /\ failed' \in {"none", "locked", "broken", "full", "other"}
  BY EmptyType DEF Swap, Goto, TypeOK
<1> QED BY <1>1 DEF Swap, TypeOK

LEMMA ConnectType == ASSUME TypeOK, NEW f \in Flushers, Connect(f) \/ ConnectFails(f) \/ ReadCovered(f) PROVE TypeOK'
<1>1. CASE Connect(f)
  <2>1. /\ using' \in [Flushers -> Conns] /\ \A g \in Flushers : using'[g] \in {g, Shared}
        /\ connected' \subseteq Flushers /\ pc' \in [Flushers -> Places]
        /\ at' \in [Flushers -> 0..6] /\ known' \in [Flushers -> SUBSET SUBSET Sessions]
    BY <1>1 DEF Connect, Goto, TypeOK
  <2> QED BY <1>1, <2>1 DEF Connect, TypeOK
<1>2. CASE ConnectFails(f)
  <2>1. batch' \in [Flushers -> [Tables -> Seq(Rows)]] /\ pc' \in [Flushers -> Places]
    BY <1>2, EmptyType DEF ConnectFails, Goto, TypeOK
  <2> QED BY <1>2, <2>1 DEF ConnectFails, TypeOK
<1>3. CASE ReadCovered(f)
  <2>1. known' \in [Flushers -> SUBSET SUBSET Sessions]
    <3>1. SeenCovered(using[f]) \in SUBSET Sessions
      BY SeenType DEF TypeOK
    <3> QED BY <1>3, <3>1 DEF ReadCovered, TypeOK
  <2> QED BY <1>3, <2>1 DEF ReadCovered, TypeOK
<1> QED BY <1>1, <1>2, <1>3

LEMMA InsertType == ASSUME TypeOK, NEW f \in Flushers, Insert(f) \/ RowRaises(f) PROVE TypeOK'
<1>1. CASE Insert(f)
  <2>1. NextTable(f) # 0 /\ NextTable(f) \in 0..6
    BY <1>1, NextTableType DEF Insert, Inserting
  <2>2. Chosen(f, batch[f][Order[NextTable(f)]]) \in SUBSET (1..Len(batch[f][Order[NextTable(f)]]))
    BY DEF Chosen
  <2>3. txn' \in [Conns -> Txns] /\ cache' \in [Keys -> Levels \cup {Nothing}]
    BY <1>1, <2>1, <2>2, WrittenRows DEF Insert
  <2>4. at' \in [Flushers -> 0..6]
    BY <1>1, <2>1 DEF Insert, TypeOK
  <2> QED BY <1>1, <2>3, <2>4 DEF Insert, TypeOK
<1>2. CASE RowRaises(f)
  <2>1. NextTable(f) # 0
    BY <1>2 DEF RowRaises, Inserting
  <2>2. PICK j : WriteRows(f, NextTable(f), {k \in Chosen(f, batch[f][Order[NextTable(f)]]) : k < j})
    BY <1>2 DEF RowRaises
  <2>3. {k \in Chosen(f, batch[f][Order[NextTable(f)]]) : k < j} \in SUBSET (1..Len(batch[f][Order[NextTable(f)]]))
    BY DEF Chosen
  <2>4. txn' \in [Conns -> Txns] /\ cache' \in [Keys -> Levels \cup {Nothing}]
    BY <2>1, <2>2, <2>3, WrittenRows
  <2>5. batch' \in [Flushers -> [Tables -> Seq(Rows)]] /\ pc' \in [Flushers -> Places]
    BY <1>2, EmptyType DEF RowRaises, Goto, TypeOK
  <2> QED BY <1>2, <2>4, <2>5 DEF RowRaises, TypeOK
<1> QED BY <1>1, <1>2

LEMMA EndType == ASSUME TypeOK, NEW f \in Flushers, Commit(f) \/ SqlFails(f) \/ Rebuffer(f) PROVE TypeOK'
<1>1. CASE Commit(f)
  <2>1. /\ batch' \in [Flushers -> [Tables -> Seq(Rows)]] /\ pc' \in [Flushers -> Places]
        /\ txn' \in [Conns -> Txns]
    BY <1>1, EmptyType, EndedType DEF Commit, Goto, TypeOK
  <2>2. /\ store' \in [{"file", "memory"} -> SUBSET Entries]
        /\ transcripts' \in [{"file", "memory"} -> SUBSET Sessions]
    <3>1. Seen(using[f]) \in SUBSET Entries /\ SeenCovered(using[f]) \in SUBSET Sessions
      BY SeenType DEF TypeOK
    <3> QED BY <1>1, <3>1 DEF Commit, TypeOK
  <2> QED BY <1>1, <2>1, <2>2 DEF Commit, TypeOK
<1>2. CASE SqlFails(f)
  <2>1. /\ pc' \in [Flushers -> Places]
        /\ txn' \in [Conns -> Txns]
    BY <1>2, EndedType DEF SqlFails, Goto, TypeOK
  <2>2. failed' \in {"none", "locked", "broken", "full", "other"} /\ outages' \in 0..MaxOutages
    BY <1>2, BoundAssumption DEF SqlFails, Refused, TypeOK
  <2>3. cache' \in [Keys -> Levels \cup {Nothing}]
    <3>1. Order[2] \in Tables
      BY DEF Tables
    <3>2. batch[f][Order[2]] \in Seq(Rows)
      BY <3>1 DEF TypeOK
    <3> QED BY <1>2, <3>2, CachedType DEF SqlFails, TypeOK
  <2> QED BY <1>2, <2>1, <2>2, <2>3 DEF SqlFails, TypeOK
<1>3. CASE Rebuffer(f)
  <2>1. buf' \in [Tables -> Seq(Rows)]
    <3>1. \A t \in Tables : batch[f][t] \in Seq(Rows) /\ buf[t] \in Seq(Rows)
      BY DEF TypeOK
    <3>2. \A t \in Tables : Newest(batch[f][t] \o buf[t]) \in Seq(Rows)
      BY <3>1, Joined, Cut
    <3> QED BY <1>3, <3>2 DEF Rebuffer
  <2>2. In(buf) \subseteq Rows /\ In(batch[f]) \subseteq Rows
    BY ElementOfSeq DEF In, RowsOf, TypeOK
  <2>3. /\ batch' \in [Flushers -> [Tables -> Seq(Rows)]] /\ pc' \in [Flushers -> Places]
        /\ dropped' \subseteq Rows
    BY <1>3, <2>2, EmptyType DEF Rebuffer, Goto, TypeOK
  <2> QED BY <1>3, <2>1, <2>3 DEF Rebuffer, TypeOK
<1> QED BY <1>1, <1>2, <1>3

LEMMA LoopType == ASSUME TypeOK, Counting, Settle \/ Close \/ CloseReturns \/ DiskChanges PROVE TypeOK' /\ Counting'
<1>1. CASE Settle
  <2>1. pc' \in [Flushers -> Places] /\ strikes' \in 0..Patience /\ mode' \in {"file", "memory"} /\ Counting'
    <3>1. pc' \in [Flushers -> Places]
      BY <1>1 DEF Settle, Goto, TypeOK
    <3>2. strikes' \in 0..Patience /\ mode' \in {"file", "memory"} /\ Counting'
      <4>1. CASE failed = "none"
        BY <1>1, <4>1, BoundAssumption DEF Settle, TypeOK, Counting
      <4>2. CASE failed # "none"
        <5>1. NoteFlushError
          BY <1>1, <4>2 DEF Settle
        <5>2. CASE UNCHANGED strikes
          BY <5>1, <5>2, BoundAssumption DEF NoteFlushError, TypeOK, Counting
        <5>3. CASE strikes' = strikes + 1
          BY <5>1, <5>3, BoundAssumption DEF NoteFlushError, TypeOK, Counting
        <5> QED BY <5>1, <5>2, <5>3 DEF NoteFlushError
      <4> QED BY <4>1, <4>2
    <3> QED BY <3>1, <3>2
  <2>2. /\ txn' \in [Conns -> Txns]
        /\ store' \in [{"file", "memory"} -> SUBSET Entries]
        /\ transcripts' \in [{"file", "memory"} -> SUBSET Sessions]
    <3>1. UNCHANGED <<fileVars, txn>> \/ Evict
      BY <1>1 DEF Settle, NoteFlushError
    <3>2. CASE Evict /\ ~ UNCHANGED <<fileVars, txn>>
      <4>1. PICK gone \in (SUBSET Seen(Shared)) \ {{}} :
              /\ store' = [store EXCEPT !["memory"] = Seen(Shared) \ gone]
              /\ transcripts' = [transcripts EXCEPT !["memory"] = SeenCovered(Shared)]
              /\ txn' = [txn EXCEPT ![Shared] = Ended]
        BY <3>2 DEF Evict
      <4>2. Seen(Shared) \in SUBSET Entries /\ SeenCovered(Shared) \in SUBSET Sessions
        BY SeenType
      <4> QED BY <4>1, <4>2, EndedType DEF TypeOK
    <3> QED BY <3>1, <3>2 DEF TypeOK
  <2> QED BY <1>1, <2>1, <2>2 DEF Settle, TypeOK
<1>2. CASE Close
  BY <1>2 DEF Close, Goto, TypeOK, Counting
<1>3. CASE CloseReturns
  BY <1>3 DEF CloseReturns, Goto, TypeOK, Counting
<1>4. CASE DiskChanges
  BY <1>4, BoundAssumption DEF DiskChanges, TypeOK, Counting
<1> QED BY <1>1, <1>2, <1>3, <1>4

LEMMA TypeKept == TypeOK /\ Counting /\ [WriteBehindNext]_vars => TypeOK' /\ Counting'
<1> SUFFICES ASSUME TypeOK, Counting, [WriteBehindNext]_vars PROVE TypeOK' /\ Counting'
  OBVIOUS
<1>1. ASSUME NEW f \in Flushers, FlushStep(f) PROVE TypeOK' /\ Counting'
  <2>1. TypeOK'
    BY <1>1, SwapType, ConnectType, InsertType, EndType DEF FlushStep
  <2>2. UNCHANGED <<mode, strikes>>
    BY <1>1 DEF FlushStep, Swap, Connect, ConnectFails, ReadCovered, Insert, RowRaises, Commit, SqlFails, Rebuffer
  <2> QED BY <2>1, <2>2 DEF Counting
<1>2. CASE UNCHANGED vars
  BY <1>2 DEF vars, TypeOK, Counting
<1>3. ASSUME NEW c \in Calls, AppendRows(c) PROVE TypeOK' /\ Counting'
  BY <1>3, AppendType DEF AppendRows, Counting
<1>4. ASSUME NEW s \in Sessions, TranscriptStep(s) PROVE TypeOK' /\ Counting'
  BY <1>4, TranscriptType, TranscriptFrame DEF Counting
<1> QED BY <1>1, <1>2, <1>3, <1>4, LoopType DEF WriteBehindNext

\* Through every step of the flush thread, of close and of the file, each variable keeps its type
THEOREM FlushTypeCorrect == WriteBehindSpec => []TypeOK
<1>1. WriteBehindInit => Counting
  BY BoundAssumption DEF WriteBehindInit, Counting
<1> QED BY <1>1, InitType, TypeKept, PTL DEF WriteBehindSpec
-----------------------------------------------------------------------------
(* Every row waits once *)

LEMMA Emptied ==
  ASSUME TypeOK, NEW f \in Flushers, batch' = [batch EXCEPT ![f] = Empty]
  PROVE  /\ In(batch'[f]) = {} /\ \A t \in Tables : Injective(batch'[f][t])
         /\ \A g \in Flushers \ {f} : batch'[g] = batch[g]
BY EmptyType DEF TypeOK

\* Steps that append nothing, move no row between buffers and batches and add
\* nothing to the file or to its transactions
LEMMA QuietSteps ==
  ASSUME TypeOK, Once, NEW f \in Flushers, UNCHANGED <<buf, arrived>>,
         batch' = batch \/ batch' = [batch EXCEPT ![f] = Empty],
         \A g \in Flushers \ {f} : pc'[g] = pc[g] /\ using'[g] = using[g],
         Stored(store'["file"]) \subseteq Stored(store["file"]),
         \A c \in Flushers : Stored(txn'[c].rows) \subseteq Stored(txn[c].rows),
         \/ pc'[f] = pc[f] /\ using'[f] = using[f]
         \/ Stored(txn'[f].rows) \cap In(batch'[f]) = {}
  PROVE  Once'
<1>1. \A g \in Flushers : /\ In(batch'[g]) \subseteq In(batch[g])
                          /\ \A t \in Tables : Injective(batch'[g][t])
  BY Emptied DEF Once, RetriesOnce
<1>2. Pending' \subseteq Pending
  BY <1>1 DEF Pending
<1>3. RetriesOnce'
  BY <1>1, <1>2 DEF Once, RetriesOnce
<1>4. TxnApart'
  <2> SUFFICES ASSUME NEW c \in Flushers, NEW g \in Flushers
               PROVE  /\ Stored(txn'[c].rows) \cap In(buf') = {}
                      /\ Stored(txn'[c].rows) \cap In(batch'[g]) # {} => g = c /\ pc'[c] = "write" /\ using'[c] = c
    BY DEF TxnApart
  <2> QED BY <1>1 DEF Once, TxnApart
<1>5. Known'
  BY <1>2 DEF Once, Known
<1> QED BY <1>3, <1>4, <1>5 DEF Once

LEMMA AppendOnce == ASSUME TypeOK, Once, NEW c \in Calls, AppendRows(c) PROVE Once'
<1>1. c \in Seq(Rows) /\ Injective(c) /\ RowsOf(c) \cap RowsOf(arrived) = {}
  BY RowAssumption DEF AppendRows
<1>2. RowsOf(arrived') = RowsOf(arrived) \cup RowsOf(c)
  BY <1>1, Joined DEF AppendRows, TypeOK
<1>3. \A t \in Tables : buf[t] \in Seq(Rows) /\ RowsOf(buf[t]) \subseteq Pending /\ Injective(buf[t])
  BY DEF TypeOK, Once, RetriesOnce, Pending, In
<1>4. Pending \cup Stored(store["file"]) \subseteq RowsOf(arrived)
  BY DEF Once, Known
<1>5. \A t \in Tables : Injective(buf'[t]) /\ RowsOf(buf'[t]) \subseteq RowsOf(buf[t]) \cup RowsOf(c)
  <2> SUFFICES ASSUME NEW t \in Tables PROVE Injective(buf'[t]) /\ RowsOf(buf'[t]) \subseteq RowsOf(buf[t]) \cup RowsOf(c)
    OBVIOUS
  <2>1. Injective(buf[t] \o c) /\ RowsOf(buf[t] \o c) = RowsOf(buf[t]) \cup RowsOf(c)
    BY <1>1, <1>3, <1>4, Joined
  <2>2. buf'[t] = buf[t] \o c \/ buf'[t] = buf[t]
    BY DEF AppendRows
  <2> QED BY <1>3, <2>1, <2>2
<1>6. In(buf') \subseteq In(buf) \cup RowsOf(c)
  BY <1>5 DEF In
<1>7. UNCHANGED <<batch, pc, using, store, txn>>
  BY DEF AppendRows
<1>8. Pending' \subseteq Pending \cup RowsOf(c)
  BY <1>6, <1>7 DEF Pending
<1>9. \A f \in Flushers : In(batch[f]) \cap RowsOf(c) = {} /\ Stored(txn[f].rows) \cap RowsOf(c) = {}
  BY <1>1, <1>4 DEF Pending, Once, Known
<1>10. RetriesOnce'
  BY <1>1, <1>4, <1>5, <1>6, <1>7, <1>8, <1>9 DEF Once, RetriesOnce
<1>11. TxnApart'
  BY <1>6, <1>7, <1>9 DEF Once, TxnApart
<1>12. Known'
  BY <1>2, <1>7, <1>8 DEF Once, Known
<1> QED BY <1>10, <1>11, <1>12 DEF Once

LEMMA SwapOnce == ASSUME TypeOK, Once, NEW f \in Flushers, Swap(f) PROVE Once'
<1>1. /\ In(buf') = {} /\ \A t \in Tables : Injective(buf'[t])
      /\ batch'[f] = buf /\ \A g \in Flushers \ {f} : batch'[g] = batch[g] /\ pc'[g] = pc[g]
  BY EmptyType DEF Swap, Goto, TypeOK
<1>2. UNCHANGED <<using, store, txn, arrived>>
  BY DEF Swap
<1>3. Pending' \subseteq Pending
  BY <1>1 DEF Pending
<1>4. RetriesOnce'
  <2>1. \A t \in Tables : \A g \in Flushers : Injective(batch'[g][t])
    BY <1>1 DEF Once, RetriesOnce
  <2>2. In(batch'[Loop]) \cap In(batch'[Closer]) = {}
    BY <1>1, ThreadAssumption DEF Once, RetriesOnce
  <2> QED BY <1>1, <1>2, <1>3, <2>1, <2>2 DEF Once, RetriesOnce
<1>5. TxnApart'
  <2> SUFFICES ASSUME NEW c \in Flushers, NEW g \in Flushers, Stored(txn[c].rows) \cap In(batch'[g]) # {}
               PROVE  g = c /\ pc'[c] = "write" /\ using[c] = c
    BY <1>1, <1>2 DEF TxnApart
  <2> QED BY <1>1 DEF Once, TxnApart
<1>6. Known'
  BY <1>2, <1>3 DEF Once, Known
<1> QED BY <1>4, <1>5, <1>6 DEF Once

\* What an insert brings into a transaction of the file waits in the batch of
\* the flush that writes it, and nowhere else
LEMMA WriteOnce ==
  ASSUME TypeOK, Once, NEW f \in Flushers, pc[f] = "write", NextTable(f) # 0,
         NEW chosen \in SUBSET (1..Len(batch[f][Order[NextTable(f)]])), WriteRows(f, NextTable(f), chosen)
  PROVE  \A c \in Flushers :
           /\ Stored(txn'[c].rows) \cap In(buf) = {}
           /\ \A g \in Flushers : Stored(txn'[c].rows) \cap In(batch[g]) # {} => g = c /\ pc[c] = "write" /\ using[c] = c
           /\ Stored(txn'[c].rows) \subseteq RowsOf(arrived)
<1> SUFFICES ASSUME NEW c \in Flushers
             PROVE  /\ Stored(txn'[c].rows) \cap In(buf) = {}
                    /\ \A g \in Flushers : Stored(txn'[c].rows) \cap In(batch[g]) # {} => g = c /\ pc[c] = "write" /\ using[c] = c
                    /\ Stored(txn'[c].rows) \subseteq RowsOf(arrived)
  OBVIOUS
<1>1. CASE c # using[f]
  <2>1. txn'[c] = txn[c]
    BY <1>1, WrittenRows
  <2> QED BY <2>1 DEF Once, TxnApart, Known
<1>2. CASE c = using[f]
  <2>1. c = f /\ c # Shared
    BY <1>2, ThreadAssumption DEF TypeOK
  <2>2. Stored(txn'[c].rows) \subseteq Stored(txn[c].rows) \cup Stored(store["file"]) \cup In(batch[c])
    BY <1>2, <2>1, WrittenRows DEF Source
  <2>3. /\ Stored(txn[c].rows) \cap In(buf) = {} /\ Stored(store["file"]) \cap In(buf) = {} /\ In(batch[c]) \cap In(buf) = {}
        /\ \A g \in Flushers : Stored(store["file"]) \cap In(batch[g]) = {}
        /\ \A g \in Flushers \ {c} : Stored(txn[c].rows) \cap In(batch[g]) = {} /\ In(batch[c]) \cap In(batch[g]) = {}
    BY DEF Once, TxnApart, RetriesOnce, Pending
  <2>4. In(batch[c]) \cup Stored(txn[c].rows) \cup Stored(store["file"]) \subseteq RowsOf(arrived)
    BY DEF Once, Known, Pending
  <2> QED BY <1>2, <2>1, <2>2, <2>3, <2>4
<1> QED BY <1>1, <1>2

LEMMA InsertOnce == ASSUME TypeOK, Once, NEW f \in Flushers, Insert(f) \/ RowRaises(f) PROVE Once'
<1>1. pc[f] = "write" /\ NextTable(f) # 0
  BY DEF Insert, RowRaises, Inserting
<1>2. PICK chosen \in SUBSET (1..Len(batch[f][Order[NextTable(f)]])) : WriteRows(f, NextTable(f), chosen)
  BY DEF Insert, RowRaises, Chosen
<1>3. \A c \in Flushers :
        /\ Stored(txn'[c].rows) \cap In(buf) = {}
        /\ \A g \in Flushers : Stored(txn'[c].rows) \cap In(batch[g]) # {} => g = c /\ pc[c] = "write" /\ using[c] = c
        /\ Stored(txn'[c].rows) \subseteq RowsOf(arrived)
  BY <1>1, <1>2, WriteOnce
<1>4. UNCHANGED <<buf, arrived, store, using>>
  BY DEF Insert, RowRaises
<1>5. \/ UNCHANGED <<batch, pc>>
      \/ batch' = [batch EXCEPT ![f] = Empty] /\ \A g \in Flushers \ {f} : pc'[g] = pc[g]
  BY DEF Insert, RowRaises, Goto, TypeOK
<1>6. \A g \in Flushers : /\ In(batch'[g]) \subseteq In(batch[g])
                          /\ \A t \in Tables : Injective(batch'[g][t])
  BY <1>5, Emptied DEF Once, RetriesOnce
<1>7. Pending' \subseteq Pending
  BY <1>4, <1>6 DEF Pending
<1>8. RetriesOnce'
  BY <1>4, <1>6, <1>7 DEF Once, RetriesOnce
<1>9. TxnApart'
  <2> SUFFICES ASSUME NEW c \in Flushers, NEW g \in Flushers, Stored(txn'[c].rows) \cap In(batch'[g]) # {}
               PROVE  g = c /\ pc'[c] = "write" /\ using'[c] = c
    BY <1>3, <1>4 DEF TxnApart
  <2>1. g = c /\ pc[c] = "write" /\ using[c] = c
    BY <1>3, <1>6
  <2>2. pc'[c] = pc[c]
    BY <1>5, Emptied, <2>1
  <2> QED BY <1>4, <2>1, <2>2
<1>10. Known'
  BY <1>3, <1>4, <1>7 DEF Once, Known
<1> QED BY <1>8, <1>9, <1>10 DEF Once

LEMMA CommitOnce == ASSUME TypeOK, Once, NEW f \in Flushers, Commit(f) PROVE Once'
<1> DEFINE c == using[f]
<1>1. /\ In(batch'[f]) = {} /\ \A t \in Tables : Injective(batch'[f][t])
      /\ \A g \in Flushers \ {f} : batch'[g] = batch[g] /\ pc'[g] = pc[g]
  BY Emptied DEF Commit, Goto, TypeOK
<1>2. UNCHANGED <<buf, arrived, using>>
  BY DEF Commit
<1>3. c \in {f, Shared} /\ c \in Conns
  BY DEF TypeOK
<1>4. /\ Stored(txn'[c].rows) = {} /\ \A d \in Conns \ {c} : txn'[d] = txn[d]
  BY <1>3, EndedType DEF Commit, TypeOK
<1>5. \/ store'["file"] = store["file"]
      \/ c = f /\ store'["file"] = txn[f].rows
  BY <1>3 DEF Commit, Source, Seen, TypeOK
<1>6. Pending' \subseteq Pending \ In(batch[f]) \/ Pending' \cap In(batch[f]) = {}
  BY <1>1, <1>2, ThreadAssumption DEF Pending, Once, RetriesOnce
<1>7. Pending' \subseteq Pending
  BY <1>1, <1>2 DEF Pending
<1>8. Stored(store'["file"]) \cap Pending' = {}
  <2>1. CASE store'["file"] = store["file"]
    BY <2>1, <1>7 DEF Once, RetriesOnce
  <2>2. CASE c = f /\ store'["file"] = txn[f].rows
    <3>1. Stored(txn[f].rows) \cap In(buf) = {} /\ \A g \in Flushers \ {f} : Stored(txn[f].rows) \cap In(batch[g]) = {}
      BY DEF Once, TxnApart
    <3> QED BY <1>1, <1>2, <2>2, <3>1 DEF Pending
  <2> QED BY <1>5, <2>1, <2>2
<1>9. RetriesOnce'
  BY <1>1, <1>2, <1>8 DEF Once, RetriesOnce
<1>10. TxnApart'
  <2> SUFFICES ASSUME NEW d \in Flushers, NEW g \in Flushers
               PROVE  /\ Stored(txn'[d].rows) \cap In(buf') = {}
                      /\ Stored(txn'[d].rows) \cap In(batch'[g]) # {} => g = d /\ pc'[d] = "write" /\ using'[d] = d
    BY DEF TxnApart
  <2>1. CASE d = c
    BY <1>4, <2>1
  <2>2. CASE d # c
    BY <1>1, <1>2, <1>4, <2>2 DEF Once, TxnApart
  <2> QED BY <2>1, <2>2
<1>11. Known'
  <2>1. \A d \in Flushers : Stored(txn'[d].rows) \subseteq RowsOf(arrived)
    BY <1>4 DEF Once, Known
  <2>2. Stored(store'["file"]) \subseteq RowsOf(arrived)
    BY <1>5 DEF Once, Known
  <2> QED BY <1>2, <1>7, <2>1, <2>2 DEF Once, Known
<1> QED BY <1>9, <1>10, <1>11 DEF Once

LEMMA RebufferOnce == ASSUME TypeOK, Once, NEW f \in Flushers, Rebuffer(f) PROVE Once'
<1>1. /\ In(batch'[f]) = {} /\ \A t \in Tables : Injective(batch'[f][t])
      /\ \A g \in Flushers \ {f} : batch'[g] = batch[g] /\ pc'[g] = pc[g]
  BY Emptied DEF Rebuffer, Goto, TypeOK
<1>2. UNCHANGED <<arrived, using, store, txn>>
  BY DEF Rebuffer
<1>3. \A t \in Tables : Injective(buf'[t]) /\ RowsOf(buf'[t]) \subseteq RowsOf(batch[f][t]) \cup RowsOf(buf[t])
  <2> SUFFICES ASSUME NEW t \in Tables
               PROVE  Injective(buf'[t]) /\ RowsOf(buf'[t]) \subseteq RowsOf(batch[f][t]) \cup RowsOf(buf[t])
    OBVIOUS
  <2>1. /\ batch[f][t] \in Seq(Rows) /\ buf[t] \in Seq(Rows)
        /\ Injective(batch[f][t]) /\ Injective(buf[t])
    BY DEF TypeOK, Once, RetriesOnce
  <2>2. RowsOf(batch[f][t]) \cap RowsOf(buf[t]) = {}
    BY DEF Once, RetriesOnce, In
  <2> DEFINE both == batch[f][t] \o buf[t]
  <2>3. buf'[t] = Newest(both)
    BY DEF Rebuffer
  <2>4. /\ both \in Seq(Rows) /\ Injective(both)
        /\ RowsOf(both) = RowsOf(batch[f][t]) \cup RowsOf(buf[t])
    BY <2>1, <2>2, Joined
  <2> HIDE DEF both
  <2>5. RowsOf(Newest(both)) \subseteq RowsOf(both) /\ Injective(Newest(both))
    BY <2>4, Cut
  <2> QED BY <2>3, <2>4, <2>5
<1>4. In(buf') \subseteq In(batch[f]) \cup In(buf)
  BY <1>3 DEF In
<1>5. Pending' \subseteq Pending
  BY <1>1, <1>4 DEF Pending
<1>6. \A g \in Flushers \ {f} : In(batch[f]) \cap In(batch[g]) = {} /\ In(buf) \cap In(batch[g]) = {}
  BY DEF Once, RetriesOnce
<1>7. RetriesOnce'
  <2>1. In(batch'[Loop]) \cap In(batch'[Closer]) = {} /\ \A g \in Flushers : In(buf') \cap In(batch'[g]) = {}
    BY <1>1, <1>4, <1>6, ThreadAssumption
  <2>2. \A t \in Tables : \A g \in Flushers : Injective(batch'[g][t])
    BY <1>1 DEF Once, RetriesOnce
  <2> QED BY <1>2, <1>3, <1>5, <2>1, <2>2 DEF Once, RetriesOnce
<1>8. TxnApart'
  <2>1. \A c \in Flushers : Stored(txn[c].rows) \cap In(batch[f]) = {}
    BY DEF Once, TxnApart, Rebuffer
  <2> QED BY <1>1, <1>2, <1>4, <2>1 DEF Once, TxnApart
<1>9. Known'
  BY <1>2, <1>5 DEF Once, Known
<1> QED BY <1>7, <1>8, <1>9 DEF Once

LEMMA InitOnce == WriteBehindInit => Once
<1> SUFFICES ASSUME WriteBehindInit PROVE Once
  OBVIOUS
<1>1. In(buf) = {} /\ \A f \in Flushers : In(batch[f]) = {}
  BY EmptyType DEF WriteBehindInit
<1>2. \A t \in Tables : Injective(buf[t]) /\ \A f \in Flushers : Injective(batch[f][t])
  BY EmptyType DEF WriteBehindInit
<1>3. Stored(store["file"]) = {} /\ \A c \in Flushers : Stored(txn[c].rows) = {}
  BY EndedType DEF WriteBehindInit, Stored, Conns
<1>4. Pending = {}
  BY <1>1 DEF Pending
<1> QED BY <1>1, <1>2, <1>3, <1>4 DEF Once, RetriesOnce, TxnApart, Known, Flushers

\* The thread connects, looks at the transcripts or gives its batch up
LEMMA ConnectOnce ==
  ASSUME TypeOK, Once, NEW f \in Flushers, Connect(f) \/ ConnectFails(f) \/ ReadCovered(f)
  PROVE  Once'
<1>1. /\ UNCHANGED <<buf, arrived, txn, store>>
      /\ batch' = batch \/ batch' = [batch EXCEPT ![f] = Empty]
  BY DEF Connect, ConnectFails, ReadCovered, fileVars
<1>2. \A g \in Flushers \ {f} : pc'[g] = pc[g] /\ using'[g] = using[g]
  BY DEF Connect, ConnectFails, ReadCovered, Goto, TypeOK
<1>3. In(batch'[f]) \subseteq In(batch[f])
  BY <1>1, Emptied
<1>4. \/ pc'[f] = pc[f] /\ using'[f] = using[f]
      \/ Stored(txn'[f].rows) \cap In(batch'[f]) = {}
  <2>1. CASE pc[f] = "connect"
    <3>1. Stored(txn[f].rows) \cap In(batch[f]) = {}
      BY <2>1 DEF Once, TxnApart
    <3> QED BY <1>1, <1>3, <3>1
  <2>2. CASE pc[f] # "connect"
    BY <2>2 DEF Connect, ConnectFails, ReadCovered
  <2> QED BY <2>1, <2>2
<1> QED BY <1>1, <1>2, <1>4, QuietSteps

\* A rollback leaves nothing of the batch in the thread's own transaction
LEMMA SqlFailsOnce == ASSUME TypeOK, Once, NEW f \in Flushers, SqlFails(f) PROVE Once'
<1>1. /\ UNCHANGED <<buf, arrived, batch, using, store>>
      /\ txn' = [txn EXCEPT ![using[f]] = Ended]
      /\ \A g \in Flushers \ {f} : pc'[g] = pc[g]
  BY DEF SqlFails, fileVars, Goto, TypeOK
<1>2. using[f] \in Conns /\ using[f] \in {f, Shared}
  BY DEF TypeOK
<1>3. \A c \in Flushers : txn'[c] = IF c = using[f] THEN Ended ELSE txn[c]
  BY <1>1, <1>2 DEF TypeOK, Conns
<1>4. \A c \in Flushers : Stored(txn'[c].rows) \subseteq Stored(txn[c].rows)
  BY <1>3, EndedType
<1>5. Stored(txn'[f].rows) \cap In(batch'[f]) = {}
  <2>1. CASE using[f] = f
    BY <1>3, <2>1, EndedType
  <2>2. CASE using[f] # f
    <3>1. Stored(txn[f].rows) \cap In(batch[f]) = {}
      BY <2>2 DEF Once, TxnApart
    <3> QED BY <1>1, <1>4, <3>1
  <2> QED BY <2>1, <2>2
<1> QED BY <1>1, <1>4, <1>5, QuietSteps

\* The flush loop between two flushes, close, and what happens to the file
LEMMA LoopOnce ==
  ASSUME TypeOK, Unclosed, Once, Settle \/ Close \/ CloseReturns \/ DiskChanges PROVE Once'
<1>1. /\ UNCHANGED <<buf, arrived, batch, using>>
      /\ store'["file"] = store["file"]
      /\ \A c \in Flushers : txn'[c] = txn[c]
  <2>1. CASE Settle
    <3>1. UNCHANGED <<buf, arrived, batch, using>>
      BY <2>1 DEF Settle
    <3>2. UNCHANGED <<fileVars, txn>> \/ Evict
      BY <2>1 DEF Settle, NoteFlushError
    <3>3. CASE Evict /\ ~ UNCHANGED <<fileVars, txn>>
      <4>1. store'["file"] = store["file"]
        BY <3>3 DEF Evict, TypeOK
      <4>2. txn' = [txn EXCEPT ![Shared] = Ended]
        BY <3>3 DEF Evict
      <4> QED BY <3>1, <4>1, <4>2, ThreadAssumption DEF TypeOK, Conns, Flushers
    <3> QED BY <3>1, <3>2, <3>3
  <2>2. CASE Close \/ CloseReturns \/ DiskChanges
    BY <2>2 DEF Close, CloseReturns, DiskChanges, flushVars, fileVars
  <2> QED BY <2>1, <2>2
<1>2. ASSUME NEW f \in Flushers, pc[f] # "write", \A g \in Flushers \ {f} : pc'[g] = pc[g]
      PROVE  Once'
  <2>1. Stored(txn[f].rows) \cap In(batch[f]) = {}
    BY <1>2 DEF Once, TxnApart
  <2> QED BY <1>1, <1>2, <2>1, QuietSteps
<1>3. CASE Settle
  <2>1. pc[Loop] # "write" /\ \A g \in Flushers \ {Loop} : pc'[g] = pc[g]
    BY <1>3 DEF Settle, Goto, TypeOK
  <2> QED BY <1>2, <2>1 DEF Flushers
<1>4. CASE Close
  <2>1. pc[Closer] = "idle"
    BY <1>4 DEF Close, Unclosed
  <2>2. pc[Closer] # "write" /\ \A g \in Flushers \ {Closer} : pc'[g] = pc[g]
    BY <1>4, <2>1 DEF Close, Goto, TypeOK
  <2> QED BY <1>2, <2>2 DEF Flushers
<1>5. CASE CloseReturns
  <2>1. pc[Closer] # "write" /\ \A g \in Flushers \ {Closer} : pc'[g] = pc[g]
    BY <1>5 DEF CloseReturns, Goto, TypeOK
  <2> QED BY <1>2, <2>1 DEF Flushers
<1>6. CASE DiskChanges
  <2>1. Loop \in Flushers /\ UNCHANGED pc
    BY <1>6 DEF DiskChanges, flushVars, Flushers
  <2> QED BY <1>1, <2>1, QuietSteps
<1> QED BY <1>3, <1>4, <1>5, <1>6

\* A transcript takes requests away and brings none
LEMMA TranscriptOnce == ASSUME TypeOK, Once, NEW s \in Sessions, TranscriptStep(s) PROVE Once'
<1>1. /\ UNCHANGED <<buf, arrived, batch, using, pc>>
      /\ store'["file"] \subseteq store["file"] /\ \A c \in Flushers : txn'[c] = txn[c]
  BY TranscriptFrame
<1>2. Stored(store'["file"]) \subseteq Stored(store["file"]) /\ Loop \in Flushers
  BY <1>1 DEF Stored, Flushers
<1> QED BY <1>1, <1>2, QuietSteps

LEMMA UnclosedKept == TypeOK /\ Unclosed /\ [WriteBehindNext]_vars => Unclosed'
<1>0. [WriteBehindNext]_vars /\ closed => closed'
  BY DEF WriteBehindNext, FlushStep, vars, restVars, AppendRows, TranscriptStep, TranscriptWrite, TranscriptUpsert,
         TranscriptCommit, TranscriptFails, Swap, Connect, ConnectFails,
         ReadCovered, Insert, RowRaises, Commit, SqlFails, Rebuffer, Settle, Close, CloseReturns, DiskChanges
<1> SUFFICES ASSUME TypeOK, ~closed, pc[Closer] = "idle", [WriteBehindNext]_vars, ~closed' PROVE pc'[Closer] = "idle"
  BY <1>0 DEF Unclosed
<1>1. ASSUME NEW f \in Flushers, FlushStep(f) PROVE pc'[Closer] = "idle"
  <2>1. f = Loop
    BY <1>1, ThreadAssumption DEF Flushers, FlushStep, Swap, Connect, ConnectFails, ReadCovered, Insert,
                                  RowRaises, Commit, SqlFails, Rebuffer, Inserting, Refusable
  <2>2. \A g \in Flushers \ {f} : pc'[g] = pc[g]
    BY <1>1 DEF FlushStep, Swap, Connect, ConnectFails, ReadCovered, Insert, RowRaises, Commit, SqlFails,
                Rebuffer, Goto, TypeOK
  <2> QED BY <2>1, <2>2, ThreadAssumption DEF Flushers
<1>2. CASE Settle
  BY <1>2, ThreadAssumption DEF Settle, Goto, TypeOK, Flushers
<1>3. CASE Close \/ CloseReturns
  BY <1>3 DEF Close, CloseReturns
<1>4. CASE DiskChanges \/ UNCHANGED vars
  BY <1>4 DEF DiskChanges, vars, flushVars
<1>5. ASSUME NEW c \in Calls, AppendRows(c) PROVE pc'[Closer] = "idle"
  BY <1>5 DEF AppendRows, flushVars
<1>6. ASSUME NEW s \in Sessions, TranscriptStep(s) PROVE pc'[Closer] = "idle"
  BY <1>6, TranscriptFrame
<1> QED BY <1>1, <1>2, <1>3, <1>4, <1>5, <1>6 DEF WriteBehindNext

LEMMA OnceKept == TypeOK /\ Unclosed /\ Once /\ [WriteBehindNext]_vars => Once'
<1> SUFFICES ASSUME TypeOK, Unclosed, Once, [WriteBehindNext]_vars PROVE Once'
  OBVIOUS
<1>1. ASSUME NEW f \in Flushers, FlushStep(f) PROVE Once'
  BY <1>1, SwapOnce, ConnectOnce, InsertOnce, CommitOnce, SqlFailsOnce, RebufferOnce DEF FlushStep
<1>2. CASE UNCHANGED vars
  <2>1. Loop \in Flushers /\ UNCHANGED <<buf, arrived, batch, pc, using, store, txn>>
    BY <1>2 DEF vars, flushVars, fileVars, Flushers
  <2> QED BY <2>1, QuietSteps
<1>3. ASSUME NEW c \in Calls, AppendRows(c) PROVE Once'
  BY <1>3, AppendOnce
<1>4. ASSUME NEW s \in Sessions, TranscriptStep(s) PROVE Once'
  BY <1>4, TranscriptOnce
<1> QED BY <1>1, <1>2, <1>3, <1>4, LoopOnce DEF WriteBehindNext

\* A row that is retried waits in one place only, and no row waits that is in
\* the file already: a retry, and a close that overtakes the flush thread,
\* write every row once
THEOREM FlushRetriesOnce == WriteBehindSpec => []RetriesOnce
<1>1. WriteBehindInit => Unclosed
  BY DEF WriteBehindInit, Unclosed, Flushers
<1>2. Once => RetriesOnce
  BY DEF Once
<1> QED BY <1>1, <1>2, InitType, InitOnce, TypeKept, UnclosedKept, OnceKept,
           FlushTypeCorrect, PTL DEF WriteBehindSpec
-----------------------------------------------------------------------------
(* Every flush commits its own batch, while no row overflows               *)

\* what is open on the connection of a flushing thread is in the file already or of its batch
OwnTxn(f) == txn[f].open => /\ pc[f] = "write" /\ using[f] = f
                            /\ Stored(txn[f].rows) \subseteq Stored(store["file"]) \cup In(batch[f])
OwnTxns == (\A f \in Flushers : OwnTxn(f)) /\ ~(txn[Loop].open /\ txn[Closer].open)

\* steps that leave the file alone, open nothing, and do not move a thread whose transaction is open
LEMMA OwnUntouched ==
  ASSUME OwnTxns, store'["file"] = store["file"],
         \A g \in Flushers : txn'[g].open => /\ txn'[g] = txn[g] /\ pc'[g] = pc[g] /\ using'[g] = using[g]
                                             /\ batch'[g] = batch[g]
  PROVE  OwnTxns'
BY DEF OwnTxns, OwnTxn

LEMMA OwnInsert == ASSUME TypeOK, OwnTxns, NEW f \in Flushers, Insert(f) PROVE OwnTxns'
<1> DEFINE s == batch[f][Order[NextTable(f)]]
           chosen == Chosen(f, s)
<1>1. pc[f] = "write" /\ NextTable(f) # 0 /\ WriteRows(f, NextTable(f), chosen)
  BY DEF Insert, Inserting
<1>2. chosen \in SUBSET (1..Len(s))
  BY DEF Chosen
<1>3. /\ \A c \in Conns \ {using[f]} : txn'[c] = txn[c]
      /\ Stored(txn'[using[f]].rows) \subseteq
           Stored(txn[using[f]].rows) \cup Stored(store[Source(using[f])]) \cup In(batch[f])
  BY <1>1, <1>2, WrittenRows
<1>4. UNCHANGED <<pc, using, batch, store>>
  BY DEF Insert
<1>5. CASE using[f] = Shared
  BY <1>3, <1>4, <1>5, ThreadAssumption, OwnUntouched
<1>6. CASE chosen = {}
  BY <1>1, <1>4, <1>6, OwnUntouched DEF WriteRows
<1>7. CASE using[f] = f /\ chosen # {}
  <2>1. NextRows(f) # {}
    BY <1>7 DEF NextRows
  <2>2. \A c \in Flushers \ {f} : ~txn[c].open /\ txn'[c] = txn[c]
    BY <1>3, <1>7, <2>1, ThreadAssumption DEF Insert, CanWrite
  <2>3. f # Shared
    BY ThreadAssumption
  <2>4. Stored(txn'[f].rows) \subseteq Stored(store["file"]) \cup In(batch[f])
    <3>1. CASE txn[f].open
      BY <1>3, <1>7, <2>3, <3>1 DEF Source, OwnTxns, OwnTxn
    <3>2. CASE ~txn[f].open
      <4> DEFINE seen == store["file"]
      <4>1. NextTable(f) \in 0..6 /\ Order[NextTable(f)] \in Tables
        BY <1>1, NextTableType
      <4>2. s \in Seq(Rows) /\ seen \in SUBSET Entries
        BY <4>1 DEF TypeOK
      <4>3. txn'[f].rows = Inserted(seen, s, chosen)
        BY <1>1, <1>7, <2>3, <3>2 DEF WriteRows, Seen, Source, TypeOK
      <4>4. Stored(Inserted(seen, s, chosen)) \subseteq Stored(seen) \cup RowsOf(s)
        BY <1>2, <4>2, InsertedRows
      <4>5. RowsOf(s) \subseteq In(batch[f])
        BY <4>1 DEF In
      <4> QED BY <4>3, <4>4, <4>5
    <3> QED BY <3>1, <3>2
  <2>5. ~(txn'[Loop].open /\ txn'[Closer].open)
    BY <2>2, ThreadAssumption
  <2> QED BY <1>1, <1>4, <1>7, <2>2, <2>4, <2>5 DEF OwnTxns, OwnTxn
<1> QED BY <1>5, <1>6, <1>7 DEF TypeOK

\* With no row that overflows, a flush leaves its try only by commit or rollback
LEMMA OwnFlush ==
  ASSUME Oversized = {}, TypeOK, OwnTxns, NEW f \in Flushers, FlushStep(f), ~Insert(f), ~Commit(f)
  PROVE  OwnTxns'
<1>1. ~RowRaises(f)
  BY DEF RowRaises
<1>2. \A g \in Flushers \ {f} : txn'[g] = txn[g] /\ pc'[g] = pc[g] /\ using'[g] = using[g] /\ batch'[g] = batch[g]
  BY <1>1, ThreadAssumption
     DEF FlushStep, Swap, Connect, ConnectFails, ReadCovered, SqlFails, Rebuffer, Goto, TypeOK
<1>3. store' = store
  BY <1>1 DEF FlushStep, Swap, Connect, ConnectFails, ReadCovered, SqlFails, Rebuffer
<1>4. CASE ReadCovered(f)
  BY <1>2, <1>3, <1>4, OwnUntouched DEF ReadCovered
<1>5. CASE SqlFails(f)
  <2>1. ~txn'[f].open
    <3>1. txn' = [txn EXCEPT ![using[f]] = Ended] /\ ~Ended.open
      BY <1>5 DEF SqlFails, Ended
    <3>2. CASE using[f] = f
      BY <3>1, <3>2 DEF TypeOK
    <3>3. CASE using[f] # f
      BY <3>1, <3>3 DEF OwnTxns, OwnTxn, TypeOK
    <3> QED BY <3>2, <3>3
  <2> QED BY <1>2, <1>3, <2>1, OwnUntouched
<1>6. CASE Swap(f) \/ Connect(f) \/ ConnectFails(f) \/ Rebuffer(f)
  <2>1. pc[f] # "write" /\ txn' = txn
    BY <1>6 DEF Swap, Connect, ConnectFails, Rebuffer
  <2>2. ~txn'[f].open
    BY <2>1 DEF OwnTxns, OwnTxn
  <2> QED BY <1>2, <1>3, <2>2, OwnUntouched
<1> QED BY <1>1, <1>4, <1>5, <1>6 DEF FlushStep

\* A commit changes the file only to what the thread's own transaction shows
LEMMA OwnCommit ==
  ASSUME TypeOK, OwnTxns, NEW f \in Flushers, Commit(f)
  PROVE  /\ OwnTxns'
         /\ \A r \in Stored(store'["file"]) \ Stored(store["file"]) :
              pc[f] = "write" /\ pc'[f] = "settle" /\ r \in In(batch[f])
<1>1. /\ \A g \in Flushers \ {f} : pc'[g] = pc[g] /\ using'[g] = using[g] /\ batch'[g] = batch[g]
      /\ pc[f] = "write" /\ pc'[f] = "settle"
      /\ txn' = [txn EXCEPT ![using[f]] = Ended]
  BY DEF Commit, Goto, TypeOK
<1>2. using[f] \in {f, Shared} /\ ~Ended.open
  BY DEF TypeOK, Ended
<1>3. ~txn'[f].open /\ \A g \in Flushers \ {f} : txn'[g] = txn[g]
  BY <1>1, <1>2, ThreadAssumption DEF OwnTxns, OwnTxn, TypeOK
<1>4. CASE using[f] = f /\ txn[f].open
  <2>1. store'["file"] = txn[f].rows
    BY <1>4, ThreadAssumption DEF Commit, Source, Seen, TypeOK
  <2>2. \A g \in Flushers \ {f} : ~txn[g].open
    BY <1>4, ThreadAssumption DEF OwnTxns
  <2> QED BY <1>1, <1>3, <1>4, <2>1, <2>2, ThreadAssumption DEF OwnTxns, OwnTxn
<1>5. CASE ~(using[f] = f /\ txn[f].open)
  <2>1. store'["file"] = store["file"]
    BY <1>2, <1>5 DEF Commit, Source, Seen, TypeOK
  <2>2. OwnTxns'
    BY <1>1, <1>3, <2>1, OwnUntouched
  <2> QED BY <2>1, <2>2
<1> QED BY <1>4, <1>5

\* No other step touches the connections of the flushing threads or adds to the file
LEMMA OwnOther ==
  ASSUME TypeOK, Unclosed, OwnTxns, [WriteBehindNext]_vars, ~\E f \in Flushers : FlushStep(f)
  PROVE  OwnTxns' /\ Stored(store'["file"]) \subseteq Stored(store["file"])
<1>1. CASE UNCHANGED vars \/ DiskChanges \/ \E c \in Calls : AppendRows(c)
  <2>1. UNCHANGED <<pc, using, batch, store, txn>>
    BY <1>1 DEF vars, DiskChanges, AppendRows
  <2> QED BY <2>1, OwnUntouched
<1>2. ASSUME NEW s \in Sessions, TranscriptStep(s)
      PROVE  OwnTxns' /\ Stored(store'["file"]) \subseteq Stored(store["file"])
  <2>1. /\ UNCHANGED <<pc, using, batch>> /\ \A c \in Flushers : txn'[c] = txn[c]
        /\ store'["file"] \subseteq store["file"]
        /\ store'["file"] = store["file"] \/ \A c \in Flushers : ~txn[c].open
    BY <1>2, TranscriptFrame
  <2>2. OwnTxns'
    BY <2>1 DEF OwnTxns, OwnTxn
  <2> QED BY <2>1, <2>2 DEF Stored
<1>3. CASE Settle
  <2>1. store'["file"] = store["file"] /\ \A g \in Flushers : txn'[g] = txn[g]
    <3>1. UNCHANGED <<fileVars, txn>> \/ Evict
      BY <1>3 DEF Settle, NoteFlushError
    <3>2. CASE Evict
      <4>1. txn' = txn \/ txn' = [txn EXCEPT ![Shared] = Ended]
        BY <3>2 DEF Evict
      <4>2. store'["file"] = store["file"]
        BY <3>2 DEF Evict, TypeOK
      <4> QED BY <4>1, <4>2, ThreadAssumption DEF TypeOK
    <3> QED BY <3>1, <3>2
  <2>2. pc[Loop] = "settle" /\ pc'[Closer] = pc[Closer] /\ UNCHANGED <<using, batch>>
    BY <1>3, ThreadAssumption DEF Settle, Goto, TypeOK
  <2>3. ~txn[Loop].open
    BY <2>2 DEF OwnTxns, OwnTxn
  <2> QED BY <2>1, <2>2, <2>3, OwnUntouched
<1>4. CASE Close \/ CloseReturns
  <2>1. pc[Closer] # "write" /\ pc'[Loop] = pc[Loop] /\ UNCHANGED <<using, batch, store, txn>>
    BY <1>4, ThreadAssumption DEF Close, CloseReturns, Goto, TypeOK, Unclosed
  <2>2. ~txn[Closer].open
    BY <2>1 DEF OwnTxns, OwnTxn
  <2> QED BY <2>1, <2>2, OwnUntouched
<1> QED BY <1>1, <1>2, <1>3, <1>4 DEF WriteBehindNext

(***************************************************************************)
(* "a half-applied batch is never committed by the NEXT flush"             *)
(* (storage.py:3056), for any rows, failures and an overlapping close, as  *)
(* long as no row overflows an integer: an OverflowError leaves flush()    *)
(* with its transaction open.                                              *)
(***************************************************************************)
THEOREM FlushCommitsItsBatch == Oversized = {} => (WriteBehindSpec => CommitsOwnBatch)
<1> SUFFICES ASSUME Oversized = {} PROVE WriteBehindSpec => CommitsOwnBatch
  OBVIOUS
<1>1. WriteBehindInit => OwnTxns /\ Unclosed
  BY ThreadAssumption DEF WriteBehindInit, OwnTxns, OwnTxn, Ended, Unclosed
<1>2. TypeOK /\ Unclosed /\ OwnTxns /\ [WriteBehindNext]_vars => OwnTxns'
  BY OwnInsert, OwnFlush, OwnCommit, OwnOther
<1>3. TypeOK /\ Unclosed /\ OwnTxns /\ [WriteBehindNext]_vars
        => [\A r \in Stored(store'["file"]) \ Stored(store["file"]) :
              \E f \in Flushers : pc[f] = "write" /\ pc'[f] = "settle" /\ r \in In(batch[f])]_vars
  <2> SUFFICES ASSUME TypeOK, Unclosed, OwnTxns, [WriteBehindNext]_vars,
                      NEW r \in Stored(store'["file"]) \ Stored(store["file"])
               PROVE  \E f \in Flushers : pc[f] = "write" /\ pc'[f] = "settle" /\ r \in In(batch[f])
    OBVIOUS
  <2>1. PICK f \in Flushers : FlushStep(f)
    BY OwnOther
  <2>2. Commit(f) \/ store' = store
    BY <2>1 DEF FlushStep, Swap, Connect, ConnectFails, ReadCovered, Insert, RowRaises, SqlFails, Rebuffer
  <2> QED BY <2>1, <2>2, OwnCommit
<1> QED BY <1>1, <1>2, <1>3, InitType, TypeKept, UnclosedKept, FlushTypeCorrect, PTL
        DEF WriteBehindSpec, CommitsOwnBatch
-----------------------------------------------------------------------------
(* With one flushing thread the oldest rows are dropped                    *)

\* the database is not closed, so the flush thread alone flushes
Solo == ~closed /\ pc[Closer] = "idle"

LEMMA SoloKept ==
  ASSUME ~Closes, TypeOK, Solo, [WriteBehindNext]_vars
  PROVE  Solo' /\ ~Close /\ ~CloseReturns /\ ~FlushStep(Closer)
<1>1. ~FlushStep(Closer)
  BY ThreadAssumption DEF Solo, FlushStep, Swap, Connect, ConnectFails, ReadCovered, Insert, RowRaises, Commit,
                          SqlFails, Rebuffer, Inserting, Refusable
<1>2. ~Close /\ ~CloseReturns
  BY DEF Close, CloseReturns, Solo
<1>3. ASSUME FlushStep(Loop) PROVE Solo'
  <2>1. closed' = closed
    BY <1>3 DEF FlushStep, Swap, Connect, ConnectFails, ReadCovered, Insert, RowRaises, Commit, SqlFails, Rebuffer
  <2>2. pc'[Closer] = pc[Closer]
    <3>1. CASE Swap(Loop) \/ Connect(Loop) \/ ConnectFails(Loop) \/ Commit(Loop)
      BY <3>1, ThreadAssumption DEF Swap, Connect, ConnectFails, Commit, Goto, TypeOK
    <3>2. CASE RowRaises(Loop) \/ SqlFails(Loop) \/ Rebuffer(Loop)
      BY <3>2, ThreadAssumption DEF RowRaises, SqlFails, Rebuffer, Goto, TypeOK
    <3>3. CASE ReadCovered(Loop) \/ Insert(Loop)
      BY <3>3 DEF ReadCovered, Insert
    <3> QED BY <1>3, <3>1, <3>2, <3>3 DEF FlushStep
  <2> QED BY <2>1, <2>2 DEF Solo
<1>4. ASSUME Settle \/ DiskChanges \/ UNCHANGED vars PROVE Solo'
  <2>1. closed' = closed
    BY <1>4 DEF Settle, DiskChanges, vars
  <2>2. pc'[Closer] = pc[Closer]
    BY <1>4, ThreadAssumption DEF Settle, DiskChanges, vars, Goto, TypeOK
  <2> QED BY <2>1, <2>2 DEF Solo
<1>5. ASSUME NEW c \in Calls, AppendRows(c) PROVE Solo'
  BY <1>5 DEF AppendRows, Solo
<1>6. ASSUME NEW s \in Sessions, TranscriptStep(s) PROVE Solo'
  BY <1>6, TranscriptFrame DEF Solo
<1> QED BY <1>1, <1>2, <1>3, <1>4, <1>5, <1>6 DEF WriteBehindNext

\* r comes before q in a, and the rows of s are in the order in which they come in a
Earlier(a, r, q) == \E i, j \in 1..Len(a) : i < j /\ a[i] = r /\ a[j] = q
Sorted(a, s) == \A i, j \in 1..Len(s) : i < j => Earlier(a, s[i], s[j])

LEMMA EarlierStays ==
  ASSUME NEW a \in Seq(Rows), NEW c \in Seq(Rows)
  PROVE  /\ \A r, q : Earlier(a, r, q) => Earlier(a \o c, r, q)
         /\ \A r \in RowsOf(a), q \in RowsOf(c) : Earlier(a \o c, r, q)
         /\ Sorted(a \o c, c)
<1>1. /\ Len(a \o c) = Len(a) + Len(c)
      /\ \A i \in 1..(Len(a) + Len(c)) : (a \o c)[i] = IF i <= Len(a) THEN a[i] ELSE c[i - Len(a)]
  BY ConcatProperties
<1>2. Len(a) \in Nat /\ Len(c) \in Nat
  BY LenProperties
<1>3. \A i \in 1..Len(a) : i \in 1..Len(a \o c) /\ (a \o c)[i] = a[i]
  BY <1>1, <1>2
<1>4. \A i \in 1..Len(c) : Len(a) + i \in 1..Len(a \o c) /\ (a \o c)[Len(a) + i] = c[i]
  BY <1>1, <1>2
<1>5. ASSUME NEW r, NEW q, Earlier(a, r, q) PROVE Earlier(a \o c, r, q)
  BY <1>3, <1>5 DEF Earlier
<1>6. ASSUME NEW r \in RowsOf(a), NEW q \in RowsOf(c) PROVE Earlier(a \o c, r, q)
  <2>1. PICK i \in 1..Len(a), j \in 1..Len(c) : a[i] = r /\ c[j] = q
    BY DEF RowsOf
  <2>2. i < Len(a) + j
    BY <1>2
  <2> QED BY <1>3, <1>4, <2>1, <2>2 DEF Earlier
<1>7. Sorted(a \o c, c)
  <2> SUFFICES ASSUME NEW i \in 1..Len(c), NEW j \in 1..Len(c), i < j PROVE Earlier(a \o c, c[i], c[j])
    BY DEF Sorted
  <2>1. Len(a) + i < Len(a) + j
    BY <1>2
  <2> QED BY <1>4, <2>1 DEF Earlier
<1> QED BY <1>5, <1>6, <1>7

LEMMA SortedJoin ==
  ASSUME NEW a, NEW s \in Seq(Rows), NEW t \in Seq(Rows), Sorted(a, s), Sorted(a, t),
         \A r \in RowsOf(s), q \in RowsOf(t) : Earlier(a, r, q)
  PROVE  Sorted(a, s \o t)
<1>1. /\ Len(s \o t) = Len(s) + Len(t)
      /\ \A i \in 1..(Len(s) + Len(t)) : (s \o t)[i] = IF i <= Len(s) THEN s[i] ELSE t[i - Len(s)]
  BY ConcatProperties
<1>2. Len(s) \in Nat /\ Len(t) \in Nat
  BY LenProperties
<1> SUFFICES ASSUME NEW i \in 1..(Len(s) + Len(t)), NEW j \in 1..(Len(s) + Len(t)), i < j
             PROVE  Earlier(a, (s \o t)[i], (s \o t)[j])
  BY <1>1 DEF Sorted
<1>3. CASE j <= Len(s)
  BY <1>1, <1>2, <1>3 DEF Sorted
<1>4. CASE i > Len(s)
  <2>1. i - Len(s) \in 1..Len(t) /\ j - Len(s) \in 1..Len(t) /\ i - Len(s) < j - Len(s)
    BY <1>2, <1>4
  <2>2. (s \o t)[i] = t[i - Len(s)] /\ (s \o t)[j] = t[j - Len(s)]
    BY <1>1, <1>2, <1>4
  <2> QED BY <2>1, <2>2 DEF Sorted
<1>5. CASE i <= Len(s) /\ j > Len(s)
  <2>1. i \in 1..Len(s) /\ j - Len(s) \in 1..Len(t)
    BY <1>2, <1>5
  <2>2. (s \o t)[i] = s[i] /\ (s \o t)[j] = t[j - Len(s)]
    BY <1>1, <1>2, <1>5
  <2> QED BY <2>1, <2>2 DEF RowsOf
<1> QED BY <1>2, <1>3, <1>4, <1>5

\* what the cap cuts off is older than what stays
LEMMA SortedCut ==
  ASSUME NEW a, NEW s \in Seq(Rows), Sorted(a, s)
  PROVE  /\ Sorted(a, Newest(s))
         /\ \A r \in RowsOf(s) \ RowsOf(Newest(s)), q \in RowsOf(Newest(s)) : Earlier(a, r, q)
<1>1. Len(s) \in Nat /\ Cap \in Nat \ {0} /\ \A i \in 1..Len(s) : s[i] \in Rows
  BY BoundAssumption, LenProperties, ElementOfSeq
<1>2. CASE Len(s) <= Cap
  BY <1>1, <1>2 DEF Newest
<1>3. CASE Len(s) > Cap
  <2> DEFINE m == Len(s) - Cap + 1
  <2>1. m \in 1..Len(s) /\ Newest(s) = SubSeq(s, m, Len(s))
    BY <1>1, <1>3 DEF Newest
  <2>2. \A i \in m..Len(s) : s[i] \in Rows
    BY <1>1, <2>1
  <2> HIDE DEF m
  <2>3. /\ Len(Newest(s)) = Len(s) - m + 1
        /\ \A i \in 1..(Len(s) - m + 1) : Newest(s)[i] = s[m + i - 1]
    BY <1>1, <2>1, <2>2, SubSeqProperties
  <2>4. \A i \in 1..Len(Newest(s)) : m + i - 1 \in 1..Len(s) /\ Newest(s)[i] = s[m + i - 1]
    BY <1>1, <2>1, <2>3
  <2>5. Sorted(a, Newest(s))
    <3> SUFFICES ASSUME NEW i \in 1..Len(Newest(s)), NEW j \in 1..Len(Newest(s)), i < j
                 PROVE  Earlier(a, Newest(s)[i], Newest(s)[j])
      BY DEF Sorted
    <3>1. m + i - 1 < m + j - 1
      BY <1>1, <2>1, <2>3
    <3> QED BY <2>4, <3>1 DEF Sorted
  <2>6. ASSUME NEW r \in RowsOf(s) \ RowsOf(Newest(s)), NEW q \in RowsOf(Newest(s)) PROVE Earlier(a, r, q)
    <3>1. PICK k \in 1..Len(s) : s[k] = r
      BY DEF RowsOf
    <3>2. PICK j \in 1..Len(Newest(s)) : Newest(s)[j] = q
      BY DEF RowsOf
    <3>3. k < m
      <4> SUFFICES ASSUME k >= m PROVE FALSE
        BY <1>1, <2>1
      <4>1. k - m + 1 \in 1..Len(Newest(s)) /\ Newest(s)[k - m + 1] = s[k]
        BY <1>1, <2>1, <2>3
      <4> QED BY <3>1, <4>1 DEF RowsOf
    <3>4. k < m + j - 1
      BY <1>1, <2>1, <2>3, <3>3
    <3> QED BY <2>4, <3>1, <3>2, <3>4 DEF Sorted
  <2> QED BY <2>5, <2>6
<1> QED BY <1>1, <1>2, <1>3

\* rows wait in their table's buffer in the order in which they were appended, those of the batch first
Queued(t) ==
  /\ \A r \in RowsOf(buf[t]) \cup RowsOf(batch[Loop][t]) : TableOf[r] = t
  /\ Sorted(arrived, buf[t]) /\ Sorted(arrived, batch[Loop][t])
  /\ \A r \in RowsOf(batch[Loop][t]), q \in RowsOf(buf[t]) : Earlier(arrived, r, q)
InOrder == \A t \in Tables : Queued(t)

LEMMA EmptyQueue == \A t \in Tables : RowsOf(Empty[t]) = {} /\ \A a : Sorted(a, Empty[t])
<1>1. \A t \in Tables : Len(Empty[t]) = 0
  BY EmptySeq DEF Empty
<1> QED BY <1>1 DEF RowsOf, Sorted

LEMMA AppendInOrder == ASSUME TypeOK, Once, InOrder, NEW c \in Calls, AppendRows(c) PROVE InOrder'
<1>1. /\ c \in Seq(Rows) /\ \A i, j \in 1..Len(c) : TableOf[c[i]] = TableOf[c[j]]
      /\ arrived \in Seq(Rows) /\ arrived' = arrived \o c /\ batch' = batch
  BY RowAssumption DEF AppendRows, TypeOK
<1> SUFFICES ASSUME NEW t \in Tables PROVE Queued(t)'
  BY DEF InOrder
<1>2. /\ buf[t] \in Seq(Rows) /\ RowsOf(buf[t]) \subseteq RowsOf(arrived)
      /\ RowsOf(batch[Loop][t]) \subseteq RowsOf(arrived)
  BY DEF TypeOK, Once, Known, Pending, In
<1>3. /\ \A r, q : Earlier(arrived, r, q) => Earlier(arrived', r, q)
      /\ \A r \in RowsOf(arrived), q \in RowsOf(c) : Earlier(arrived', r, q)
      /\ Sorted(arrived', c)
  BY <1>1, EarlierStays
<1>4. Queued(t)
  BY DEF InOrder
<1>5. Sorted(arrived', buf[t]) /\ Sorted(arrived', batch[Loop][t])
  BY <1>3, <1>4 DEF Queued, Sorted
<1>6. CASE buf'[t] = buf[t]
  BY <1>1, <1>3, <1>4, <1>5, <1>6 DEF Queued
<1>7. CASE buf'[t] # buf[t]
  <2>1. buf'[t] = buf[t] \o c /\ \E r \in RowsOf(c) : TableOf[r] = t
    BY <1>7 DEF AppendRows
  <2>2. \A r \in RowsOf(c) : TableOf[r] = t
    BY <1>1, <2>1 DEF RowsOf
  <2>3. RowsOf(buf'[t]) = RowsOf(buf[t]) \cup RowsOf(c)
    BY <1>1, <1>2, <2>1, Joined
  <2>4. Sorted(arrived', buf'[t])
    BY <1>1, <1>2, <1>3, <1>5, <2>1, SortedJoin
  <2> QED BY <1>1, <1>2, <1>3, <1>4, <1>5, <2>2, <2>3, <2>4 DEF Queued
<1> QED BY <1>6, <1>7

\* A retry puts its batch in front and drops the oldest rows of each table
LEMMA RebufferInOrder ==
  ASSUME TypeOK, Once, InOrder, Rebuffer(Loop)
  PROVE  /\ InOrder'
         /\ \A r \in dropped' \ dropped, q \in In(buf') : TableOf[q] = TableOf[r] => Before(r, q)
<1>1. /\ \A t \in Tables : buf'[t] = Newest(batch[Loop][t] \o buf[t])
      /\ \A t \in Tables : batch'[Loop][t] = Empty[t]
      /\ arrived' = arrived /\ dropped' \ dropped \subseteq (In(buf) \cup In(batch[Loop])) \ In(buf')
  BY DEF Rebuffer, TypeOK
<1>2. ASSUME NEW t \in Tables
      PROVE  /\ Sorted(arrived, buf'[t]) /\ RowsOf(buf'[t]) \subseteq RowsOf(batch[Loop][t]) \cup RowsOf(buf[t])
             /\ \A r \in (RowsOf(batch[Loop][t]) \cup RowsOf(buf[t])) \ RowsOf(buf'[t]), q \in RowsOf(buf'[t]) :
                  Earlier(arrived, r, q)
  <2> DEFINE both == batch[Loop][t] \o buf[t]
  <2>1. batch[Loop][t] \in Seq(Rows) /\ buf[t] \in Seq(Rows) /\ Queued(t)
    BY DEF TypeOK, InOrder
  <2>2. both \in Seq(Rows) /\ RowsOf(both) = RowsOf(batch[Loop][t]) \cup RowsOf(buf[t])
    BY <2>1, Joined
  <2>3. Sorted(arrived, both)
    BY <2>1, SortedJoin DEF Queued
  <2>4. buf'[t] = Newest(both)
    BY <1>1
  <2> HIDE DEF both
  <2>5. RowsOf(Newest(both)) \subseteq RowsOf(both)
    BY <2>2, Cut
  <2> QED BY <2>2, <2>3, <2>4, <2>5, SortedCut
<1>3. InOrder'
  <2> SUFFICES ASSUME NEW t \in Tables PROVE Queued(t)'
    BY DEF InOrder
  <2>1. Queued(t)
    BY DEF InOrder
  <2> QED BY <1>1, <1>2, <2>1, EmptyQueue DEF Queued
<1>4. ASSUME NEW r \in dropped' \ dropped, NEW q \in In(buf'), TableOf[q] = TableOf[r] PROVE Before(r, q)
  <2>1. PICK t \in Tables : r \in RowsOf(buf[t]) \cup RowsOf(batch[Loop][t])
    BY <1>1 DEF In
  <2>2. PICK u \in Tables : q \in RowsOf(buf'[u])
    BY DEF In
  <2>3. TableOf[r] = t /\ TableOf[q] = u
    <3>1. q \in RowsOf(batch[Loop][u]) \cup RowsOf(buf[u])
      BY <1>2, <2>2
    <3> QED BY <2>1, <3>1 DEF InOrder, Queued
  <2>4. r \notin RowsOf(buf'[t])
    BY <1>1 DEF In
  <2>5. Earlier(arrived, r, q)
    BY <1>2, <1>4, <2>1, <2>2, <2>3, <2>4
  <2> QED BY <2>5 DEF Earlier, Before
<1> QED BY <1>3, <1>4

\* A step that moves no row
LEMMA StillInOrder ==
  ASSUME TypeOK, InOrder, UNCHANGED <<buf, arrived>>,
         batch'[Loop] = batch[Loop] \/ batch'[Loop] = Empty
  PROVE  InOrder'
<1> SUFFICES ASSUME NEW t \in Tables PROVE Queued(t)'
  BY DEF InOrder
<1>1. Queued(t)
  BY DEF InOrder
<1> QED BY <1>1, EmptyQueue DEF Queued

LEMMA InOrderKept ==
  ASSUME TypeOK, Once, InOrder, [WriteBehindNext]_vars, Solo, ~Closes
  PROVE  /\ InOrder'
         /\ \A r \in dropped' \ dropped, q \in In(buf') : TableOf[q] = TableOf[r] => Before(r, q)
<1>0. ~Close /\ ~CloseReturns /\ ~FlushStep(Closer)
  BY SoloKept
<1>1. ASSUME NEW c \in Calls, AppendRows(c) PROVE InOrder' /\ dropped' = dropped
  BY <1>1, AppendInOrder DEF AppendRows
<1>2. CASE Swap(Loop)
  <2>1. batch'[Loop] = buf /\ buf' = Empty /\ UNCHANGED <<arrived, dropped>>
    BY <1>2 DEF Swap, TypeOK
  <2> QED BY <2>1, EmptyQueue DEF InOrder, Queued
<1>3. CASE Rebuffer(Loop)
  BY <1>3, RebufferInOrder
<1>4. CASE \/ Connect(Loop) \/ ConnectFails(Loop) \/ ReadCovered(Loop) \/ Insert(Loop) \/ RowRaises(Loop)
           \/ Commit(Loop) \/ SqlFails(Loop)
  <2>1. /\ UNCHANGED <<buf, arrived, dropped>>
        /\ batch' = batch \/ batch' = [batch EXCEPT ![Loop] = Empty]
    BY <1>4 DEF Connect, ConnectFails, ReadCovered, Insert, RowRaises, Commit, SqlFails
  <2> QED BY <2>1, StillInOrder DEF TypeOK
<1>5. CASE Settle \/ DiskChanges \/ UNCHANGED vars \/ \E s \in Sessions : TranscriptStep(s)
  <2>1. UNCHANGED <<buf, arrived, dropped, batch>>
    BY <1>5, TranscriptFrame DEF Settle, DiskChanges, vars
  <2> QED BY <2>1, StillInOrder
<1> QED BY <1>0, <1>1, <1>2, <1>3, <1>4, <1>5 DEF WriteBehindNext, FlushStep

(***************************************************************************)
(* "drop-oldest" (storage.py:3074): as long as the flush thread alone      *)
(* flushes, no retry drops a row of a table while it keeps an older one,   *)
(* for any rows, any cap and any failures.                                 *)
(***************************************************************************)
THEOREM FlushDropsOldest == ~Closes => (WriteBehindSpec => DropsOldest)
<1> SUFFICES ASSUME ~Closes PROVE WriteBehindSpec => DropsOldest
  OBVIOUS
<1>1. WriteBehindInit => Solo /\ InOrder
  <2> SUFFICES ASSUME WriteBehindInit PROVE Solo /\ InOrder
    OBVIOUS
  <2>1. buf = Empty /\ batch[Loop] = Empty
    BY DEF WriteBehindInit
  <2>2. InOrder
    BY <2>1, EmptyQueue DEF InOrder, Queued
  <2> QED BY <2>2 DEF WriteBehindInit, Solo
<1>2. TypeOK /\ Once /\ InOrder /\ Solo /\ [WriteBehindNext]_vars
        => InOrder' /\ Solo'
           /\ [\A r \in dropped' \ dropped, q \in In(buf') : TableOf[q] = TableOf[r] => Before(r, q)]_vars
  BY InOrderKept, SoloKept
<1>3. Solo => Unclosed
  BY DEF Solo, Unclosed
<1> QED BY <1>1, <1>2, <1>3, InitType, TypeKept, FlushTypeCorrect, InitOnce, OnceKept, PTL
        DEF WriteBehindSpec, DropsOldest
-----------------------------------------------------------------------------
(* No row is lost silently                                                 *)

\* Nothing that loses rows silently is met: the flush thread alone flushes, its connection is open, no
\* row overflows, none is filtered out by the snapshot cache, and rows with the same key in a table that
\* numbers them come in one call
Lossless ==
  /\ ~Closes /\ Loop \in Connected /\ Oversized = {}
  /\ \A r \in Rows : TableOf[r] # "process_snapshots"
  /\ \A c \in Calls : \A r \in RowsOf(c), q \in Rows :
       TableOf[r] \in Numbered /\ TableOf[q] = TableOf[r] /\ KeyOf[q] = KeyOf[r] => q \in RowsOf(c)

\* between two flushes nothing is left in the batch
BatchGone == In(batch[Closer]) = {} /\ (pc[Loop] \in {"idle", "settle"} => In(batch[Loop]) = {})

\* the flush thread has its connection, and nothing is open on the file but what it is writing
OneTxn == Loop \in connected /\ \A c \in Flushers : txn[c].open => pc[Loop] = "write" /\ c = using[Loop]

\* a row whose key a transcript's write tore, now or before
Torn(r) == KeyOf[r] \in torn

\* a session that the flush found covered is covered as far as it can see, or its batch is torn
ReadFirst == pc[Loop] = "write" =>
  \/ \A r \in In(batch[Loop]) : Torn(r)
  \/ \A s \in UNION known[Loop] : s \in SeenCovered(using[Loop])

\* an entry of a table is of a row that was appended for that table, under its own key
Proper(e) == e.row \in RowsOf(arrived) /\ e.table = TableOf[e.row] /\ e.key = KeyOf[e.row]
AllProper == (\A e \in Everything : Proper(e)) /\ \A c \in Conns : \A e \in txn[c].rows : Proper(e)

\* what a transaction adds is of the batch being written through it, in a table already written
Done == {Order[i] : i \in 1..at[Loop]}
Adds(c, e) == pc[Loop] = "write" /\ c = using[Loop] /\ e.row \in In(batch[Loop]) /\ e.table \in Done
TxnAdds == \A c \in Conns : txn[c].open => \A e \in txn[c].rows : e \in store[Source(c)] \/ Adds(c, e)

\* no row that waits will find its key taken in a table that numbers its rows
Fresh == \A r \in Pending : TableOf[r] \in Numbered /\ ~Torn(r) =>
           \A e \in Everything : ~(e.table = TableOf[r] /\ e.key = KeyOf[r])
KeysApart == \A r \in In(batch[Loop]), q \in In(buf) :
               TableOf[r] \in Numbered /\ TableOf[q] = TableOf[r] => KeyOf[q] # KeyOf[r]

\* the rows of the tables already written are in the transaction, or what they say is, or a transcript
\* said it
Covered(r) == r \in Superseded /\ SessionOf[r] \in SeenCovered(using[Loop])
Held(entries, r) ==
  \/ r \in Stored(entries)
  \/ /\ TableOf[r] \in {"system_snapshots", "requests", "tool_invocations"}
     /\ \E e \in entries : e.table = TableOf[r] /\ e.key = KeyOf[r]
Said(r) == Torn(r) \/ Covered(r) \/ (txn[using[Loop]].open /\ Held(txn[using[Loop]].rows, r))
Written == pc[Loop] = "write" => \A i \in 1..at[Loop] : \A r \in RowsOf(batch[Loop][Order[i]]) : Said(r)

LossInv == BatchGone /\ OneTxn /\ ReadFirst /\ AllProper /\ TxnAdds /\ Fresh /\ KeysApart /\ Written

USE DEF Numbered, Replacing

\* a set of positions that is not empty has a first one
LEMMA FirstPosition ==
  ASSUME NEW n \in Nat, NEW T \in SUBSET (1..n), T # {}
  PROVE  \E i \in T : \A j \in T : i <= j
<1> DEFINE R == {ss \in Nat \X Nat : ss[1] < ss[2]}
<1>1. IsWellFoundedOn(R, Nat)
  BY NatLessThanWellFounded DEF OpToRel
<1>2. PICK k \in T : \A y \in T : <<y, k>> \notin R
  <2> HIDE DEF R
  <2>1. T \subseteq Nat
    OBVIOUS
  <2> QED BY <1>1, <2>1, WFMin
<1>3. ASSUME NEW j \in T PROVE k <= j
  <2>1. <<j, k>> \in Nat \X Nat /\ <<j, k>>[1] = j /\ <<j, k>>[2] = k
    OBVIOUS
  <2>2. ~(j < k)
    BY <1>2, <2>1
  <2> QED BY <2>2
<1> QED BY <1>3

\* _assign_seq gives rows of a batch with the same key different numbers
LEMMA SeqNoDiffers ==
  ASSUME NEW s \in Seq(Rows), NEW i \in 1..Len(s), NEW j \in 1..Len(s), j < i,
         TableOf[s[i]] \in Numbered, TableOf[s[j]] = TableOf[s[i]], KeyOf[s[j]] = KeyOf[s[i]]
  PROVE  SeqNo(s, j) < SeqNo(s, i)
<1> DEFINE A == {k \in 1..(i - 1) : KeyOf[s[k]] = KeyOf[s[i]]}
           B == {k \in 1..(j - 1) : KeyOf[s[k]] = KeyOf[s[j]]}
<1>1. Len(s) \in Nat
  BY LenProperties
<1>2. SeqNo(s, i) = Cardinality(A) /\ SeqNo(s, j) = Cardinality(B)
  BY DEF SeqNo
<1>3. B \cup {j} \subseteq A /\ j \notin B
  BY <1>1
<1>4. IsFiniteSet(A)
  <2>1. IsFiniteSet(1..(i - 1))
    BY <1>1, FS_Interval
  <2>2. A \in SUBSET (1..(i - 1))
    OBVIOUS
  <2> QED BY <2>1, <2>2, FS_Subset
<1> HIDE DEF A, B
<1>5. IsFiniteSet(B) /\ IsFiniteSet(B \cup {j}) /\ Cardinality(B \cup {j}) <= Cardinality(A)
  BY <1>3, <1>4, FS_Subset
<1>6. Cardinality(B \cup {j}) = Cardinality(B) + 1
  BY <1>3, <1>5, FS_AddElement
<1>7. Cardinality(A) \in Nat /\ Cardinality(B) \in Nat
  BY <1>4, <1>5, FS_CardinalityType
<1> QED BY <1>2, <1>5, <1>6, <1>7

\* an insert removes only what has the key of a row that it brings in
LEMMA InsertedKeeps ==
  ASSUME NEW seen, NEW s, NEW chosen, NEW d \in seen,
         \A j \in chosen : Entry(s, j).table # d.table
  PROVE  d \in Inserted(seen, s, chosen)
BY DEF Inserted, SamePK

\* INSERT OR REPLACE / INSERT OR IGNORE leaves an entry under the key of every row, and the row itself
\* where rows are numbered and no earlier row has its key
LEMMA InsertedHolds ==
  ASSUME NEW seen, NEW s \in Seq(Rows), NEW chosen \in SUBSET (1..Len(s)), NEW j \in chosen, NEW t \in Tables,
         \A r \in RowsOf(s) : TableOf[r] = t, t # "process_snapshots",
         t \in Numbered => \A d \in seen : ~(d.table = t /\ d.key = KeyOf[s[j]])
  PROVE  Held(Inserted(seen, s, chosen), s[j])
<1> DEFINE new == {i \in chosen :
                     IF TableOf[s[i]] \in Replacing
                     THEN \A k \in chosen : k > i => ~SamePK(Entry(s, i), Entry(s, k))
                     ELSE /\ \A d \in seen : ~SamePK(d, Entry(s, i))
                          /\ \A k \in chosen : k < i => ~SamePK(Entry(s, k), Entry(s, i))}
           same == {i \in chosen : SamePK(Entry(s, i), Entry(s, j))}
<1>1. Len(s) \in Nat
  BY LenProperties
<1>2. \A i \in chosen : /\ TableOf[s[i]] = t /\ Entry(s, i).table = t /\ Entry(s, i).key = KeyOf[s[i]]
                        /\ Entry(s, i).row = s[i] /\ Entry(s, i).seq = SeqNo(s, i)
  BY DEF RowsOf, Entry
<1>3. \A i \in new : Entry(s, i) \in Inserted(seen, s, chosen)
  BY DEF Inserted, SamePK
<1>4. \A i \in same : KeyOf[s[i]] = KeyOf[s[j]]
  BY <1>2 DEF SamePK
<1>5. same \in SUBSET (1..Len(s)) /\ j \in same
  BY DEF SamePK
<1>6. CASE t \in Replacing
  <2>1. PICK i \in same : \A k \in same : k <= i
    BY <1>1, <1>5, LastPosition
  <2>2. ASSUME NEW k \in chosen, k > i PROVE ~SamePK(Entry(s, i), Entry(s, k))
    <3>1. k \notin same
      BY <1>1, <1>5, <2>1, <2>2
    <3>2. SamePK(Entry(s, i), Entry(s, k)) => SamePK(Entry(s, k), Entry(s, j))
      BY DEF SamePK
    <3> QED BY <3>1, <3>2
  <2>3. i \in new
    BY <1>2, <1>6, <2>2
  <2>4. t = "system_snapshots"
    BY <1>6
  <2> QED BY <1>2, <1>3, <1>4, <2>3, <2>4 DEF Held
<1>7. CASE t \notin Replacing /\ t \notin Numbered
  <2>0. t \in {"system_snapshots", "requests", "tool_invocations"}
    BY <1>7 DEF Tables, Order
  <2>1. CASE \E d \in seen : SamePK(d, Entry(s, j))
    <3>1. PICK d \in seen : SamePK(d, Entry(s, j))
      BY <2>1
    <3>2. \A i \in new : ~SamePK(d, Entry(s, i))
      BY <1>2, <1>7
    <3>3. d \in Inserted(seen, s, chosen)
      BY <3>2 DEF Inserted, SamePK
    <3>4. d.table = t /\ d.key = KeyOf[s[j]]
      BY <1>2, <3>1 DEF SamePK
    <3> QED BY <1>2, <2>0, <3>3, <3>4 DEF Held
  <2>2. CASE \A d \in seen : ~SamePK(d, Entry(s, j))
    <3>1. PICK i \in same : \A k \in same : i <= k
      BY <1>1, <1>5, FirstPosition
    <3>2. ASSUME NEW k \in chosen, k < i PROVE ~SamePK(Entry(s, k), Entry(s, i))
      <4>1. k \notin same
        BY <1>1, <1>5, <3>1, <3>2
      <4>2. SamePK(Entry(s, k), Entry(s, i)) => SamePK(Entry(s, k), Entry(s, j))
        BY DEF SamePK
      <4> QED BY <4>1, <4>2
    <3>3. \A d \in seen : ~SamePK(d, Entry(s, i))
      BY <2>2 DEF SamePK
    <3>4. i \in new
      BY <1>2, <1>7, <3>2, <3>3
    <3> QED BY <1>2, <1>3, <1>4, <2>0, <3>4 DEF Held
  <2> QED BY <2>1, <2>2
<1>8. CASE t \in Numbered
  <2>1. \A d \in seen : ~SamePK(d, Entry(s, j))
    BY <1>2, <1>8 DEF SamePK
  <2>2. ASSUME NEW k \in chosen, k < j, SamePK(Entry(s, k), Entry(s, j)) PROVE FALSE
    <3>1. SeqNo(s, k) = SeqNo(s, j) /\ KeyOf[s[k]] = KeyOf[s[j]]
      BY <1>2, <2>2 DEF SamePK
    <3>2. SeqNo(s, k) < SeqNo(s, j)
      BY <1>2, <1>8, <2>2, <3>1, SeqNoDiffers
    <3>3. SeqNo(s, j) \in Int
      <4>1. Entry(s, j) \in Entries
        BY EntryType
      <4> QED BY <1>2, <4>1 DEF Entries
    <3> QED BY <3>1, <3>2, <3>3
  <2>3. j \in new
    BY <1>2, <1>8, <2>1, <2>2
  <2> QED BY <1>2, <1>3, <2>3 DEF Held, Stored
<1> QED BY <1>6, <1>7, <1>8
\* Steps that move no row and bring nothing into a store: what was open stays as it was, or is over
LEMMA LossQuiet ==
  ASSUME TypeOK, LossInv, UNCHANGED <<buf, batch, arrived, connected, known, at, using>>, torn \subseteq torn',
         \A m \in {"file", "memory"} : store'[m] \subseteq store[m],
         \A c \in Conns : \/ txn'[c] = txn[c] /\ store'[Source(c)] = store[Source(c)]
                          \/ ~txn'[c].open /\ txn'[c].rows \subseteq txn[c].rows,
         pc[Loop] = "write" => pc'[Loop] = "write" \/ ~txn'[using[Loop]].open,
         pc'[Loop] \in {"idle", "settle"} => In(batch[Loop]) = {},
         pc'[Loop] = "write" =>
           /\ pc[Loop] = "write"
           /\ \/ \A r \in In(batch[Loop]) : KeyOf[r] \in torn'
              \/ txn'[using[Loop]] = txn[using[Loop]] /\ SeenCovered(using[Loop]) \subseteq SeenCovered(using[Loop])'
  PROVE  LossInv'
<1>1. BatchGone' /\ OneTxn'
  BY ThreadAssumption DEF LossInv, BatchGone, OneTxn
<1>2. ReadFirst'
  BY DEF LossInv, ReadFirst, Torn
<1>3. Everything' \subseteq Everything
  BY DEF Everything
<1>4. AllProper'
  BY <1>3 DEF LossInv, AllProper, Proper
<1>5. TxnAdds'
  <2> SUFFICES ASSUME NEW c \in Conns, txn'[c].open, NEW e \in txn'[c].rows
               PROVE  e \in store'[Source(c)] \/ Adds(c, e)'
    BY DEF TxnAdds, Source
  <2>1. txn'[c] = txn[c] /\ store'[Source(c)] = store[Source(c)]
    OBVIOUS
  <2>2. e \in store[Source(c)] \/ Adds(c, e)
    BY <2>1 DEF LossInv, TxnAdds
  <2> QED BY <2>1, <2>2 DEF Adds, Done
<1>6. Fresh' /\ KeysApart'
  BY <1>3 DEF LossInv, Fresh, KeysApart, Pending, Torn
<1>7. Written'
  <2> SUFFICES ASSUME pc'[Loop] = "write", NEW i \in 1..at[Loop], NEW r \in RowsOf(batch[Loop][Order[i]])
               PROVE  Said(r)'
    BY DEF Written
  <2>1. i \in 1..6 /\ Order[i] \in Tables
    BY DEF TypeOK, Tables
  <2>2. r \in In(batch[Loop]) /\ Said(r)
    BY <2>1 DEF LossInv, Written, In
  <2> QED BY <2>2 DEF Said, Torn, Covered, Held
<1> QED BY <1>1, <1>2, <1>4, <1>5, <1>6, <1>7 DEF LossInv

LEMMA LossAppend ==
  ASSUME Lossless, TypeOK, Once, InOrder, LossInv, NEW c \in Calls, AppendRows(c)
  PROVE  LossInv' /\ Pending \subseteq Pending'
<1>1. c \in Seq(Rows) /\ RowsOf(c) \cap RowsOf(arrived) = {} /\ arrived' = arrived \o c /\ arrived \in Seq(Rows)
  BY RowAssumption DEF AppendRows, TypeOK
<1>2. RowsOf(arrived') = RowsOf(arrived) \cup RowsOf(c) /\ RowsOf(arrived) \subseteq Rows /\ RowsOf(c) \subseteq Rows
  <2>1. \A s \in Seq(Rows) : RowsOf(s) \subseteq Rows
    BY ElementOfSeq DEF RowsOf
  <2> QED BY <1>1, <2>1, Joined
<1>3. ASSUME NEW t \in Tables PROVE RowsOf(buf[t]) \subseteq RowsOf(buf'[t]) /\ RowsOf(buf'[t]) \subseteq RowsOf(buf[t]) \cup RowsOf(c)
  <2>1. RowsOf(buf[t] \o c) = RowsOf(buf[t]) \cup RowsOf(c)
    BY <1>1, Joined DEF TypeOK
  <2>2. buf'[t] = buf[t] \o c \/ buf'[t] = buf[t]
    BY DEF AppendRows
  <2> QED BY <2>1, <2>2
<1>4. UNCHANGED <<batch, pc, at, known, using, connected, store, transcripts, txn, torn>>
  BY DEF AppendRows
<1>5. In(buf) \subseteq In(buf') /\ In(buf') \subseteq In(buf) \cup RowsOf(c)
  BY <1>3 DEF In
<1>6. Pending \subseteq Pending' /\ Pending' \subseteq Pending \cup RowsOf(c)
  BY <1>4, <1>5 DEF Pending
<1>7. Pending \subseteq RowsOf(arrived)
  BY DEF Once, Known
\* a new row shares no numbered key with one that came before
<1>8. ASSUME NEW q \in RowsOf(c), NEW r \in RowsOf(arrived), TableOf[q] \in Numbered, TableOf[r] = TableOf[q]
      PROVE  KeyOf[r] # KeyOf[q]
  BY <1>1, <1>2, <1>8 DEF Lossless
<1>9. BatchGone' /\ OneTxn' /\ ReadFirst' /\ TxnAdds' /\ Written'
  BY <1>4 DEF LossInv, BatchGone, OneTxn, ReadFirst, TxnAdds, Adds, Written, Said, Done, Covered, Held, Torn, SeenCovered
<1>10. AllProper'
  BY <1>2, <1>4 DEF LossInv, AllProper, Proper, Everything
<1>11. Fresh'
  <2> SUFFICES ASSUME NEW r \in Pending', TableOf[r] \in Numbered, ~Torn(r), NEW e \in Everything,
                      e.table = TableOf[r], e.key = KeyOf[r]
               PROVE  FALSE
    BY <1>4 DEF Fresh, Everything, Torn
  <2>1. r \notin Pending
    BY DEF LossInv, Fresh
  <2>2. r \in RowsOf(c) /\ e.row \in RowsOf(arrived) /\ TableOf[e.row] = TableOf[r] /\ KeyOf[e.row] = KeyOf[r]
    BY <1>6, <2>1 DEF LossInv, AllProper, Proper
  <2> QED BY <1>8, <2>2
<1>12. KeysApart'
  <2> SUFFICES ASSUME NEW r \in In(batch[Loop]), NEW q \in In(buf'), TableOf[r] \in Numbered, TableOf[q] = TableOf[r]
               PROVE  KeyOf[q] # KeyOf[r]
    BY <1>4 DEF KeysApart
  <2>1. CASE q \in In(buf)
    BY <2>1 DEF LossInv, KeysApart
  <2>2. CASE q \in RowsOf(c)
    BY <1>7, <1>8, <2>2 DEF Pending
  <2> QED BY <1>5, <2>1, <2>2
<1> QED BY <1>6, <1>9, <1>10, <1>11, <1>12 DEF LossInv

LEMMA LossSwap ==
  ASSUME TypeOK, LossInv, Swap(Loop)
  PROVE  LossInv' /\ Pending \subseteq Pending'
<1>1. /\ batch'[Loop] = buf /\ batch'[Closer] = batch[Closer] /\ buf' = Empty
      /\ pc[Loop] = "idle" /\ pc'[Loop] = IF buf = Empty THEN "settle" ELSE "connect"
      /\ UNCHANGED <<at, known, using, connected, store, transcripts, txn, arrived, torn>>
  BY ThreadAssumption DEF Swap, Goto, TypeOK
<1>2. In(buf') = {} /\ In(batch[Loop]) = {} /\ In(batch'[Closer]) = {} /\ (buf = Empty => In(buf) = {})
  BY <1>1, EmptyType DEF LossInv, BatchGone
<1>3. Pending' = Pending
  BY <1>1, <1>2 DEF Pending
<1>4. \A c \in Flushers : ~txn[c].open
  BY <1>1 DEF LossInv, OneTxn
<1>5. BatchGone' /\ OneTxn' /\ ReadFirst' /\ TxnAdds' /\ Written'
  BY <1>1, <1>2, <1>4 DEF LossInv, BatchGone, OneTxn, ReadFirst, TxnAdds, Adds, Source, Written
<1>6. AllProper' /\ Fresh' /\ KeysApart'
  BY <1>1, <1>2, <1>3 DEF LossInv, AllProper, Proper, Everything, Fresh, KeysApart, Torn
<1> QED BY <1>3, <1>5, <1>6 DEF LossInv

LEMMA LossConnect ==
  ASSUME TypeOK, LossInv, Connect(Loop) \/ ConnectFails(Loop) \/ ReadCovered(Loop)
  PROVE  LossInv' /\ Pending' = Pending
<1>1. ~ConnectFails(Loop)
  BY DEF ConnectFails, LossInv, OneTxn
<1>2. UNCHANGED <<buf, batch, store, transcripts, txn, arrived, torn>>
  BY <1>1 DEF Connect, ReadCovered
<1>3. Pending' = Pending /\ AllProper' /\ Fresh' /\ KeysApart'
  BY <1>2 DEF LossInv, AllProper, Proper, Everything, Fresh, KeysApart, Pending, Torn
<1>4. CASE Connect(Loop)
  <2>1. /\ pc[Loop] = "connect" /\ pc'[Loop] = "write" /\ Loop \in connected' /\ at'[Loop] = 0 /\ known'[Loop] = {}
    BY <1>4 DEF Connect, Goto, TypeOK, LossInv, OneTxn
  <2>2. \A c \in Flushers : ~txn[c].open
    BY <2>1 DEF LossInv, OneTxn
  <2>3. BatchGone' /\ OneTxn' /\ ReadFirst' /\ Written'
    BY <1>2, <2>1, <2>2 DEF LossInv, BatchGone, OneTxn, ReadFirst, Written
  <2>4. TxnAdds'
    BY <1>2, <2>1 DEF LossInv, TxnAdds, Adds, Source
  <2> QED BY <1>3, <2>3, <2>4 DEF LossInv
<1>5. CASE ReadCovered(Loop)
  <2>1. UNCHANGED <<pc, at, using, connected>> /\ known'[Loop] = {SeenCovered(using[Loop])}
    BY <1>5 DEF ReadCovered, TypeOK
  <2>2. ReadFirst'
    BY <1>2, <2>1 DEF ReadFirst, SeenCovered
  <2>3. BatchGone' /\ OneTxn' /\ TxnAdds' /\ Written'
    BY <1>2, <2>1 DEF LossInv, BatchGone, OneTxn, TxnAdds, Adds, Written, Said, Done, Covered, Held, Torn, SeenCovered
  <2> QED BY <1>3, <2>2, <2>3 DEF LossInv
<1> QED BY <1>1, <1>4, <1>5

LEMMA LossRebuffer ==
  ASSUME TypeOK, LossInv, Rebuffer(Loop)
  PROVE  LossInv' /\ \A r \in Pending : r \in Pending' \/ r \in dropped'
<1>1. /\ batch'[Loop] = Empty /\ batch'[Closer] = batch[Closer] /\ pc[Loop] = "rebuffer" /\ pc'[Loop] = "settle"
      /\ dropped' = dropped \cup ((In(buf) \cup In(batch[Loop])) \ In(buf'))
      /\ UNCHANGED <<at, known, using, connected, store, transcripts, txn, arrived, torn>>
  BY ThreadAssumption DEF Rebuffer, Goto, TypeOK
<1>2. In(buf') \subseteq In(buf) \cup In(batch[Loop])
  <2> SUFFICES ASSUME NEW t \in Tables PROVE RowsOf(buf'[t]) \subseteq RowsOf(batch[Loop][t]) \cup RowsOf(buf[t])
    BY DEF In
  <2> DEFINE both == batch[Loop][t] \o buf[t]
  <2>1. both \in Seq(Rows) /\ RowsOf(both) = RowsOf(batch[Loop][t]) \cup RowsOf(buf[t]) /\ buf'[t] = Newest(both)
    BY Joined DEF TypeOK, Rebuffer
  <2> HIDE DEF both
  <2> QED BY <2>1, Cut
<1>3. In(batch'[Loop]) = {}
  BY <1>1, EmptyType
<1>4. Pending' \subseteq Pending
  BY <1>1, <1>2, <1>3 DEF Pending
<1>5. \A c \in Flushers : ~txn[c].open
  BY <1>1 DEF LossInv, OneTxn
<1>6. BatchGone' /\ OneTxn' /\ ReadFirst' /\ TxnAdds' /\ Written'
  BY <1>1, <1>3, <1>5 DEF LossInv, BatchGone, OneTxn, ReadFirst, TxnAdds, Adds, Source, Written
<1>7. AllProper' /\ Fresh' /\ KeysApart'
  BY <1>1, <1>3, <1>4 DEF LossInv, AllProper, Proper, Everything, Fresh, KeysApart, Torn
<1>8. \A r \in Pending : r \in Pending' \/ r \in dropped'
  BY <1>1 DEF Pending
<1> QED BY <1>6, <1>7, <1>8 DEF LossInv

LEMMA LossFails == ASSUME TypeOK, LossInv, SqlFails(Loop) PROVE LossInv' /\ Pending' = Pending
<1>1. /\ UNCHANGED <<buf, batch, arrived, connected, known, at, using, store, transcripts, torn>>
      /\ txn' = [txn EXCEPT ![using[Loop]] = Ended] /\ pc'[Loop] = "rebuffer"
  BY DEF SqlFails, Goto, TypeOK
<1>2. /\ ~txn'[using[Loop]].open
      /\ \A c \in Conns : txn'[c] = txn[c] \/ (~txn'[c].open /\ txn'[c].rows \subseteq txn[c].rows)
  <2>1. ~Ended.open /\ Ended.rows = {}
    BY DEF Ended
  <2> QED BY <1>1, <2>1 DEF TypeOK
<1>3. LossInv'
  BY <1>1, <1>2, LossQuiet
<1> QED BY <1>1, <1>3 DEF Pending

\* what the loop and the file do
LEMMA LossOther ==
  ASSUME TypeOK, LossInv, Settle \/ DiskChanges \/ UNCHANGED vars
  PROVE  LossInv' /\ Pending' = Pending
<1>1. UNCHANGED <<buf, batch, arrived, connected, known, at, using, torn>>
  BY DEF Settle, DiskChanges, vars
<1>2. CASE DiskChanges \/ UNCHANGED vars
  <2>1. UNCHANGED <<pc, store, transcripts, txn>>
    BY <1>2 DEF DiskChanges, vars
  <2>2. SeenCovered(using[Loop])' = SeenCovered(using[Loop])
    BY <1>1, <2>1 DEF SeenCovered
  <2>3. pc[Loop] \in {"idle", "settle"} => In(batch[Loop]) = {}
    BY DEF LossInv, BatchGone
  <2>4. LossInv'
    BY <1>1, <2>1, <2>2, <2>3, LossQuiet
  <2> QED BY <1>1, <2>4 DEF Pending
<1>3. CASE Settle
  <2>1. pc[Loop] = "settle" /\ pc'[Loop] = "idle"
    BY <1>3 DEF Settle, Goto, TypeOK
  <2>2. Seen(Shared) \subseteq store["memory"]
    BY <2>1, ThreadAssumption DEF LossInv, TxnAdds, Adds, Seen, Source
  <2>3. /\ \A m \in {"file", "memory"} : store'[m] \subseteq store[m]
        /\ \A c \in Conns : \/ txn'[c] = txn[c] /\ store'[Source(c)] = store[Source(c)]
                            \/ ~txn'[c].open /\ txn'[c].rows \subseteq txn[c].rows
    <3>1. UNCHANGED <<fileVars, txn>> \/ Evict
      BY <1>3 DEF Settle, NoteFlushError
    <3>2. CASE ~UNCHANGED <<fileVars, txn>>
      <4>1. PICK gone \in (SUBSET Seen(Shared)) \ {{}} :
              /\ store' = [store EXCEPT !["memory"] = Seen(Shared) \ gone]
              /\ txn' = [txn EXCEPT ![Shared] = Ended]
        BY <3>1, <3>2 DEF Evict
      <4>2. ~Ended.open /\ Ended.rows = {}
        BY DEF Ended
      <4>3. \A m \in {"file", "memory"} : store'[m] \subseteq store[m]
        BY <2>2, <4>1 DEF TypeOK
      <4> QED BY <4>1, <4>2, <4>3, ThreadAssumption DEF TypeOK, Source
    <3> QED BY <3>1, <3>2
  <2>4. In(batch[Loop]) = {}
    BY <2>1 DEF LossInv, BatchGone
  <2>5. LossInv'
    BY <1>1, <2>1, <2>3, <2>4, LossQuiet
  <2> QED BY <1>1, <2>5 DEF Pending
<1> QED BY <1>2, <1>3

\* A transcript that fails, or is committed, tears the batch that is being written on the same connection
LEMMA TearsBatch ==
  ASSUME TypeOK, Tear, pc[Loop] = "write", using[Loop] = Shared
  PROVE  \A r \in In(batch[Loop]) : KeyOf[r] \in torn'
BY DEF Tear

LEMMA LossTranscript ==
  ASSUME TypeOK, LossInv, NEW s \in Sessions, TranscriptWrite(s) \/ TranscriptUpsert(s) \/ TranscriptFails(s)
  PROVE  LossInv' /\ Pending' = Pending
<1>1. UNCHANGED <<buf, batch, arrived, connected, known, at, using, pc>> /\ torn \subseteq torn'
  BY TranscriptFrame DEF TranscriptStep, TranscriptWrite, TranscriptUpsert, TranscriptFails, Tear
<1>2. pc[Loop] \in {"idle", "settle"} => In(batch[Loop]) = {}
  BY DEF LossInv, BatchGone
<1>3. using[Loop] \in Conns /\ using[Loop] \in {Loop, Shared}
  BY DEF TypeOK
<1>4. CASE TranscriptWrite(s)
  <2>1. /\ txn' = txn /\ \A c \in Flushers : ~txn[c].open
        /\ store'["file"] \subseteq store["file"] /\ store'["memory"] = store["memory"]
        /\ \A m \in {"file", "memory"} : transcripts[m] \subseteq transcripts'[m]
    BY <1>4 DEF TranscriptWrite, WithoutSuperseded, TypeOK
  <2>2. SeenCovered(using[Loop]) \subseteq SeenCovered(using[Loop])'
    BY <1>1, <1>3, <2>1, SourceType DEF SeenCovered
  <2>3. \A c \in Conns : \/ txn'[c] = txn[c] /\ store'[Source(c)] = store[Source(c)]
                         \/ ~txn'[c].open /\ txn'[c].rows \subseteq txn[c].rows
    BY <2>1, ThreadAssumption DEF Source
  <2>4. LossInv'
    BY <1>1, <1>2, <2>1, <2>2, <2>3, LossQuiet
  <2> QED BY <1>1, <2>4 DEF Pending
<1>5. CASE TranscriptFails(s)
  <2>1. txn' = [txn EXCEPT ![Shared] = Ended] /\ UNCHANGED <<store, transcripts>> /\ Tear
    BY <1>5 DEF TranscriptFails
  <2>2. ~Ended.open /\ Ended.rows = {}
    BY DEF Ended
  <2>3. \A c \in Conns : txn'[c] = txn[c] \/ (~txn'[c].open /\ txn'[c].rows \subseteq txn[c].rows)
    BY <2>1, <2>2 DEF TypeOK
  <2>4. pc[Loop] = "write" => \/ \A r \in In(batch[Loop]) : KeyOf[r] \in torn'
                              \/ /\ txn'[using[Loop]] = txn[using[Loop]]
                                 /\ SeenCovered(using[Loop])' = SeenCovered(using[Loop])
    <3>1. CASE using[Loop] = Shared
      BY <2>1, <3>1, TearsBatch
    <3>2. CASE using[Loop] = Loop
      BY <1>1, <2>1, <3>2, ThreadAssumption DEF SeenCovered, TypeOK
    <3> QED BY <1>3, <3>1, <3>2
  <2>5. LossInv'
    BY <1>1, <1>2, <2>1, <2>3, <2>4, LossQuiet
  <2> QED BY <1>1, <2>5 DEF Pending
<1>6. CASE TranscriptUpsert(s)
  <2>1. /\ UNCHANGED <<store, transcripts, torn>>
        /\ txn'[Shared].open /\ txn'[Shared].rows = Seen(Shared)
        /\ txn'[Shared].covered = txn[Shared].covered \cup {s}
        /\ \A c \in Flushers : txn'[c] = txn[c]
    BY <1>6, ThreadAssumption DEF TranscriptUpsert, TypeOK
  <2>2. SeenCovered(using[Loop]) \subseteq SeenCovered(using[Loop])'
    BY <1>1, <1>3, <2>1 DEF SeenCovered
  <2>3. BatchGone' /\ OneTxn' /\ ReadFirst' /\ Fresh' /\ KeysApart'
    BY <1>1, <2>1, <2>2 DEF LossInv, BatchGone, OneTxn, ReadFirst, Fresh, KeysApart, Pending, Everything, Torn
  <2>4. AllProper'
    <3>1. \A e \in Seen(Shared) : Proper(e)
      BY DEF LossInv, AllProper, Seen, Source, Everything
    <3> QED BY <1>1, <2>1, <3>1 DEF LossInv, AllProper, Proper, Everything
  <2>5. TxnAdds'
    <3> SUFFICES ASSUME NEW c \in Conns, txn'[c].open, NEW e \in txn'[c].rows
                 PROVE  e \in store[Source(c)] \/ Adds(c, e)
      BY <1>1, <2>1 DEF TxnAdds, Adds, Done, Source
    <3>1. txn[c].open => \A d \in txn[c].rows : d \in store[Source(c)] \/ Adds(c, d)
      BY DEF LossInv, TxnAdds
    <3> QED BY <2>1, <3>1 DEF Seen
  <2>6. Written'
    <3> SUFFICES ASSUME pc[Loop] = "write", NEW i \in 1..at[Loop], NEW r \in RowsOf(batch[Loop][Order[i]])
                 PROVE  Said(r)'
      BY <1>1 DEF Written
    <3>1. Said(r)
      BY DEF LossInv, Written
    <3>2. txn[using[Loop]].open => txn'[using[Loop]].open /\ txn'[using[Loop]].rows = txn[using[Loop]].rows
      BY <1>3, <2>1 DEF Seen
    <3> QED BY <1>1, <2>1, <2>2, <3>1, <3>2 DEF Said, Torn, Covered
  <2> QED BY <1>1, <2>3, <2>4, <2>5, <2>6 DEF LossInv, Pending
<1> QED BY <1>4, <1>5, <1>6

LEMMA LossTranscriptCommit ==
  ASSUME TypeOK, LossInv, NEW s \in Sessions, TranscriptCommit(s)
  PROVE  LossInv' /\ Pending' = Pending
<1>1. /\ UNCHANGED <<buf, batch, arrived, connected, known, at, using, pc>>
      /\ torn \subseteq torn' /\ Tear
      /\ store' = [store EXCEPT !["memory"] = WithoutSuperseded(Seen(Shared), s)]
      /\ transcripts' = [transcripts EXCEPT !["memory"] = SeenCovered(Shared)]
      /\ txn' = [txn EXCEPT ![Shared] = Ended]
  BY DEF TranscriptCommit, Tear
<1>2. /\ ~txn'[Shared].open /\ txn'[Shared].rows = {} /\ \A c \in Flushers : txn'[c] = txn[c]
      /\ store'["file"] = store["file"] /\ transcripts'["file"] = transcripts["file"]
      /\ store'["memory"] \subseteq Seen(Shared)
  <2>1. ~Ended.open /\ Ended.rows = {}
    BY DEF Ended
  <2> QED BY <1>1, <2>1, ThreadAssumption DEF TypeOK, WithoutSuperseded
<1>3. using[Loop] \in {Loop, Shared}
  BY DEF TypeOK
<1>4. \A e \in Everything' : e \in Everything \/ (txn[Shared].open /\ e \in txn[Shared].rows)
  BY <1>2 DEF Everything, Seen, Source
<1>5. pc[Loop] = "write" /\ using[Loop] = Shared => \A r \in In(batch[Loop]) : KeyOf[r] \in torn'
  BY <1>1, TearsBatch
<1>6. pc[Loop] = "write" /\ using[Loop] = Loop =>
        SeenCovered(using[Loop])' = SeenCovered(using[Loop]) /\ txn'[using[Loop]] = txn[using[Loop]]
  BY <1>1, <1>2, ThreadAssumption DEF SeenCovered, Source
<1>7. BatchGone' /\ OneTxn' /\ KeysApart'
  BY <1>1, <1>2 DEF LossInv, BatchGone, OneTxn, KeysApart
<1>8. ReadFirst'
  BY <1>1, <1>3, <1>5, <1>6 DEF LossInv, ReadFirst, Torn
<1>9. AllProper'
  <2>1. \A e \in Everything' : Proper(e)
    BY <1>4 DEF LossInv, AllProper
  <2>2. \A c \in Conns : \A e \in txn'[c].rows : Proper(e)
    BY <1>2 DEF LossInv, AllProper
  <2> QED BY <1>1, <2>1, <2>2 DEF AllProper, Proper
<1>10. TxnAdds'
  <2> SUFFICES ASSUME NEW c \in Flushers, txn[c].open, NEW e \in txn[c].rows
               PROVE  e \in store'[Source(c)] \/ Adds(c, e)
    BY <1>1, <1>2 DEF TxnAdds, Adds, Done, Source
  <2>1. e \in store[Source(c)] \/ Adds(c, e)
    BY DEF LossInv, TxnAdds
  <2> QED BY <1>2, <2>1, ThreadAssumption DEF Source
<1>11. Fresh'
  <2> SUFFICES ASSUME NEW r \in Pending, TableOf[r] \in Numbered, KeyOf[r] \notin torn', NEW e \in Everything',
                      e.table = TableOf[r], e.key = KeyOf[r]
               PROVE  FALSE
    BY <1>1 DEF Fresh, Torn, Pending
  <2>1. e \notin Everything
    BY <1>1 DEF LossInv, Fresh, Torn
  <2>2. txn[Shared].open /\ e \in txn[Shared].rows /\ e \notin store["memory"]
    BY <1>4, <2>1 DEF Everything
  <2>3. Adds(Shared, e)
    BY <2>2 DEF LossInv, TxnAdds, Source
  <2>4. KeyOf[e.row] \in torn'
    BY <1>5, <2>3 DEF Adds
  <2>5. e.key = KeyOf[e.row]
    BY <2>2 DEF LossInv, AllProper, Proper
  <2> QED BY <2>4, <2>5
<1>12. Written'
  <2> SUFFICES ASSUME pc[Loop] = "write", NEW i \in 1..at[Loop], NEW r \in RowsOf(batch[Loop][Order[i]])
               PROVE  Said(r)'
    BY <1>1 DEF Written
  <2>1. i \in 1..6 /\ Order[i] \in Tables
    BY DEF TypeOK, Tables
  <2>2. r \in In(batch[Loop]) /\ Said(r)
    BY <2>1 DEF LossInv, Written, In
  <2> QED BY <1>1, <1>3, <1>5, <1>6, <2>2 DEF Said, Torn, Covered, Held
<1> QED BY <1>1, <1>7, <1>8, <1>9, <1>10, <1>11, <1>12 DEF LossInv, Pending

\* the tables between the last one written and the next have no rows, and none is left when there is no next
LEMMA NextIsNext ==
  ASSUME TypeOK
  PROVE  /\ NextTable(Loop) = 0 => \A i \in 1..6 : i > at[Loop] => batch[Loop][Order[i]] = <<>>
         /\ NextTable(Loop) # 0 =>
              /\ NextTable(Loop) \in 1..6 /\ NextTable(Loop) > at[Loop]
              /\ \A i \in 1..6 : i > at[Loop] /\ i < NextTable(Loop) => batch[Loop][Order[i]] = <<>>
<1> DEFINE left == {i \in 1..6 : i > at[Loop] /\ batch[Loop][Order[i]] # <<>>}
<1>0. left \in SUBSET (1..6)
  OBVIOUS
<1>1. NextTable(Loop) = IF left = {} THEN 0 ELSE CHOOSE i \in left : \A j \in left : i <= j
  BY DEF NextTable
<1>2. CASE left = {}
  BY <1>1, <1>2
<1>3. CASE left # {}
  <2>1. \E i \in left : \A j \in left : i <= j
    <3> HIDE DEF left
    <3> QED BY <1>0, <1>3, FirstPosition
  <2>2. NextTable(Loop) \in left /\ \A j \in left : NextTable(Loop) <= j
    BY <1>1, <1>3, <2>1
  <2> QED BY <2>2
<1> QED BY <1>2, <1>3

\* a row of a table of the batch goes to that table, has waited since it was appended and shares its
\* number with nothing stored
LEMMA BatchRow ==
  ASSUME Lossless, TypeOK, Once, InOrder, LossInv, NEW i \in 1..6, NEW r \in RowsOf(batch[Loop][Order[i]])
  PROVE  /\ r \in Rows /\ TableOf[r] = Order[i] /\ Order[i] \in Tables /\ Order[i] # "process_snapshots"
         /\ r \in In(batch[Loop]) /\ r \in Pending /\ r \in RowsOf(arrived)
         /\ Order[i] \in Numbered /\ ~Torn(r) => \A e \in Everything : ~(e.table = Order[i] /\ e.key = KeyOf[r])
<1>1. Order[i] \in Tables
  BY DEF Tables
<1>2. TableOf[r] = Order[i]
  BY <1>1 DEF InOrder, Queued
<1>3. batch[Loop][Order[i]] \in Seq(Rows)
  BY <1>1 DEF TypeOK
<1>4. r \in Rows
  BY <1>3, LenProperties, ElementOfSeq DEF RowsOf
<1>5. r \in In(batch[Loop]) /\ r \in Pending
  BY <1>1 DEF In, Pending
<1>6. r \in RowsOf(arrived)
  BY <1>5 DEF Once, Known
<1>7. Order[i] # "process_snapshots"
  BY <1>2, <1>4 DEF Lossless
<1>8. Order[i] \in Numbered /\ ~Torn(r) => \A e \in Everything : ~(e.table = Order[i] /\ e.key = KeyOf[r])
  BY <1>2, <1>5 DEF LossInv, Fresh
<1> QED BY <1>1, <1>2, <1>4, <1>5, <1>6, <1>7, <1>8

LEMMA OrderApart == \A i, j \in 1..6 : i # j => Order[i] # Order[j]
BY DEF Order

LEMMA LossInsert ==
  ASSUME Lossless, TypeOK, Once, InOrder, LossInv, Insert(Loop)
  PROVE  LossInv' /\ Pending' = Pending
<1> DEFINE n == NextTable(Loop)
           s == batch[Loop][Order[n]]
           c == using[Loop]
           chosen == Chosen(Loop, s)
           seen == IF txn[c].open THEN txn[c].rows ELSE store[Source(c)]
<1>1. /\ pc[Loop] = "write" /\ n # 0 /\ at'[Loop] = n
      /\ txn' = IF chosen = {} THEN txn
                ELSE [txn EXCEPT ![c] = [@ EXCEPT !.open = TRUE, !.rows = Inserted(seen, s, chosen)]]
      /\ UNCHANGED <<batch, pc, known, using, connected, store, transcripts, buf, arrived, torn>>
  BY DEF Insert, Inserting, WriteRows, Seen, TypeOK
<1>2. /\ n \in 1..6 /\ n > at[Loop] /\ at[Loop] \in 0..6
      /\ \A i \in 1..6 : i > at[Loop] /\ i < n => batch[Loop][Order[i]] = <<>>
  BY <1>1, NextIsNext DEF TypeOK
<1>3. s \in Seq(Rows) /\ c \in Conns /\ Source(c) \in {"file", "memory"} /\ chosen \in SUBSET (1..Len(s))
  <2>1. Order[n] \in Tables
    BY <1>2 DEF Tables
  <2> QED BY <2>1, SourceType DEF TypeOK, Chosen
<1>4. \A r \in RowsOf(s) :
        /\ r \in Rows /\ TableOf[r] = Order[n] /\ Order[n] \in Tables /\ Order[n] # "process_snapshots"
        /\ r \in In(batch[Loop]) /\ r \in RowsOf(arrived)
        /\ Order[n] \in Numbered /\ ~Torn(r) => \A e \in Everything : ~(e.table = Order[n] /\ e.key = KeyOf[r])
  BY <1>2, BatchRow
<1>5. \A j \in 1..Len(s) : /\ s[j] \in RowsOf(s) /\ Entry(s, j).row = s[j] /\ Entry(s, j).table = Order[n]
                           /\ Entry(s, j).key = KeyOf[s[j]]
  BY <1>4 DEF RowsOf, Entry
<1>6. store[Source(c)] \subseteq Everything
  BY <1>3 DEF Everything
<1>7. Pending' = Pending
  BY <1>1 DEF Pending
<1>8. \A e \in Inserted(seen, s, chosen) : e \in seen \/ \E j \in chosen : e = Entry(s, j)
  BY DEF Inserted
<1>9. /\ chosen = {} => txn' = txn
      /\ chosen # {} => /\ txn'[c].open /\ txn'[c].rows = Inserted(seen, s, chosen)
                        /\ \A d \in Conns : d # c => txn'[d] = txn[d]
  BY <1>1, <1>3 DEF TypeOK
<1>91. txn'[c].covered = txn[c].covered
  BY <1>1, <1>3 DEF TypeOK
<1>10. BatchGone' /\ ReadFirst' /\ Fresh' /\ KeysApart'
  <2>1. BatchGone' /\ Fresh' /\ KeysApart'
    BY <1>1, <1>7 DEF LossInv, BatchGone, Fresh, KeysApart, Everything, Torn
  <2>2. ReadFirst'
    BY <1>1, <1>91 DEF LossInv, ReadFirst, SeenCovered, Torn
  <2> QED BY <2>1, <2>2
<1> HIDE DEF n, s, c, chosen
<1>11. OneTxn'
  BY <1>1, <1>9 DEF LossInv, OneTxn, c
<1>12. AllProper'
  <2>1. \A e \in seen : Proper(e)
    BY <1>3, <1>6 DEF LossInv, AllProper
  <2>2. \A j \in chosen : Proper(Entry(s, j))
    BY <1>3, <1>4, <1>5 DEF Proper
  <2>3. \A d \in Conns : \A e \in txn'[d].rows : Proper(e)
    BY <1>8, <1>9, <2>1, <2>2 DEF LossInv, AllProper
  <2> QED BY <1>1, <2>3 DEF LossInv, AllProper, Proper, Everything
<1>13. TxnAdds'
  <2> SUFFICES ASSUME NEW d \in Conns, txn'[d].open, NEW e \in txn'[d].rows
               PROVE  e \in store[Source(d)] \/ (d = c /\ e.row \in In(batch[Loop]) /\ e.table \in Done')
    BY <1>1 DEF TxnAdds, Adds, Done, Source, c
  <2>1. Done \subseteq Done' /\ Order[n] \in Done'
    BY <1>1, <1>2 DEF Done
  <2>2. CASE chosen = {} \/ d # c
    BY <1>9, <2>1, <2>2 DEF LossInv, TxnAdds, Adds, c
  <2>3. CASE chosen # {} /\ d = c
    <3>1. e \in Inserted(seen, s, chosen)
      BY <1>9, <2>3
    <3>2. CASE e \in seen
      BY <1>3, <2>1, <2>3, <3>2 DEF LossInv, TxnAdds, Adds
    <3>3. CASE \E j \in chosen : e = Entry(s, j)
      BY <1>3, <1>4, <1>5, <2>1, <2>3, <3>3
    <3> QED BY <1>8, <3>1, <3>2, <3>3
  <2> QED BY <2>2, <2>3
\* what the transaction shows has not yet a row of this table under the key of a row it numbers
<1>14. \A r \in RowsOf(s) : Order[n] \in Numbered /\ ~Torn(r) =>
         \A d \in seen : ~(d.table = Order[n] /\ d.key = KeyOf[r])
  <2> SUFFICES ASSUME NEW r \in RowsOf(s), Order[n] \in Numbered, ~Torn(r), NEW d \in seen, d.table = Order[n], d.key = KeyOf[r]
               PROVE  FALSE
    OBVIOUS
  <2>1. d \notin Everything
    BY <1>4
  <2>2. d \notin store[Source(c)]
    BY <1>6, <2>1
  <2>3. d.table \in Done
    BY <1>3, <2>2 DEF LossInv, TxnAdds, Adds
  <2>4. PICK i \in 1..at[Loop] : d.table = Order[i]
    BY <2>3 DEF Done
  <2>5. i \in 1..6 /\ i # n
    BY <1>2
  <2> QED BY <1>2, <2>4, <2>5, OrderApart
<1>15. \A j \in chosen : Torn(s[j]) \/ Held(Inserted(seen, s, chosen), s[j])
  <2> SUFFICES ASSUME NEW j \in chosen, ~Torn(s[j]) PROVE Held(Inserted(seen, s, chosen), s[j])
    OBVIOUS
  <2>1. j \in 1..Len(s) /\ s[j] \in RowsOf(s)
    BY <1>3, <1>5
  <2>2. Order[n] \in Tables /\ Order[n] # "process_snapshots"
    BY <1>4, <2>1
  <2>3. \A r \in RowsOf(s) : TableOf[r] = Order[n]
    BY <1>4
  <2>4. Order[n] \in Numbered => \A d \in seen : ~(d.table = Order[n] /\ d.key = KeyOf[s[j]])
    BY <1>14, <2>1
  <2> HIDE DEF seen
  <2> QED BY <1>3, <2>2, <2>3, <2>4, InsertedHolds
\* a row that is not handed over was in a transcript
<1>16. ASSUME NEW j \in 1..Len(s), j \notin chosen PROVE Torn(s[j]) \/ Covered(s[j])
  <2>1. TableOf[s[j]] = Order[n] /\ Order[n] # "process_snapshots" /\ s[j] \in In(batch[Loop])
    BY <1>4, <1>5
  <2>2. s[j] \in Superseded /\ SessionOf[s[j]] \in UNION known[Loop]
    BY <1>16, <2>1 DEF chosen, Chosen
  <2> QED BY <1>1, <2>1, <2>2 DEF LossInv, ReadFirst, Covered
<1>17. Written'
  <2> SUFFICES ASSUME NEW i \in 1..n, NEW r \in RowsOf(batch[Loop][Order[i]])
               PROVE  Torn(r) \/ Covered(r) \/ (txn'[c].open /\ Held(txn'[c].rows, r))
    BY <1>1, <1>91 DEF Written, Said, Covered, Held, Torn, SeenCovered, c
  <2>0. i \in 1..6 /\ (i <= at[Loop] => i \in 1..at[Loop])
    BY <1>2
  <2>1. CASE i = n
    <3>1. PICK j \in 1..Len(s) : r = s[j]
      BY <2>1 DEF RowsOf, s
    <3>2. CASE j \in chosen
      BY <1>9, <1>15, <3>1, <3>2
    <3> QED BY <1>16, <3>1, <3>2
  <2>2. CASE i <= at[Loop]
    <3>1. Torn(r) \/ Covered(r) \/ (txn[c].open /\ Held(txn[c].rows, r))
      BY <1>1, <2>0, <2>2 DEF LossInv, Written, Said, c
    <3>2. CASE Torn(r) \/ Covered(r) \/ chosen = {}
      BY <1>9, <3>1, <3>2
    <3>3. CASE ~Torn(r) /\ ~Covered(r) /\ chosen # {}
      <4>1. txn[c].open /\ Held(seen, r)
        BY <3>1, <3>3
      <4>2. TableOf[r] = Order[i] /\ Order[i] # Order[n]
        BY <1>2, <2>0, <2>2, BatchRow, OrderApart
      <4>3. \A e \in seen : e.table = Order[i] => e \in Inserted(seen, s, chosen)
        <5> SUFFICES ASSUME NEW e \in seen, e.table = Order[i] PROVE e \in Inserted(seen, s, chosen)
          OBVIOUS
        <5>1. \A j \in chosen : Entry(s, j).table # e.table
          BY <1>3, <1>5, <4>2
        <5> HIDE DEF seen
        <5> QED BY <5>1, InsertedKeeps
      <4>4. \A e \in seen : e.row = r => e.table = Order[i]
        BY <1>3, <4>1, <4>2 DEF LossInv, AllProper, Proper
      <4> HIDE DEF seen
      <4>5. Held(Inserted(seen, s, chosen), r)
        BY <4>1, <4>2, <4>3, <4>4 DEF Held, Stored
      <4> QED BY <1>9, <3>3, <4>5
    <3> QED BY <3>2, <3>3
  <2>3. CASE i > at[Loop] /\ i # n
    <3>1. batch[Loop][Order[i]] = <<>>
      BY <1>2, <2>0, <2>3
    <3> QED BY <3>1 DEF RowsOf
  <2> QED BY <1>2, <2>0, <2>1, <2>2, <2>3
<1> QED BY <1>7, <1>10, <1>11, <1>12, <1>13, <1>17 DEF LossInv

LEMMA LossCommit ==
  ASSUME Lossless, TypeOK, Once, InOrder, LossInv, Commit(Loop)
  PROVE  LossInv' /\ \A r \in Pending : r \in Pending' \/ Represented(r)' \/ KeyOf[r] \in torn'
<1> DEFINE c == using[Loop]
<1>1. /\ pc[Loop] = "write" /\ NextTable(Loop) = 0 /\ pc'[Loop] = "settle" /\ batch'[Loop] = Empty
      /\ batch'[Closer] = batch[Closer]
      /\ store' = [store EXCEPT ![Source(c)] = Seen(c)]
      /\ transcripts' = [transcripts EXCEPT ![Source(c)] = SeenCovered(c)]
      /\ txn' = [txn EXCEPT ![c] = Ended]
      /\ UNCHANGED <<at, known, using, connected, buf, arrived, torn>>
  BY ThreadAssumption DEF Commit, Goto, TypeOK
<1>2. c \in Conns /\ Source(c) \in {"file", "memory"}
  BY SourceType DEF TypeOK
<1>3. /\ ~txn'[c].open /\ txn'[c].rows = {} /\ \A d \in Conns : d # c => txn'[d] = txn[d]
      /\ \A d \in Flushers : ~txn'[d].open
  <2>1. ~Ended.open /\ Ended.rows = {}
    BY DEF Ended
  <2> QED BY <1>1, <1>2, <2>1 DEF LossInv, OneTxn, TypeOK
<1>4. /\ txn[c].open => txn[c].rows \subseteq Everything'
      /\ \A e \in Everything' : e \in Everything \/ (txn[c].open /\ e \in txn[c].rows)
  BY <1>1, <1>2 DEF Everything, Seen, TypeOK
<1>5. In(batch'[Loop]) = {} /\ Pending' = In(buf)
  BY <1>1, EmptyType DEF Pending, LossInv, BatchGone
<1>6. BatchGone' /\ OneTxn' /\ ReadFirst' /\ KeysApart' /\ Written'
  BY <1>1, <1>3, <1>5 DEF LossInv, BatchGone, OneTxn, ReadFirst, KeysApart, Written
<1>61. TxnAdds'
  <2> SUFFICES ASSUME NEW d \in Conns, txn'[d].open, NEW e \in txn'[d].rows PROVE e \in store'[Source(d)]
    BY DEF TxnAdds, Source
  <2>1. d = Shared /\ d # c /\ txn'[d] = txn[d]
    BY <1>3
  <2>2. e \in store[Source(d)]
    BY <2>1 DEF LossInv, TxnAdds, Adds
  <2>3. c = Loop
    BY <2>1 DEF TypeOK
  <2> QED BY <1>1, <2>1, <2>2, <2>3, ThreadAssumption DEF Source, TypeOK
<1> HIDE DEF c
<1>7. AllProper'
  <2>1. \A e \in Everything' : Proper(e)
    BY <1>2, <1>4 DEF LossInv, AllProper
  <2> QED BY <1>1, <1>3, <2>1 DEF LossInv, AllProper, Proper
<1>8. Fresh'
  <2> SUFFICES ASSUME NEW r \in In(buf), TableOf[r] \in Numbered, ~Torn(r), NEW e \in Everything',
                      e.table = TableOf[r], e.key = KeyOf[r]
               PROVE  FALSE
    BY <1>1, <1>5 DEF Fresh, Torn
  <2>1. e \notin Everything
    BY DEF LossInv, Fresh, Pending
  <2>2. e \notin store[Source(c)] /\ txn[c].open /\ e \in txn[c].rows
    BY <1>2, <1>4, <2>1 DEF Everything
  <2>3. e.row \in In(batch[Loop])
    BY <1>2, <2>2 DEF LossInv, TxnAdds, Adds
  <2>4. TableOf[e.row] = TableOf[r] /\ KeyOf[e.row] = KeyOf[r]
    BY <1>2, <2>2 DEF LossInv, AllProper, Proper
  <2> QED BY <2>3, <2>4 DEF LossInv, KeysApart
<1>9. ASSUME NEW r \in Pending, r \notin Pending' PROVE Represented(r)' \/ KeyOf[r] \in torn'
  <2>1. r \in In(batch[Loop])
    BY <1>5, <1>9 DEF Pending, LossInv, BatchGone
  <2>2. PICK t \in Tables : r \in RowsOf(batch[Loop][t])
    BY <2>1 DEF In
  <2>3. PICK i \in 1..6 : t = Order[i]
    BY DEF Tables
  <2>4. batch[Loop][Order[i]] # <<>>
    <3>1. \A s : s = <<>> => RowsOf(s) = {}
      BY DEF RowsOf
    <3> QED BY <2>2, <2>3, <3>1
  <2>5. i \in 1..at[Loop]
    <3>1. at[Loop] \in 0..6
      BY DEF TypeOK
    <3>2. ~(i > at[Loop])
      BY <1>1, <2>4, NextIsNext
    <3> QED BY <3>1, <3>2
  <2>6. Torn(r) \/ Covered(r) \/ (txn[c].open /\ Held(txn[c].rows, r))
    BY <1>1, <2>2, <2>3, <2>5 DEF LossInv, Written, Said, c
  <2>7. CASE Covered(r)
    <3>1. r \in Superseded /\ SessionOf[r] \in transcripts'[Source(c)]
      BY <1>1, <1>2, <2>7 DEF Covered, TypeOK, c
    <3> QED BY <1>2, <3>1 DEF Represented
  <2>8. CASE txn[c].open /\ Held(txn[c].rows, r)
    <3> DEFINE held == txn[c].rows
    <3>1. held \subseteq Everything' /\ Held(held, r)
      BY <1>4, <2>8
    <3> HIDE DEF held
    <3> QED BY <3>1 DEF Held, Represented, Stored
  <2> QED BY <1>1, <2>6, <2>7, <2>8 DEF Torn
<1> QED BY <1>6, <1>61, <1>7, <1>8, <1>9 DEF LossInv

LEMMA InitLoss == Lossless /\ WriteBehindInit => LossInv
<1> SUFFICES ASSUME Lossless, WriteBehindInit PROVE LossInv
  OBVIOUS
<1>1. /\ buf = Empty /\ batch[Loop] = Empty /\ batch[Closer] = Empty /\ pc[Loop] = "idle" /\ known[Loop] = {}
      /\ connected = Connected /\ \A c \in Conns : txn[c] = Ended
      /\ store["file"] = {} /\ store["memory"] = {}
  BY DEF WriteBehindInit
<1>2. ~Ended.open /\ Ended.rows = {}
  BY DEF Ended
<1>3. In(buf) = {} /\ In(batch[Loop]) = {} /\ In(batch[Closer]) = {}
  BY <1>1, EmptyType
<1>4. Everything = {} /\ Pending = {}
  BY <1>1, <1>3 DEF Everything, Pending
<1>5. BatchGone /\ OneTxn /\ ReadFirst /\ TxnAdds
  BY <1>1, <1>2, <1>3, ThreadAssumption DEF BatchGone, OneTxn, ReadFirst, TxnAdds, Lossless
<1>6. AllProper /\ Fresh /\ KeysApart /\ Written
  BY <1>1, <1>2, <1>3, <1>4 DEF AllProper, Fresh, KeysApart, Written
<1> QED BY <1>5, <1>6 DEF LossInv

LEMMA LossKept ==
  ASSUME Lossless, TypeOK, Once, InOrder, Solo, LossInv, [WriteBehindNext]_vars
  PROVE  LossInv' /\ \A r \in Pending : r \in Pending' \/ r \in dropped' \/ Represented(r)' \/ KeyOf[r] \in torn'
<1>0. ~Close /\ ~CloseReturns /\ ~FlushStep(Closer)
  BY SoloKept DEF Lossless
<1>1. ASSUME NEW c \in Calls, AppendRows(c) PROVE LossInv' /\ Pending \subseteq Pending'
  BY <1>1, LossAppend
<1>2. CASE Swap(Loop)
  BY <1>2, LossSwap
<1>3. CASE Connect(Loop) \/ ConnectFails(Loop) \/ ReadCovered(Loop)
  BY <1>3, LossConnect
<1>4. CASE Insert(Loop)
  BY <1>4, LossInsert
<1>5. ~RowRaises(Loop)
  BY DEF RowRaises, Lossless
<1>6. CASE Commit(Loop)
  BY <1>6, LossCommit
<1>7. CASE SqlFails(Loop)
  BY <1>7, LossFails
<1>8. CASE Rebuffer(Loop)
  BY <1>8, LossRebuffer
<1>9. CASE Settle \/ DiskChanges \/ UNCHANGED vars
  BY <1>9, LossOther
<1>10. ASSUME NEW s \in Sessions, TranscriptStep(s) PROVE LossInv' /\ Pending' = Pending
  BY <1>10, LossTranscript, LossTranscriptCommit DEF TranscriptStep
<1> QED BY <1>0, <1>1, <1>2, <1>3, <1>4, <1>5, <1>6, <1>7, <1>8, <1>9, <1>10 DEF WriteBehindNext, FlushStep

(***************************************************************************)
(* "retries the whole batch on the next flush instead of silently dropping *)
(* it" (storage.py:3062): through any failures, rollbacks, retries and a   *)
(* move to the in-memory database, a row stops waiting only when it is     *)
(* counted as dropped or the database says what it says, unless the write  *)
(* of a transcript came into a flush of rows with its key in memory.       *)
(***************************************************************************)
THEOREM FlushLosesNothingSilently == Lossless => (WriteBehindSpec => NoSilentLoss)
<1> SUFFICES ASSUME Lossless PROVE WriteBehindSpec => NoSilentLoss
  OBVIOUS
<1>1. WriteBehindInit => Solo /\ InOrder /\ LossInv
  <2> SUFFICES ASSUME WriteBehindInit PROVE Solo /\ InOrder /\ LossInv
    OBVIOUS
  <2>1. buf = Empty /\ batch[Loop] = Empty
    BY DEF WriteBehindInit
  <2>2. InOrder
    BY <2>1, EmptyQueue DEF InOrder, Queued
  <2> QED BY <2>2, InitLoss DEF WriteBehindInit, Solo
<1>2. TypeOK /\ Once /\ InOrder /\ Solo /\ [WriteBehindNext]_vars => InOrder' /\ Solo'
  BY InOrderKept, SoloKept DEF Lossless
<1>3. TypeOK /\ Once /\ InOrder /\ Solo /\ LossInv /\ [WriteBehindNext]_vars
        => LossInv' /\ [\A r \in Pending :
                          r \in Pending' \/ r \in dropped' \/ Represented(r)' \/ KeyOf[r] \in torn']_vars
  BY LossKept
<1>4. Solo => Unclosed
  BY DEF Solo, Unclosed
<1> QED BY <1>1, <1>2, <1>3, <1>4, InitType, TypeKept, FlushTypeCorrect, InitOnce, OnceKept, PTL
        DEF WriteBehindSpec, NoSilentLoss
=============================================================================
