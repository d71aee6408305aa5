--------------------------- MODULE PagePartsProofs ---------------------------
(***************************************************************************)
(* Whatever the user moves, hides, resizes, undoes and resets, and         *)
(* whatever an older version stored, the board has every section and every *)
(* panel once, and the page loaded again shows what was left (BoardLayout).*)
(* For any sections, panels, widths, heights and stored layouts.           *)
(*                                                                         *)
(* Array.filter keeps its elements in their order, each once (Places); the *)
(* lemmas say so, and of each operation of layout.js that it leaves a      *)
(* complete layout complete.  LayoutInv adds to what the theorems say that *)
(* the layout that an undo brings back is complete too, and that what      *)
(* localStorage holds is either of an older version or complete.           *)
(*                                                                         *)
(* A chart marks the time that it selects (BoardChart), for any series and *)
(* any number of buckets.  A table of the board (BoardTables) has rows     *)
(* that are those of its list, for any agents, calls and models.           *)
(*                                                                         *)
(* A table of a detail screen keeps its rows in the order that its column  *)
(* asks for and folds a row by its key (DataTable), for any rows; what     *)
(* Array.sort returns is worked out by counting the places before each     *)
(* place.  The flow of a session (SessionFlow) tells its events in order,  *)
(* the output of each once, and its sums add up, for any flow: ToldUpTo    *)
(* and Prompted follow the turns along the events.                         *)
(*                                                                         *)
(* The facts about numbers, sequences and sums that these proofs rest on   *)
(* serve the proofs about the rest of the page too (PageUserProofs).       *)
(***************************************************************************)
EXTENDS BoardLayout, BoardChart, BoardTables, DataTable, SessionFlow,
        SequenceTheorems, FiniteSetTheorems, WellFoundedInduction, TLAPS

(* Places ----------------------------------------------------------------- *)

LEMMA RankCounts ==
    ASSUME NEW P \in SUBSET Nat, IsFiniteSet(P), NEW i \in P
    PROVE  Rank(P, i) \in 0..(Cardinality(P) - 1)
<1>1. {j \in P : j < i} \in SUBSET P /\ {j \in P : j < i} # P
  OBVIOUS
<1>2. IsFiniteSet({j \in P : j < i}) /\ Rank(P, i) <= Cardinality(P) /\ Rank(P, i) # Cardinality(P)
  BY <1>1, FS_Subset, Zenon DEF Rank
<1> QED BY <1>2, FS_CardinalityType DEF Rank

\* a later place has more before it
LEMMA RankGrows ==
    ASSUME NEW P \in SUBSET Nat, IsFiniteSet(P), NEW i \in P, NEW k \in P, i < k
    PROVE  Rank(P, i) < Rank(P, k)
<1> DEFINE A == {j \in P : j < i} B == {j \in P : j < k}
<1>0. i \in Nat /\ k \in Nat /\ \A j \in P : j \in Nat
  OBVIOUS
<1>1. A \in SUBSET B /\ i \in B /\ i \notin A /\ B \in SUBSET P
  <2>1. \A j \in A : j \in B
    BY <1>0
  <2>2. i \in B /\ i \notin A
    BY <1>0
  <2> QED BY <2>1, <2>2
<1>2. IsFiniteSet(B)
  BY <1>1, FS_Subset, Zenon
<1>3. IsFiniteSet(A) /\ Cardinality(A) <= Cardinality(B) /\ Cardinality(A) # Cardinality(B)
  BY <1>1, <1>2, FS_Subset, Zenon
<1>4. Cardinality(A) \in Nat /\ Cardinality(B) \in Nat
  BY <1>2, <1>3, FS_CardinalityType
<1> QED BY <1>3, <1>4 DEF Rank

\* the n-th place has n - 1 before it
LEMMA NthIs ==
    ASSUME NEW P \in SUBSET Nat, IsFiniteSet(P), NEW n \in 1..Cardinality(P)
    PROVE  Nth(P, n) \in P /\ Rank(P, Nth(P, n)) = n - 1
<1> DEFINE c == Cardinality(P) f == [i \in P |-> Rank(P, i)]
<1>1. c \in Nat
  BY FS_CardinalityType
<1>2. f \in [P -> 0..(c - 1)]
  BY RankCounts
<1>3. \A i, k \in P : f[i] = f[k] => i = k
  <2> SUFFICES ASSUME NEW i \in P, NEW k \in P, i # k PROVE Rank(P, i) # Rank(P, k)
    OBVIOUS
  <2>1. i < k \/ k < i
    OBVIOUS
  <2>2. Rank(P, i) \in Nat /\ Rank(P, k) \in Nat
    BY RankCounts, <1>1
  <2> QED BY <2>1, <2>2, RankGrows
<1>4. f \in Injection(P, 0..(c - 1))
  BY <1>2, <1>3 DEF Injection, IsInjective
<1>5. IsFiniteSet(0..(c - 1)) /\ Cardinality(0..(c - 1)) = c
  <2>1. 0 \in Int /\ c - 1 \in Int /\ (0 > c - 1 <=> c = 0) /\ (c - 1) - 0 + 1 = c
    BY <1>1
  <2> QED BY <2>1, FS_Interval
<1>6. f \in Surjection(P, 0..(c - 1))
  BY <1>4, <1>5, FS_Injection, Zenon
<1>7. n - 1 \in 0..(c - 1)
  BY <1>1
<1>8. \E i \in P : f[i] = n - 1
  BY <1>6, <1>7 DEF Surjection
<1> QED BY <1>8 DEF Nth

LEMMA NthOfRank ==
    ASSUME NEW P \in SUBSET Nat, IsFiniteSet(P), NEW i \in P
    PROVE  Rank(P, i) + 1 \in 1..Cardinality(P) /\ Nth(P, Rank(P, i) + 1) = i
<1> DEFINE n == Rank(P, i) + 1
<1>1. Cardinality(P) \in Nat /\ n \in 1..Cardinality(P)
  BY RankCounts, FS_CardinalityType
<1>2. Nth(P, n) \in P /\ Rank(P, Nth(P, n)) = Rank(P, i)
  BY <1>1, NthIs, RankCounts
<1>0. \A j \in P : j \in Nat
  OBVIOUS
<1>3. i \in Nat /\ Nth(P, n) \in Nat
  BY <1>0, <1>2
<1>4. Rank(P, i) \in Nat
  BY <1>1, RankCounts
<1>5. ~(Nth(P, n) < i)
  <2> SUFFICES ASSUME Nth(P, n) < i PROVE FALSE
    OBVIOUS
  <2>1. Rank(P, Nth(P, n)) < Rank(P, i)
    BY <1>2, RankGrows
  <2> QED BY <2>1, <1>2, <1>4
<1>6. ~(i < Nth(P, n))
  <2> SUFFICES ASSUME i < Nth(P, n) PROVE FALSE
    OBVIOUS
  <2>1. Rank(P, i) < Rank(P, Nth(P, n))
    BY <1>2, RankGrows
  <2> QED BY <2>1, <1>2, <1>4
<1> QED BY <1>1, <1>3, <1>5, <1>6

LEMMA NthGrows ==
    ASSUME NEW P \in SUBSET Nat, IsFiniteSet(P), NEW n \in 1..Cardinality(P), NEW m \in 1..Cardinality(P), n < m
    PROVE  Nth(P, n) < Nth(P, m)
<1>1. /\ Nth(P, n) \in P /\ Rank(P, Nth(P, n)) = n - 1
      /\ Nth(P, m) \in P /\ Rank(P, Nth(P, m)) = m - 1
  BY NthIs
<1>0. Cardinality(P) \in Nat /\ n \in Nat /\ m \in Nat /\ \A j \in P : j \in Nat
  <2>1. Cardinality(P) \in Nat
    BY FS_CardinalityType
  <2> QED BY <2>1
<1>2. Nth(P, n) # Nth(P, m)
  BY <1>0, <1>1
<1>3. Nth(P, n) \in Nat /\ Nth(P, m) \in Nat
  BY <1>0, <1>1
<1>4. ~(Nth(P, m) < Nth(P, n))
  <2> SUFFICES ASSUME Nth(P, m) < Nth(P, n) PROVE FALSE
    OBVIOUS
  <2>1. Rank(P, Nth(P, m)) < Rank(P, Nth(P, n))
    BY <1>1, RankGrows
  <2> QED BY <2>1, <1>1, <1>0
<1> QED BY <1>2, <1>3, <1>4

LEMMA PlacesFinite ==
    ASSUME NEW S, NEW s \in Seq(S), NEW P \in SUBSET DOMAIN s
    PROVE  P \in SUBSET Nat /\ IsFiniteSet(P) /\ Cardinality(P) \in Nat
<1>1. DOMAIN s = 1..Len(s) /\ Len(s) \in Nat
  OBVIOUS
<1>2. IsFiniteSet(DOMAIN s)
  BY <1>1, FS_Interval
<1> QED BY <1>1, <1>2, FS_Subset, FS_CardinalityType

\* the elements at the places, in their order
LEMMA PickedIs ==
    ASSUME NEW S, NEW s \in Seq(S), NEW P \in SUBSET DOMAIN s
    PROVE  /\ Picked(s, P) \in Seq(S) /\ Len(Picked(s, P)) = Cardinality(P)
           /\ DOMAIN Picked(s, P) = 1..Cardinality(P)
           /\ \A n \in DOMAIN Picked(s, P) : Nth(P, n) \in P /\ Picked(s, P)[n] = s[Nth(P, n)]
           /\ \A i \in P : \E n \in DOMAIN Picked(s, P) : Nth(P, n) = i
           /\ \A n, m \in DOMAIN Picked(s, P) : n < m => Nth(P, n) < Nth(P, m)
<1> DEFINE c == Cardinality(P)
<1>1. P \in SUBSET Nat /\ IsFiniteSet(P) /\ c \in Nat
  BY PlacesFinite
<1>2. \A n \in 1..c : Nth(P, n) \in P
  BY <1>1, NthIs
<1>3. \A n \in 1..c : s[Nth(P, n)] \in S
  BY <1>2
<1>4. Picked(s, P) = [n \in 1..c |-> s[Nth(P, n)]]
  BY DEF Picked
<1>5. Picked(s, P) \in Seq(S) /\ Len(Picked(s, P)) = c /\ DOMAIN Picked(s, P) = 1..c
  BY <1>1, <1>3, <1>4
<1>6. \A i \in P : \E n \in 1..c : Nth(P, n) = i
  BY <1>1, NthOfRank
<1>7. \A n, m \in 1..c : n < m => Nth(P, n) < Nth(P, m)
  BY <1>1, NthGrows
<1> QED BY <1>2, <1>4, <1>5, <1>6, <1>7

\* who picks every place picks the sequence
LEMMA PickedAll ==
    ASSUME NEW S, NEW s \in Seq(S)
    PROVE  Picked(s, DOMAIN s) = s
<1> DEFINE P == DOMAIN s
<1>1. P \in SUBSET Nat /\ IsFiniteSet(P) /\ P = 1..Len(s) /\ Len(s) \in Nat
  BY PlacesFinite
<1>2. Cardinality(P) = Len(s)
  BY <1>1, FS_Interval
<1>3. ASSUME NEW i \in P PROVE Rank(P, i) = i - 1
  <2>1. {j \in P : j < i} = 1..(i - 1)
    BY <1>1
  <2>2. 1 \in Int /\ i - 1 \in Int /\ (1 > i - 1 <=> i - 1 = 0) /\ (i - 1) - 1 + 1 = i - 1
    BY <1>1
  <2>3. Cardinality(1..(i - 1)) = i - 1
    BY <2>2, FS_Interval
  <2> QED BY <2>1, <2>3 DEF Rank
<1>4. ASSUME NEW n \in 1..Len(s) PROVE Nth(P, n) = n
  <2>1. Nth(P, n) \in P /\ Rank(P, Nth(P, n)) = n - 1
    BY <1>1, <1>2, NthIs
  <2> QED BY <2>1, <1>1, <1>3
<1>5. Picked(s, P) = [n \in 1..Len(s) |-> s[n]]
  BY <1>2, <1>4 DEF Picked
<1> QED BY <1>1, <1>5

LEMMA PickedNone == \A s : Picked(s, {}) = <<>>
BY FS_EmptySet DEF Picked


(* Layouts ---------------------------------------------------------------- *)

LEMMA PickedIds ==
    ASSUME NEW S, NEW ps \in Seq(S), NEW P \in SUBSET DOMAIN ps
    PROVE  /\ IdsOf(Picked(ps, P)) = {ps[j].id : j \in P}
           /\ (\A j, k \in P : ps[j].id = ps[k].id => j = k) => OnceEach(Picked(ps, P))
<1> DEFINE t == Picked(ps, P) nth(n) == Nth(P, n)
<1>1. /\ \A n \in DOMAIN t : nth(n) \in P /\ t[n] = ps[nth(n)]
      /\ \A i \in P : \E n \in DOMAIN t : nth(n) = i
      /\ \A n, m \in DOMAIN t : n < m => nth(n) < nth(m)
      /\ DOMAIN t = 1..Cardinality(P) /\ Cardinality(P) \in Nat /\ P \in SUBSET Nat
  BY PickedIs, PlacesFinite
<1> HIDE DEF t, nth
<1>2. IdsOf(t) = {ps[j].id : j \in P}
  BY <1>1 DEF IdsOf
<1>3. ASSUME \A j, k \in P : ps[j].id = ps[k].id => j = k PROVE OnceEach(t)
  <2> SUFFICES ASSUME NEW n \in DOMAIN t, NEW m \in DOMAIN t, t[n].id = t[m].id PROVE n = m
    BY DEF OnceEach
  <2>1. nth(n) = nth(m)
    BY <1>1, <1>3
  <2>2. nth(n) \in Nat /\ nth(m) \in Nat /\ n \in Nat /\ m \in Nat
    BY <1>1
  <2> QED BY <1>1, <2>1, <2>2
<1> QED BY <1>2, <1>3 DEF t

\* a layout is complete when its sections keep their panels, whatever else of them changes
LEMMA SameIdsComplete ==
    ASSUME NEW l, Complete(l), NEW m, DOMAIN m = DOMAIN l,
           \A i \in DOMAIN l : m[i].id = l[i].id /\ IdsOf(m[i].panels) = IdsOf(l[i].panels),
           \A i \in DOMAIN l : OnceEach(m[i].panels)
    PROVE  Complete(m)
<1>1. OnceEach(m)
  BY DEF Complete, OnceEach
<1>2. IdsOf(m) = SectionIds
  <2>1. IdsOf(m) = IdsOf(l)
    BY DEF IdsOf
  <2> QED BY <2>1 DEF Complete
<1>3. OnePlace(m)
  BY DEF Complete, OnePlace
<1>4. AllPanels(m) = AllPanels(l)
  BY DEF AllPanels
<1> QED BY <1>1, <1>2, <1>3, <1>4 DEF Complete

\* the panels of a layout without one of them, and with it put in one section
Moved(l, m, id, to) ==
    /\ DOMAIN m = DOMAIN l
    /\ \A i \in DOMAIN l : m[i].id = l[i].id /\ OnceEach(m[i].panels)
    /\ \A i \in DOMAIN l : IdsOf(m[i].panels) = (IdsOf(l[i].panels) \ {id}) \cup (IF i = to THEN {id} ELSE {})
LEMMA MovedComplete ==
    ASSUME NEW l, Complete(l), NEW id \in PanelIds, NEW to \in DOMAIN l, NEW m, Moved(l, m, id, to)
    PROVE  Complete(m)
<1>0. /\ DOMAIN m = DOMAIN l
      /\ \A i \in DOMAIN l : m[i].id = l[i].id /\ OnceEach(m[i].panels)
      /\ \A i \in DOMAIN l : IdsOf(m[i].panels) = (IdsOf(l[i].panels) \ {id}) \cup (IF i = to THEN {id} ELSE {})
  BY DEF Moved
<1>1. OnceEach(m)
  BY <1>0 DEF Complete, OnceEach
<1>2. IdsOf(m) = SectionIds
  <2>1. IdsOf(m) = IdsOf(l)
    BY <1>0 DEF IdsOf
  <2> QED BY <2>1 DEF Complete
<1>3. OnePlace(m)
  <2> SUFFICES ASSUME NEW i \in DOMAIN l, NEW k \in DOMAIN l, i # k,
                      NEW x \in IdsOf(m[i].panels), x \in IdsOf(m[k].panels)
               PROVE  FALSE
    BY <1>0 DEF OnePlace
  <2>1. IdsOf(l[i].panels) \cap IdsOf(l[k].panels) = {}
    BY DEF Complete, OnePlace
  <2> QED BY <1>0, <2>1
<1>4. AllPanels(m) = PanelIds
  <2>1. AllPanels(l) = PanelIds
    BY DEF Complete
  <2>2. ASSUME NEW x \in AllPanels(m) PROVE x \in PanelIds
    BY <1>0, <2>1 DEF AllPanels
  <2>3. ASSUME NEW x \in PanelIds PROVE x \in AllPanels(m)
    <3>1. PICK i \in DOMAIN l : x \in IdsOf(l[i].panels)
      BY <1>0, <2>1 DEF AllPanels
    <3>2. x \in IdsOf(m[i].panels) \/ x \in IdsOf(m[to].panels)
      BY <1>0, <3>1
    <3> QED BY <1>0, <3>2 DEF AllPanels
  <2> QED BY <2>2, <2>3
<1> QED BY <1>1, <1>2, <1>3, <1>4 DEF Complete

\* two elements of a sequence that change places: whose element comes to n
TurnOf(s, i, j) == [n \in DOMAIN s |-> IF j \notin DOMAIN s THEN n ELSE IF n = i THEN j ELSE IF n = j THEN i ELSE n]
Reindexed(s, t, f) ==
    /\ f \in [DOMAIN s -> DOMAIN s] /\ DOMAIN t = DOMAIN s
    /\ \A n \in DOMAIN s : t[n] = s[f[n]] /\ f[f[n]] = n
LEMMA SwapIs ==
    ASSUME NEW S, NEW s \in Seq(S), NEW i \in DOMAIN s, NEW j \in Nat
    PROVE  Swap(s, i, j) \in Seq(S) /\ Reindexed(s, Swap(s, i, j), TurnOf(s, i, j))
<1> DEFINE f == TurnOf(s, i, j)
<1>1. Swap(s, i, j) \in Seq(S) /\ DOMAIN Swap(s, i, j) = DOMAIN s
  BY DEF Swap
<1>2. f \in [DOMAIN s -> DOMAIN s]
  BY DEF TurnOf
<1>3. \A n \in DOMAIN s : Swap(s, i, j)[n] = s[f[n]]
  BY DEF Swap, TurnOf
<1>4. \A n \in DOMAIN s : f[f[n]] = n
  BY DEF TurnOf
<1> QED BY <1>1, <1>2, <1>3, <1>4 DEF Reindexed

LEMMA SwapIds ==
    ASSUME NEW S, NEW s \in Seq(S), NEW i \in DOMAIN s, NEW j \in Nat
    PROVE  IdsOf(Swap(s, i, j)) = IdsOf(s) /\ (OnceEach(s) => OnceEach(Swap(s, i, j)))
<1> DEFINE f == TurnOf(s, i, j)
<1>0. Reindexed(s, Swap(s, i, j), f)
  BY SwapIs
<1>1. /\ f \in [DOMAIN s -> DOMAIN s]
      /\ \A n \in DOMAIN s : Swap(s, i, j)[n] = s[f[n]]
      /\ \A n \in DOMAIN s : f[f[n]] = n
      /\ DOMAIN Swap(s, i, j) = DOMAIN s
  BY <1>0 DEF Reindexed
<1> HIDE DEF f
<1>3. IdsOf(Swap(s, i, j)) = IdsOf(s)
  BY <1>1 DEF IdsOf
<1>4. OnceEach(s) => OnceEach(Swap(s, i, j))
  <2> SUFFICES ASSUME OnceEach(s), NEW n \in DOMAIN s, NEW m \in DOMAIN s, s[f[n]].id = s[f[m]].id
               PROVE  n = m
    BY <1>1 DEF OnceEach
  <2>1. f[n] \in DOMAIN s /\ f[m] \in DOMAIN s
    BY <1>1
  <2>2. f[n] = f[m]
    BY <2>1 DEF OnceEach
  <2> QED BY <2>2, <1>1
<1> QED BY <1>3, <1>4

\* a section moved up or down
LEMMA SwapComplete ==
    ASSUME NEW l \in Layouts, Complete(l), NEW i \in DOMAIN l, NEW j \in Nat
    PROVE  Swap(l, i, j) \in Layouts /\ Complete(Swap(l, i, j))
<1> DEFINE m == Swap(l, i, j)
<1> DEFINE f == TurnOf(l, i, j)
<1>0. m \in Layouts /\ Reindexed(l, m, f)
  BY SwapIs DEF Layouts
<1>1. /\ f \in [DOMAIN l -> DOMAIN l]
      /\ \A n \in DOMAIN l : m[n] = l[f[n]]
      /\ \A n \in DOMAIN l : f[f[n]] = n
      /\ DOMAIN m = DOMAIN l
  BY <1>0 DEF Reindexed
<1>3. IdsOf(m) = SectionIds /\ OnceEach(m)
  BY SwapIds DEF Layouts, Complete
<1> HIDE DEF m, f
<1>4. OnePlace(m)
  <2>1. ASSUME NEW n \in DOMAIN m PROVE OnceEach(m[n].panels)
    BY <1>1 DEF OnePlace, Complete
  <2>2. ASSUME NEW n \in DOMAIN m, NEW k \in DOMAIN m, n # k
        PROVE  IdsOf(m[n].panels) \cap IdsOf(m[k].panels) = {}
    <3>1. f[n] \in DOMAIN l /\ f[k] \in DOMAIN l /\ f[n] # f[k] /\ m[n] = l[f[n]] /\ m[k] = l[f[k]]
      BY <1>1, <2>2
    <3> QED BY <3>1 DEF OnePlace, Complete
  <2> QED BY <2>1, <2>2 DEF OnePlace
<1>5. AllPanels(m) = PanelIds
  <2>1. \A x : x \in AllPanels(l) <=> x \in AllPanels(m)
    BY <1>1 DEF AllPanels
  <2> QED BY <2>1 DEF Complete
<1> QED BY <1>0, <1>3, <1>4, <1>5 DEF Complete, m

LEMMA PanelFound ==
    ASSUME NEW l \in Layouts, Complete(l), NEW id \in PanelIds
    PROVE  /\ SectionOf(l, id) \in DOMAIN l /\ id \in IdsOf(l[SectionOf(l, id)].panels)
           /\ PlaceOf(l[SectionOf(l, id)].panels, id) \in DOMAIN l[SectionOf(l, id)].panels
           /\ PanelOf(l, id) \in PanelRecords /\ PanelOf(l, id).id = id
<1> DEFINE i == SectionOf(l, id) ps == l[i].panels j == PlaceOf(ps, id)
<1>1. i \in DOMAIN l /\ id \in IdsOf(ps)
  <2>1. \E k \in DOMAIN l : id \in IdsOf(l[k].panels)
    BY DEF Complete, AllPanels
  <2> QED BY <2>1 DEF SectionOf
<1>2. ps \in Seq(PanelRecords)
  <2>1. l[i] \in SectionRecords
    BY <1>1 DEF Layouts
  <2> QED BY <2>1 DEF SectionRecords
<1>3. j \in DOMAIN ps /\ ps[j].id = id
  <2>1. \E k \in DOMAIN ps : ps[k].id = id
    BY <1>1 DEF IdsOf
  <2> QED BY <2>1 DEF PlaceOf
<1>4. ps[j] \in PanelRecords
  BY <1>2, <1>3
<1> QED BY <1>1, <1>3, <1>4 DEF PanelOf

LEMMA SectionFound ==
    ASSUME NEW l \in Layouts, Complete(l), NEW sec \in SectionIds
    PROVE  \E i \in DOMAIN l : l[i].id = sec
BY DEF Complete, IdsOf

\* a section whose panels are replaced
LEMMA PanelsTyped ==
    ASSUME NEW s \in SectionRecords, NEW ps \in Seq(PanelRecords)
    PROVE  /\ [s EXCEPT !.panels = ps] \in SectionRecords
           /\ [s EXCEPT !.panels = ps].id = s.id /\ [s EXCEPT !.panels = ps].panels = ps
BY DEF SectionRecords

\* every section's panels replaced, and one section's
Refilled(l, q) == [i \in DOMAIN l |-> [l[i] EXCEPT !.panels = q[i]]]
LEMMA RefilledIs ==
    ASSUME NEW l \in Layouts, NEW q \in [DOMAIN l -> Seq(PanelRecords)]
    PROVE  /\ Refilled(l, q) \in Layouts /\ DOMAIN Refilled(l, q) = DOMAIN l
           /\ \A i \in DOMAIN l : Refilled(l, q)[i].id = l[i].id /\ Refilled(l, q)[i].panels = q[i]
<1>1. \A i \in DOMAIN l : l[i] \in SectionRecords /\ q[i] \in Seq(PanelRecords)
  BY DEF Layouts
<1>2. \A i \in DOMAIN l : /\ [l[i] EXCEPT !.panels = q[i]] \in SectionRecords
                          /\ [l[i] EXCEPT !.panels = q[i]].id = l[i].id
                          /\ [l[i] EXCEPT !.panels = q[i]].panels = q[i]
  BY <1>1, PanelsTyped
<1>3. DOMAIN l = 1..Len(l) /\ Len(l) \in Nat
  BY DEF Layouts
<1>4. DOMAIN Refilled(l, q) = DOMAIN l /\ \A i \in DOMAIN l : Refilled(l, q)[i] = [l[i] EXCEPT !.panels = q[i]]
  BY DEF Refilled
<1>5. Refilled(l, q) = [i \in 1..Len(l) |-> [l[i] EXCEPT !.panels = q[i]]]
  BY <1>3 DEF Refilled
<1>6. Refilled(l, q) \in Seq(SectionRecords)
  BY <1>2, <1>3, <1>5
<1> QED BY <1>2, <1>4, <1>6 DEF Layouts

LEMMA OneRefilled ==
    ASSUME NEW l \in Layouts, NEW to \in DOMAIN l, NEW ps \in Seq(PanelRecords)
    PROVE  /\ [l EXCEPT ![to].panels = ps] \in Layouts /\ DOMAIN [l EXCEPT ![to].panels = ps] = DOMAIN l
           /\ \A i \in DOMAIN l : /\ [l EXCEPT ![to].panels = ps][i].id = l[i].id
                                  /\ [l EXCEPT ![to].panels = ps][i].panels = IF i = to THEN ps ELSE l[i].panels
<1> DEFINE q == [i \in DOMAIN l |-> IF i = to THEN ps ELSE l[i].panels]
<1>1. \A i \in DOMAIN l : l[i] \in SectionRecords
  BY DEF Layouts
<1>2. q \in [DOMAIN l -> Seq(PanelRecords)]
  BY <1>1 DEF SectionRecords
<1>3. \A i \in DOMAIN l : [l[i] EXCEPT !.panels = l[i].panels] = l[i]
  BY <1>1 DEF SectionRecords
<1>4. [l EXCEPT ![to].panels = ps] = Refilled(l, q)
  BY <1>3 DEF Refilled, Layouts
<1> QED BY <1>2, <1>4, RefilledIs

LEMMA PatchTyped ==
    ASSUME NEW p \in PanelRecords, NEW open \in BOOLEAN, NEW span \in 2..12, NEW h \in Heights
    PROVE  /\ Patched(p, [open |-> open]) \in PanelRecords /\ Patched(p, [open |-> open]).id = p.id
           /\ Patched(p, [span |-> span]) \in PanelRecords /\ Patched(p, [span |-> span]).id = p.id
           /\ Patched(p, [h |-> h]) \in PanelRecords /\ Patched(p, [h |-> h]).id = p.id
           /\ Patched(p, [span |-> span, h |-> h]) \in PanelRecords /\ Patched(p, [span |-> span, h |-> h]).id = p.id
<1>1. DOMAIN p = {"id", "span", "open", "h"}
  BY DEF PanelRecords
<1>2. Patched(p, [open |-> open]) = [p EXCEPT !.open = open]
  BY <1>1 DEF Patched, PanelRecords
<1>3. Patched(p, [span |-> span]) = [p EXCEPT !.span = span]
  BY <1>1 DEF Patched, PanelRecords
<1>4. Patched(p, [h |-> h]) = [p EXCEPT !.h = h]
  BY <1>1 DEF Patched, PanelRecords
<1>5. Patched(p, [span |-> span, h |-> h]) = [id |-> p.id, span |-> span, open |-> p.open, h |-> h]
  <2> DEFINE patch == [span |-> span, h |-> h]
  <2>1. DOMAIN patch = {"span", "h"} /\ patch["span"] = span /\ patch["h"] = h
    OBVIOUS
  <2> HIDE DEF patch
  <2>2. Patched(p, patch) = [f \in {"id", "span", "open", "h"} |-> IF f \in {"span", "h"} THEN patch[f] ELSE p[f]]
    BY <1>1, <2>1 DEF Patched
  <2> QED BY <2>1, <2>2 DEF patch
<1> QED BY <1>2, <1>3, <1>4, <1>5 DEF PanelRecords

LEMMA UpdateKeeps ==
    ASSUME NEW l \in Layouts, Complete(l), NEW id, NEW patch,
           \A p \in PanelRecords : Patched(p, patch) \in PanelRecords /\ Patched(p, patch).id = p.id
    PROVE  UpdatePanel(l, id, patch) \in Layouts /\ Complete(UpdatePanel(l, id, patch))
<1> DEFINE ps(i) == [j \in DOMAIN l[i].panels |->
                        IF l[i].panels[j].id = id THEN Patched(l[i].panels[j], patch) ELSE l[i].panels[j]]
           q == [i \in DOMAIN l |-> ps(i)]
<1>1. UpdatePanel(l, id, patch) = Refilled(l, q)
  BY DEF UpdatePanel, Refilled
<1>2. ASSUME NEW i \in DOMAIN l
      PROVE  ps(i) \in Seq(PanelRecords) /\ IdsOf(ps(i)) = IdsOf(l[i].panels) /\ OnceEach(ps(i))
  <2>1. l[i] \in SectionRecords
    BY DEF Layouts
  <2>2. l[i].panels \in Seq(PanelRecords)
    BY <2>1 DEF SectionRecords
  <2>3. \A j \in DOMAIN l[i].panels : ps(i)[j] \in PanelRecords /\ ps(i)[j].id = l[i].panels[j].id
    BY <2>2
  <2>4. DOMAIN ps(i) = DOMAIN l[i].panels
    OBVIOUS
  <2>5. ps(i) \in Seq(PanelRecords)
    BY <2>2, <2>3
  <2>6. OnceEach(l[i].panels)
    BY DEF Complete, OnePlace
  <2> HIDE DEF ps
  <2>7. IdsOf(ps(i)) = IdsOf(l[i].panels) /\ OnceEach(ps(i))
    BY <2>3, <2>4, <2>6 DEF IdsOf, OnceEach
  <2> QED BY <2>5, <2>7
<1> HIDE DEF ps
<1>3. q \in [DOMAIN l -> Seq(PanelRecords)] /\ \A i \in DOMAIN l : q[i] = ps(i)
  BY <1>2
<1> HIDE DEF q
<1>4. /\ Refilled(l, q) \in Layouts /\ DOMAIN Refilled(l, q) = DOMAIN l
      /\ \A i \in DOMAIN l : Refilled(l, q)[i].id = l[i].id /\ Refilled(l, q)[i].panels = ps(i)
  BY <1>3, RefilledIs
<1>5. Complete(Refilled(l, q))
  BY <1>2, <1>4, SameIdsComplete
<1> QED BY <1>1, <1>4, <1>5

LEMMA WithoutIs ==
    ASSUME NEW l \in Layouts, Complete(l), NEW id
    PROVE  /\ Without(l, id) \in Layouts /\ DOMAIN Without(l, id) = DOMAIN l
           /\ \A i \in DOMAIN l : /\ Without(l, id)[i].id = l[i].id /\ OnceEach(Without(l, id)[i].panels)
                                  /\ IdsOf(Without(l, id)[i].panels) = IdsOf(l[i].panels) \ {id}
<1> DEFINE others(i) == {j \in DOMAIN l[i].panels : l[i].panels[j].id # id}
           q == [i \in DOMAIN l |-> Picked(l[i].panels, others(i))]
<1>1. Without(l, id) = Refilled(l, q)
  BY DEF Without, Refilled
<1>2. ASSUME NEW i \in DOMAIN l
      PROVE  /\ q[i] \in Seq(PanelRecords) /\ OnceEach(q[i])
             /\ IdsOf(q[i]) = IdsOf(l[i].panels) \ {id}
  <2> DEFINE ps == l[i].panels
  <2>1. l[i] \in SectionRecords
    BY DEF Layouts
  <2>2. ps \in Seq(PanelRecords) /\ others(i) \in SUBSET DOMAIN ps
    BY <2>1 DEF SectionRecords
  <2>3. OnceEach(ps)
    BY DEF Complete, OnePlace
  <2>4. \A j, k \in others(i) : ps[j].id = ps[k].id => j = k
    BY <2>3 DEF OnceEach
  <2>5. Picked(ps, others(i)) \in Seq(PanelRecords)
    BY <2>2, PickedIs
  <2>6. IdsOf(Picked(ps, others(i))) = {ps[j].id : j \in others(i)} /\ OnceEach(Picked(ps, others(i)))
    BY <2>2, <2>4, PickedIds
  <2>7. {ps[j].id : j \in others(i)} = IdsOf(ps) \ {id}
    BY DEF IdsOf
  <2>8. q[i] = Picked(ps, others(i))
    OBVIOUS
  <2> QED BY <2>5, <2>6, <2>7, <2>8
<1>3. q \in [DOMAIN l -> Seq(PanelRecords)]
  BY <1>2
<1> HIDE DEF q
<1>4. /\ Refilled(l, q) \in Layouts /\ DOMAIN Refilled(l, q) = DOMAIN l
      /\ \A i \in DOMAIN l : Refilled(l, q)[i].id = l[i].id /\ Refilled(l, q)[i].panels = q[i]
  BY <1>3, RefilledIs
<1> QED BY <1>1, <1>2, <1>4

\* a sequence with one panel more, put at n
PutAt(ps, n, p, t) ==
    /\ DOMAIN t = 1..(Len(ps) + 1) /\ t[n] = p
    /\ \A k \in 1..(Len(ps) + 1) : k # n => t[k] = ps[IF k < n THEN k ELSE k - 1]
LEMMA PutIs ==
    ASSUME NEW ps \in Seq(PanelRecords), OnceEach(ps), NEW n \in 1..(Len(ps) + 1),
           NEW p, p.id \notin IdsOf(ps), NEW t, PutAt(ps, n, p, t)
    PROVE  OnceEach(t) /\ IdsOf(t) = IdsOf(ps) \cup {p.id}
<1> DEFINE from(k) == IF k < n THEN k ELSE k - 1
<1>1. Len(ps) \in Nat /\ n \in Nat /\ DOMAIN ps = 1..Len(ps)
  OBVIOUS
<1>5. t[n] = p /\ \A k \in 1..(Len(ps) + 1) : k # n => t[k] = ps[from(k)]
  BY DEF PutAt
<1>6. \A k \in 1..(Len(ps) + 1) : k # n => from(k) \in 1..Len(ps)
  BY <1>1
<1>7. \A k, m \in 1..(Len(ps) + 1) : k # n /\ m # n /\ from(k) = from(m) => k = m
  BY <1>1
<1>8. \A j \in 1..Len(ps) : \E k \in 1..(Len(ps) + 1) : k # n /\ from(k) = j
  <2> SUFFICES ASSUME NEW j \in 1..Len(ps) PROVE \E k \in 1..(Len(ps) + 1) : k # n /\ from(k) = j
    OBVIOUS
  <2>1. CASE j < n
    <3>1. j \in 1..(Len(ps) + 1) /\ j # n /\ from(j) = j
      BY <1>1, <2>1
    <3> QED BY <3>1
  <2>2. CASE j >= n
    <3>1. j + 1 \in 1..(Len(ps) + 1) /\ j + 1 # n /\ from(j + 1) = j
      BY <1>1, <2>2
    <3> QED BY <3>1
  <2> QED BY <1>1, <2>1, <2>2
<1>9. DOMAIN t = 1..(Len(ps) + 1) /\ n \in 1..(Len(ps) + 1)
  BY <1>1 DEF PutAt
<1> HIDE DEF from
<1>10. OnceEach(t)
  <2> SUFFICES ASSUME NEW k \in DOMAIN t, NEW m \in DOMAIN t, t[k].id = t[m].id PROVE k = m
    BY DEF OnceEach
  <2>1. CASE k # n /\ m # n
    <3>1. ps[from(k)].id = ps[from(m)].id /\ from(k) \in DOMAIN ps /\ from(m) \in DOMAIN ps
      BY <1>1, <1>5, <1>6, <1>9, <2>1
    <3>2. from(k) = from(m)
      BY <3>1 DEF OnceEach
    <3> QED BY <3>2, <1>7, <1>9, <2>1
  <2>2. CASE k = n /\ m # n
    <3>1. ps[from(m)].id = p.id /\ from(m) \in DOMAIN ps
      BY <1>1, <1>5, <1>6, <1>9, <2>2
    <3> QED BY <3>1 DEF IdsOf
  <2>3. CASE k # n /\ m = n
    <3>1. ps[from(k)].id = p.id /\ from(k) \in DOMAIN ps
      BY <1>1, <1>5, <1>6, <1>9, <2>3
    <3> QED BY <3>1 DEF IdsOf
  <2> QED BY <2>1, <2>2, <2>3
<1>11. ASSUME NEW x PROVE x \in IdsOf(t) <=> x \in IdsOf(ps) \cup {p.id}
  <2>1. ASSUME x \in IdsOf(t) PROVE x \in IdsOf(ps) \cup {p.id}
    <3>1. PICK k \in DOMAIN t : x = t[k].id
      BY <2>1 DEF IdsOf
    <3>2. CASE k = n
      BY <3>1, <3>2, <1>5
    <3>3. CASE k # n
      BY <3>1, <3>3, <1>1, <1>5, <1>6, <1>9 DEF IdsOf
    <3> QED BY <3>2, <3>3
  <2>2. ASSUME x \in IdsOf(ps) PROVE x \in IdsOf(t)
    <3>1. PICK j \in DOMAIN ps : x = ps[j].id
      BY <2>2 DEF IdsOf
    <3>2. PICK k \in 1..(Len(ps) + 1) : k # n /\ from(k) = j
      BY <3>1, <1>1, <1>8
    <3> QED BY <3>1, <3>2, <1>5, <1>9 DEF IdsOf
  <2>3. p.id \in IdsOf(t)
    BY <1>5, <1>9 DEF IdsOf
  <2> QED BY <2>1, <2>2, <2>3
<1> QED BY <1>10, <1>11

LEMMA InsertIs ==
    ASSUME NEW ps \in Seq(PanelRecords), OnceEach(ps), NEW n \in 1..(Len(ps) + 1),
           NEW p \in PanelRecords, p.id \notin IdsOf(ps)
    PROVE  /\ InsertAt(ps, n, p) \in Seq(PanelRecords) /\ OnceEach(InsertAt(ps, n, p))
           /\ IdsOf(InsertAt(ps, n, p)) = IdsOf(ps) \cup {p.id}
<1> DEFINE t == InsertAt(ps, n, p) A == SubSeq(ps, 1, n - 1) B == SubSeq(ps, n, Len(ps)) C == A \o <<p>>
<1>1. Len(ps) \in Nat /\ n \in Nat /\ n <= Len(ps) + 1
  OBVIOUS
<1>2. A \in Seq(PanelRecords) /\ Len(A) = n - 1 /\ \A k \in 1..(n - 1) : A[k] = ps[k]
  BY <1>1
<1>3. /\ B \in Seq(PanelRecords) /\ Len(B) = Len(ps) - n + 1
      /\ \A k \in 1..(Len(ps) - n + 1) : B[k] = ps[n + k - 1]
  BY <1>1
<1>4. t = C \o B
  BY DEF InsertAt
<1> HIDE DEF A, B, t
<1>5. C \in Seq(PanelRecords) /\ Len(C) = n /\ C[n] = p /\ \A k \in 1..(n - 1) : C[k] = ps[k]
  BY <1>1, <1>2
<1> HIDE DEF C
<1>6. t \in Seq(PanelRecords) /\ Len(t) = Len(ps) + 1
  <2>1. t \in Seq(PanelRecords)
    BY <1>3, <1>4, <1>5
  <2>2. Len(t) = Len(C) + Len(B)
    BY <1>3, <1>4, <1>5
  <2> QED BY <2>1, <2>2, <1>1, <1>3, <1>5
<1>7. t[n] = p
  BY <1>1, <1>3, <1>4, <1>5
<1>8. ASSUME NEW k \in 1..(Len(ps) + 1), k # n PROVE t[k] = ps[IF k < n THEN k ELSE k - 1]
  <2>1. CASE k < n
    BY <1>1, <1>3, <1>4, <1>5, <2>1
  <2>2. CASE k > n
    <3>1. k - n \in 1..(Len(ps) - n + 1) /\ n + (k - n) - 1 = k - 1 /\ ~(k < n)
      BY <1>1, <2>2
    <3>2. t[k] = B[k - n]
      BY <1>1, <1>3, <1>4, <1>5, <2>2, <3>1
    <3>3. B[k - n] = ps[n + (k - n) - 1]
      BY <3>1, <1>3
    <3> QED BY <3>1, <3>2, <3>3
  <2> QED BY <2>1, <2>2, <1>1, <1>8
<1>9. DOMAIN t = 1..(Len(ps) + 1)
  BY <1>6
<1>10. PutAt(ps, n, p, t)
  BY <1>7, <1>8, <1>9 DEF PutAt
<1>11. OnceEach(t) /\ IdsOf(t) = IdsOf(ps) \cup {p.id}
  BY <1>10, PutIs
<1> QED BY <1>6, <1>11 DEF t

LEMMA AppendIs ==
    ASSUME NEW ps \in Seq(PanelRecords), OnceEach(ps), NEW p \in PanelRecords, p.id \notin IdsOf(ps)
    PROVE  /\ Append(ps, p) \in Seq(PanelRecords) /\ OnceEach(Append(ps, p))
           /\ IdsOf(Append(ps, p)) = IdsOf(ps) \cup {p.id}
<1> DEFINE t == Append(ps, p) n == Len(ps) + 1
<1>1. Len(ps) \in Nat /\ n \in 1..(Len(ps) + 1)
  OBVIOUS
<1>2. t \in Seq(PanelRecords) /\ DOMAIN t = 1..(Len(ps) + 1) /\ t[n] = p
  BY <1>1
<1>3. \A k \in 1..(Len(ps) + 1) : k # n => t[k] = ps[IF k < n THEN k ELSE k - 1]
  BY <1>1
<1> HIDE DEF t, n
<1>4. PutAt(ps, n, p, t)
  BY <1>2, <1>3 DEF PutAt
<1>5. OnceEach(t) /\ IdsOf(t) = IdsOf(ps) \cup {p.id}
  BY <1>1, <1>4, PutIs
<1> QED BY <1>2, <1>5 DEF t

\* what movePanel takes from one section and puts in another, or elsewhere in the same
LEMMA MoveKeeps ==
    ASSUME NEW l \in Layouts, Complete(l), NEW id \in PanelIds, NEW to \in DOMAIN l, NEW ps \in Seq(PanelRecords),
           OnceEach(ps), IdsOf(ps) = IdsOf(Without(l, id)[to].panels) \cup {id}
    PROVE  /\ [Without(l, id) EXCEPT ![to].panels = ps] \in Layouts
           /\ Complete([Without(l, id) EXCEPT ![to].panels = ps])
<1> DEFINE rest == Without(l, id) m == [rest EXCEPT ![to].panels = ps]
<1>1. /\ rest \in Layouts /\ DOMAIN rest = DOMAIN l
      /\ \A i \in DOMAIN l : /\ rest[i].id = l[i].id /\ OnceEach(rest[i].panels)
                             /\ IdsOf(rest[i].panels) = IdsOf(l[i].panels) \ {id}
  BY WithoutIs
<1> HIDE DEF rest
<1>2. /\ m \in Layouts /\ DOMAIN m = DOMAIN rest
      /\ \A i \in DOMAIN rest : m[i].id = rest[i].id /\ m[i].panels = IF i = to THEN ps ELSE rest[i].panels
  BY <1>1, OneRefilled
<1>3. IdsOf(ps) = IdsOf(rest[to].panels) \cup {id}
  BY DEF rest
<1> HIDE DEF m
<1>4. \A i \in DOMAIN l : m[i].id = l[i].id /\ OnceEach(m[i].panels)
  BY <1>1, <1>2, <1>3
<1>5. \A i \in DOMAIN l : IdsOf(m[i].panels) = (IdsOf(l[i].panels) \ {id}) \cup (IF i = to THEN {id} ELSE {})
  BY <1>1, <1>2, <1>3
<1>6. DOMAIN m = DOMAIN l
  BY <1>1, <1>2
<1>7. Moved(l, m, id, to)
  BY <1>4, <1>5, <1>6 DEF Moved
<1>8. Complete(m)
  BY <1>7, MovedComplete
<1> QED BY <1>2, <1>8 DEF m, rest

\* the moves of layout.js keep a layout complete
LEMMA StepKeeps ==
    ASSUME NEW l \in Layouts, Complete(l), NEW id \in PanelIds, NEW dir \in 0..1
    PROVE  StepPanel(l, id, dir) \in Layouts /\ Complete(StepPanel(l, id, dir))
<1> DEFINE i == SectionOf(l, id) ps == l[i].panels j == PlaceOf(ps, id)
           new == Swap(ps, j, Neighbour(j, dir)) m == [l EXCEPT ![i].panels = new]
<1>1. i \in DOMAIN l /\ j \in DOMAIN ps
  BY PanelFound
<1>2. ps \in Seq(PanelRecords)
  <2>1. l[i] \in SectionRecords
    BY <1>1 DEF Layouts
  <2> QED BY <2>1 DEF SectionRecords
<1>3. OnceEach(ps)
  BY <1>1 DEF Complete, OnePlace
<1>4. Neighbour(j, dir) \in Nat
  BY <1>1, <1>2 DEF Neighbour
<1>5. StepPanel(l, id, dir) = m
  BY DEF StepPanel
<1> HIDE DEF i, j, ps
<1>6. new \in Seq(PanelRecords)
  BY <1>1, <1>2, <1>4, SwapIs
<1>7. IdsOf(new) = IdsOf(ps) /\ OnceEach(new)
  BY <1>1, <1>2, <1>3, <1>4, SwapIds
<1> HIDE DEF new
<1>8. /\ m \in Layouts /\ DOMAIN m = DOMAIN l
      /\ \A k \in DOMAIN l : m[k].id = l[k].id /\ m[k].panels = IF k = i THEN new ELSE l[k].panels
  BY <1>1, <1>6, OneRefilled
<1> HIDE DEF m
<1>9. \A k \in DOMAIN l : m[k].id = l[k].id /\ IdsOf(m[k].panels) = IdsOf(l[k].panels)
  BY <1>7, <1>8 DEF ps
<1>10. \A k \in DOMAIN l : OnceEach(m[k].panels)
  BY <1>7, <1>8 DEF Complete, OnePlace
<1>11. Complete(m)
  BY <1>8, <1>9, <1>10, SameIdsComplete
<1> QED BY <1>5, <1>8, <1>11

LEMMA SectionMoves ==
    ASSUME NEW l \in Layouts, Complete(l), NEW sec \in SectionIds, NEW dir \in 0..1
    PROVE  MoveSection(l, sec, dir) \in Layouts /\ Complete(MoveSection(l, sec, dir))
<1> DEFINE i == CHOOSE k \in DOMAIN l : l[k].id = sec
<1>1. i \in DOMAIN l
  BY SectionFound
<1>2. Neighbour(i, dir) \in Nat
  BY <1>1 DEF Neighbour, Layouts
<1>3. MoveSection(l, sec, dir) = Swap(l, i, Neighbour(i, dir))
  BY DEF MoveSection
<1> HIDE DEF i
<1> QED BY <1>1, <1>2, <1>3, SwapComplete

LEMMA EndKeeps ==
    ASSUME NEW l \in Layouts, Complete(l), NEW id \in PanelIds, NEW sec \in SectionIds
    PROVE  MoveToEnd(l, id, sec) \in Layouts /\ Complete(MoveToEnd(l, id, sec))
<1> DEFINE rest == Without(l, id) to == CHOOSE i \in DOMAIN rest : rest[i].id = sec
           p == PanelOf(l, id) new == Append(rest[to].panels, p)
<1>1. /\ rest \in Layouts /\ DOMAIN rest = DOMAIN l
      /\ \A i \in DOMAIN l : /\ rest[i].id = l[i].id /\ OnceEach(rest[i].panels)
                             /\ IdsOf(rest[i].panels) = IdsOf(l[i].panels) \ {id}
  BY WithoutIs
<1>2. MoveToEnd(l, id, sec) = [rest EXCEPT ![to].panels = new]
  BY DEF MoveToEnd
<1>3. p \in PanelRecords /\ p.id = id
  BY PanelFound
<1> HIDE DEF rest, p
<1>4. to \in DOMAIN rest
  <2>1. \E i \in DOMAIN rest : rest[i].id = sec
    BY <1>1, SectionFound
  <2> QED BY <2>1
<1> HIDE DEF to
<1>5. rest[to].panels \in Seq(PanelRecords)
  <2>1. rest[to] \in SectionRecords
    BY <1>1, <1>4 DEF Layouts
  <2> QED BY <2>1 DEF SectionRecords
<1>6. OnceEach(rest[to].panels) /\ p.id \notin IdsOf(rest[to].panels)
  BY <1>1, <1>3, <1>4
<1>7. new \in Seq(PanelRecords) /\ OnceEach(new) /\ IdsOf(new) = IdsOf(rest[to].panels) \cup {p.id}
  BY <1>3, <1>5, <1>6, AppendIs
<1> HIDE DEF new
<1>8. to \in DOMAIN l /\ IdsOf(new) = IdsOf(Without(l, id)[to].panels) \cup {id}
  BY <1>1, <1>3, <1>4, <1>7 DEF rest
<1>9. /\ [Without(l, id) EXCEPT ![to].panels = new] \in Layouts
      /\ Complete([Without(l, id) EXCEPT ![to].panels = new])
  BY <1>7, <1>8, MoveKeeps
<1> QED BY <1>2, <1>9 DEF rest

LEMMA PanelMoves ==
    ASSUME NEW l \in Layouts, Complete(l), NEW id \in PanelIds, NEW target \in PanelIds, NEW after \in BOOLEAN
    PROVE  MoveByPanel(l, id, target, after) \in Layouts /\ Complete(MoveByPanel(l, id, target, after))
<1>1. CASE id = target
  BY <1>1 DEF MoveByPanel
<1>2. CASE id # target
  <2> DEFINE rest == Without(l, id) to == SectionOf(rest, target)
             p == PanelOf(l, id) n == PlaceOf(rest[to].panels, target) + (IF after THEN 1 ELSE 0)
             new == InsertAt(rest[to].panels, n, p)
  <2>1. /\ rest \in Layouts /\ DOMAIN rest = DOMAIN l
        /\ \A i \in DOMAIN l : /\ rest[i].id = l[i].id /\ OnceEach(rest[i].panels)
                               /\ IdsOf(rest[i].panels) = IdsOf(l[i].panels) \ {id}
    BY WithoutIs
  <2>2. MoveByPanel(l, id, target, after) = [rest EXCEPT ![to].panels = new]
    BY <1>2 DEF MoveByPanel
  <2>3. p \in PanelRecords /\ p.id = id
    BY PanelFound
  <2> HIDE DEF rest, p
  <2>4. to \in DOMAIN rest /\ target \in IdsOf(rest[to].panels)
    <3>1. \E i \in DOMAIN l : target \in IdsOf(l[i].panels)
      BY DEF Complete, AllPanels
    <3>2. \E i \in DOMAIN rest : target \in IdsOf(rest[i].panels)
      BY <1>2, <2>1, <3>1
    <3> QED BY <3>2 DEF SectionOf
  <2> HIDE DEF to
  <2>5. rest[to].panels \in Seq(PanelRecords)
    <3>1. rest[to] \in SectionRecords
      BY <2>1, <2>4 DEF Layouts
    <3> QED BY <3>1 DEF SectionRecords
  <2>6. OnceEach(rest[to].panels) /\ p.id \notin IdsOf(rest[to].panels)
    BY <2>1, <2>3, <2>4
  <2>7. n \in 1..(Len(rest[to].panels) + 1)
    <3>1. \E j \in DOMAIN rest[to].panels : rest[to].panels[j].id = target
      BY <2>4 DEF IdsOf
    <3>2. PlaceOf(rest[to].panels, target) \in DOMAIN rest[to].panels
      BY <3>1 DEF PlaceOf
    <3> QED BY <2>5, <3>2
  <2> HIDE DEF n
  <2>8. new \in Seq(PanelRecords) /\ OnceEach(new) /\ IdsOf(new) = IdsOf(rest[to].panels) \cup {p.id}
    BY <2>3, <2>5, <2>6, <2>7, InsertIs
  <2> HIDE DEF new
  <2>9. to \in DOMAIN l /\ IdsOf(new) = IdsOf(Without(l, id)[to].panels) \cup {id}
    BY <2>1, <2>3, <2>4, <2>8 DEF rest
  <2>10. /\ [Without(l, id) EXCEPT ![to].panels = new] \in Layouts
         /\ Complete([Without(l, id) EXCEPT ![to].panels = new])
    BY <2>8, <2>9, MoveKeeps
  <2> QED BY <2>2, <2>10 DEF rest
<1> QED BY <1>1, <1>2

\* sections opened and folded: the whole layout, with other values of open
LEMMA OpenKeeps ==
    ASSUME NEW l \in Layouts, Complete(l), NEW secs, NEW open \in BOOLEAN
    PROVE  LET m == [i \in DOMAIN l |-> IF l[i].id \in secs THEN [l[i] EXCEPT !.open = open] ELSE l[i]]
           IN  m \in Layouts /\ Complete(m)
<1> DEFINE m == [i \in DOMAIN l |-> IF l[i].id \in secs THEN [l[i] EXCEPT !.open = open] ELSE l[i]]
<1>1. \A i \in DOMAIN l : l[i] \in SectionRecords
  BY DEF Layouts
<1>2. \A s \in SectionRecords : /\ [s EXCEPT !.open = open] \in SectionRecords
                               /\ [s EXCEPT !.open = open].id = s.id /\ [s EXCEPT !.open = open].panels = s.panels
  BY DEF SectionRecords
<1>3. \A i \in DOMAIN l : m[i] \in SectionRecords
  BY <1>1, <1>2
<1>4. \A i \in DOMAIN l : m[i].id = l[i].id /\ m[i].panels = l[i].panels
  BY <1>1, <1>2
<1>5. DOMAIN l = 1..Len(l) /\ Len(l) \in Nat /\ DOMAIN m = DOMAIN l
  BY DEF Layouts
<1>6. m = [i \in 1..Len(l) |-> m[i]]
  BY <1>5
<1> HIDE DEF m
<1>7. m \in Layouts
  BY <1>3, <1>5, <1>6 DEF Layouts
<1>8. \A i \in DOMAIN l : m[i].id = l[i].id /\ IdsOf(m[i].panels) = IdsOf(l[i].panels)
  BY <1>4
<1>9. \A i \in DOMAIN l : OnceEach(m[i].panels)
  BY <1>4 DEF Complete, OnePlace
<1>10. Complete(m)
  BY <1>5, <1>8, <1>9, SameIdsComplete
<1> QED BY <1>7, <1>10 DEF m

(* What was stored -------------------------------------------------------- *)

LEMMA ClampIs == \A span \in Nat : Clamp(span) \in 2..12 /\ (span \in 2..12 => Clamp(span) = span)
<1> SUFFICES ASSUME NEW span \in Nat PROVE Clamp(span) \in 2..12 /\ (span \in 2..12 => Clamp(span) = span)
  OBVIOUS
<1> DEFINE low == Min({12, span})
<1>1. low \in {12, span} /\ low <= 12 /\ low <= span
  <2>1. \E x \in {12, span} : \A y \in {12, span} : x =< y
    <3>1. CASE span <= 12
      BY <3>1
    <3>2. CASE 12 < span
      BY <3>2
    <3> QED BY <3>1, <3>2
  <2>2. low \in {12, span} /\ \A y \in {12, span} : low =< y
    BY <2>1 DEF Min
  <2> QED BY <2>2
<1> HIDE DEF low
<1>2. Max({2, low}) \in {2, low} /\ Max({2, low}) >= 2 /\ Max({2, low}) >= low
  <2>0. low \in Nat
    BY <1>1
  <2>1. \E x \in {2, low} : \A y \in {2, low} : x >= y
    <3>1. CASE low <= 2
      BY <2>0, <3>1
    <3>2. CASE 2 < low
      BY <2>0, <3>2
    <3> QED BY <2>0, <3>1, <3>2
  <2>2. Max({2, low}) \in {2, low} /\ \A y \in {2, low} : Max({2, low}) >= y
    BY <2>1 DEF Max
  <2> QED BY <2>2
<1>3. Clamp(span) = Max({2, low})
  BY DEF Clamp, low
<1> QED BY <1>1, <1>2, <1>3

LEMMA StoredIs == \A span \in Nat : StoredSpan(span) \in 2..12 /\ (span \in 2..12 => StoredSpan(span) = span)
<1> SUFFICES ASSUME NEW span \in Nat PROVE StoredSpan(span) \in 2..12 /\ (span \in 2..12 => StoredSpan(span) = span)
  OBVIOUS
<1>1. CASE span = 0
  <2>1. StoredSpan(span) = Clamp(6)
    BY <1>1 DEF StoredSpan
  <2> QED BY <1>1, <2>1, ClampIs
<1>2. CASE span # 0
  BY <1>2, ClampIs DEF StoredSpan
<1> QED BY <1>1, <1>2

LEMMA SeqBuilt ==
    ASSUME NEW S, NEW n \in Nat, NEW q, q = [i \in 1..n |-> q[i]], \A i \in 1..n : q[i] \in S
    PROVE  q \in Seq(S) /\ Len(q) = n /\ DOMAIN q = 1..n
<1>1. DOMAIN q = 1..n
  OBVIOUS
<1>2. q \in [1..n -> S]
  OBVIOUS
<1>3. q \in Seq(S)
  BY <1>2
<1> QED BY <1>1, <1>3

LEMMA FreshIs == FreshLayout \in Layouts /\ Complete(FreshLayout)
<1> DEFINE d == DefaultLayout f == FreshLayout
           ps(i) == [j \in DOMAIN d[i].panels |-> [id |-> d[i].panels[j].id, span |-> d[i].panels[j].span,
                                                   open |-> TRUE, h |-> AutoHeight]]
<1>1. DOMAIN f = DOMAIN d /\ \A i \in DOMAIN d : f[i] = [id |-> d[i].id, open |-> TRUE, panels |-> ps(i)]
  BY DEF FreshLayout
<1>2. ASSUME NEW i \in DOMAIN d
      PROVE  /\ d[i].id \in SectionIds /\ ps(i) \in Seq(PanelRecords)
             /\ IdsOf(ps(i)) = IdsOf(d[i].panels) /\ OnceEach(ps(i))
  <2>1. d[i] \in DefaultSections
    BY LayoutDefaults
  <2>2. d[i].id \in SectionIds /\ d[i].panels \in Seq(DefaultPanels)
    BY <2>1 DEF DefaultSections
  <2>3. \A j \in DOMAIN d[i].panels : d[i].panels[j].id \in PanelIds /\ d[i].panels[j].span \in 2..12
    <3>1. \A j \in DOMAIN d[i].panels : d[i].panels[j] \in DefaultPanels
      BY <2>2
    <3> QED BY <3>1 DEF DefaultPanels
  <2>4. \A j \in DOMAIN d[i].panels : ps(i)[j] \in PanelRecords /\ ps(i)[j].id = d[i].panels[j].id
    BY <2>3 DEF PanelRecords, Heights
  <2>5. DOMAIN ps(i) = DOMAIN d[i].panels
    OBVIOUS
  <2>6. ps(i) \in Seq(PanelRecords)
    <3>1. DOMAIN d[i].panels = 1..Len(d[i].panels) /\ Len(d[i].panels) \in Nat
      BY <2>2
    <3>2. ps(i) = [j \in 1..Len(d[i].panels) |-> ps(i)[j]]
      BY <3>1
    <3> HIDE DEF ps
    <3> QED BY <2>4, <3>1, <3>2, SeqBuilt
  <2>7. OnceEach(d[i].panels)
    BY LayoutDefaults DEF OnePlace
  <2> HIDE DEF ps
  <2> QED BY <2>2, <2>4, <2>5, <2>6, <2>7 DEF IdsOf, OnceEach
<1> HIDE DEF ps
<1>3. \A i \in DOMAIN d : f[i].id = d[i].id /\ f[i].panels = ps(i) /\ f[i] \in SectionRecords
  <2> SUFFICES ASSUME NEW i \in DOMAIN d
               PROVE  f[i].id = d[i].id /\ f[i].panels = ps(i) /\ f[i] \in SectionRecords
    OBVIOUS
  <2>1. f[i] = [id |-> d[i].id, open |-> TRUE, panels |-> ps(i)]
    BY <1>1
  <2>2. d[i].id \in SectionIds /\ ps(i) \in Seq(PanelRecords)
    BY <1>2
  <2>3. f[i] \in SectionRecords
    BY <2>1, <2>2 DEF SectionRecords
  <2> QED BY <2>1, <2>3
<1>4. f \in Layouts
  <2>1. DOMAIN d = 1..Len(d) /\ Len(d) \in Nat
    BY LayoutDefaults
  <2>2. f = [i \in 1..Len(d) |-> f[i]]
    BY <2>1 DEF FreshLayout
  <2> QED BY <1>1, <1>3, <2>1, <2>2 DEF Layouts
<1>5. Complete(d)
  BY LayoutDefaults DEF Complete, SectionIds, PanelIds
<1> HIDE DEF f
<1>6. Complete(f)
  BY <1>1, <1>2, <1>3, <1>5, SameIdsComplete
<1> QED BY <1>4, <1>6 DEF f

\* the stored sections that are still known
LEMMA KnownSecsAre ==
    ASSUME NEW l \in OlderLayouts, OnceEach(l)
    PROVE  /\ KnownSecs(l) \in OlderLayouts /\ OnceEach(KnownSecs(l))
           /\ \A i \in DOMAIN KnownSecs(l) : KnownSecs(l)[i].id \in SectionIds
<1> DEFINE P == {i \in DOMAIN l : l[i].id \in SectionIds} K == Picked(l, P)
<1>1. l \in Seq(OlderSections) /\ P \in SUBSET DOMAIN l
  BY DEF OlderLayouts
<1>2. K \in Seq(OlderSections)
  BY <1>1, PickedIs
<1>3. \A j, k \in P : l[j].id = l[k].id => j = k
  BY DEF OnceEach
<1>4. IdsOf(K) = {l[j].id : j \in P} /\ OnceEach(K)
  BY <1>1, <1>3, PickedIds
<1>5. \A i \in DOMAIN K : K[i].id \in IdsOf(K)
  BY DEF IdsOf
<1>6. \A x \in {l[j].id : j \in P} : x \in SectionIds
  OBVIOUS
<1>7. K = KnownSecs(l)
  BY DEF KnownSecs
<1> HIDE DEF K, P
<1>8. \A i \in DOMAIN K : K[i].id \in SectionIds
  BY <1>4, <1>5, <1>6
<1> QED BY <1>2, <1>4, <1>7, <1>8 DEF OlderLayouts

LEMMA KeptPanelsAre ==
    ASSUME NEW K \in OlderLayouts, NEW i \in DOMAIN K
    PROVE  /\ KeptPanels(K, i) \in Seq(PanelRecords) /\ OnceEach(KeptPanels(K, i))
           /\ \A x \in IdsOf(KeptPanels(K, i)) : \E j \in DOMAIN K[i].panels : FirstHere(K, i, j) /\ x = K[i].panels[j].id
<1> DEFINE ps == K[i].panels P == {j \in DOMAIN ps : FirstHere(K, i, j)}
           qs == [j \in DOMAIN ps |-> [ps[j] EXCEPT !.span = StoredSpan(@)]]
           T == [id : PanelIds \cup OtherIds, span : 2..12, open : BOOLEAN, h : Heights]
<1>1. ps \in Seq(OlderPanels)
  <2>1. K[i] \in OlderSections
    BY DEF OlderLayouts
  <2> QED BY <2>1 DEF OlderSections
<1>2. \A j \in DOMAIN ps : ps[j] \in OlderPanels
  BY <1>1
<1>3. \A j \in DOMAIN ps : StoredSpan(ps[j].span) \in 2..12
  BY <1>2, StoredIs DEF OlderPanels
<1>4. \A j \in DOMAIN ps : qs[j] \in T /\ qs[j].id = ps[j].id
  BY <1>2, <1>3 DEF OlderPanels
<1>5. qs \in Seq(T) /\ DOMAIN qs = DOMAIN ps
  <2>1. DOMAIN ps = 1..Len(ps) /\ Len(ps) \in Nat
    BY <1>1
  <2>2. qs = [j \in 1..Len(ps) |-> qs[j]] /\ DOMAIN qs = DOMAIN ps
    BY <2>1
  <2> HIDE DEF qs, T
  <2> QED BY <1>4, <2>1, <2>2, SeqBuilt
<1>6. KeptPanels(K, i) = Picked(qs, P)
  BY DEF KeptPanels
<1>7. P \in SUBSET DOMAIN qs /\ DOMAIN ps = 1..Len(ps) /\ Len(ps) \in Nat
  BY <1>1, <1>5
<1>8. \A j \in P : qs[j].id = ps[j].id /\ ps[j].id \in PanelIds /\ \A k \in 1..(j - 1) : ps[k].id # ps[j].id
  BY <1>4 DEF FirstHere
<1> HIDE DEF qs, T
<1>9. \A j, k \in P : qs[j].id = qs[k].id => j = k
  <2> SUFFICES ASSUME NEW j \in P, NEW k \in P, ps[j].id = ps[k].id PROVE j = k
    BY <1>8
  <2>1. j \in Nat /\ k \in Nat /\ j >= 1 /\ k >= 1
    BY <1>7
  <2>2. j \notin 1..(k - 1) /\ k \notin 1..(j - 1)
    BY <1>8
  <2> QED BY <2>1, <2>2
<1>10. /\ IdsOf(Picked(qs, P)) = {qs[j].id : j \in P} /\ OnceEach(Picked(qs, P))
  BY <1>5, <1>7, <1>9, PickedIds
<1>11. \A n \in DOMAIN Picked(qs, P) : Nth(P, n) \in P /\ Picked(qs, P)[n] = qs[Nth(P, n)]
  BY <1>5, <1>7, PickedIs
<1>12. \A j \in P : qs[j] \in PanelRecords
  BY <1>4, <1>8 DEF T, PanelRecords
<1>13. Picked(qs, P) \in Seq(T)
  BY <1>5, <1>7, PickedIs
<1>14. Picked(qs, P) \in Seq(PanelRecords)
  BY <1>11, <1>12, <1>13
<1> QED BY <1>6, <1>8, <1>10, <1>14

LEMMA KeptSecsAre ==
    ASSUME NEW l \in OlderLayouts, OnceEach(l)
    PROVE  /\ KeptSecs(l) \in Layouts /\ OnceEach(KeptSecs(l)) /\ OnePlace(KeptSecs(l))
           /\ AllPanels(KeptSecs(l)) \subseteq PanelIds
<1> DEFINE K == KnownSecs(l) q(i) == KeptPanels(K, i) m == KeptSecs(l)
<1>1. K \in OlderLayouts /\ OnceEach(K) /\ \A i \in DOMAIN K : K[i].id \in SectionIds
  BY KnownSecsAre
<1>2. m = [i \in DOMAIN K |-> [K[i] EXCEPT !.panels = q(i)]]
  BY DEF KeptSecs
<1> HIDE DEF K, q, m
<1>3. DOMAIN K = 1..Len(K) /\ Len(K) \in Nat /\ DOMAIN m = DOMAIN K
  BY <1>1, <1>2 DEF OlderLayouts
<1>4. ASSUME NEW i \in DOMAIN K
      PROVE  m[i] \in SectionRecords /\ m[i].id = K[i].id /\ m[i].panels = q(i)
  <2>1. K[i] \in OlderSections /\ K[i].id \in SectionIds /\ q(i) \in Seq(PanelRecords)
    <3>1. K[i] \in OlderSections
      BY <1>1 DEF OlderLayouts
    <3> QED BY <3>1, <1>1, KeptPanelsAre DEF q
  <2>2. m[i] = [K[i] EXCEPT !.panels = q(i)]
    BY <1>2
  <2> QED BY <2>1, <2>2 DEF SectionRecords, OlderSections
<1>5. m \in Layouts
  <2>1. m = [i \in 1..Len(K) |-> m[i]]
    BY <1>2, <1>3
  <2> QED BY <2>1, <1>3, <1>4, SeqBuilt DEF Layouts
<1>6. OnceEach(m)
  BY <1>1, <1>3, <1>4 DEF OnceEach
<1>7. ASSUME NEW i \in DOMAIN K
      PROVE  /\ OnceEach(m[i].panels)
             /\ \A x \in IdsOf(m[i].panels) : /\ x \in PanelIds /\ x \in IdsOf(K[i].panels)
                                              /\ \A k \in 1..(i - 1) : x \notin IdsOf(K[k].panels)
  <2>1. /\ OnceEach(q(i))
        /\ \A x \in IdsOf(q(i)) : \E j \in DOMAIN K[i].panels : FirstHere(K, i, j) /\ x = K[i].panels[j].id
    BY <1>1, KeptPanelsAre DEF q
  <2>2. \A x \in IdsOf(q(i)) : /\ x \in PanelIds /\ x \in IdsOf(K[i].panels)
                              /\ \A k \in 1..(i - 1) : x \notin IdsOf(K[k].panels)
    <3> SUFFICES ASSUME NEW x \in IdsOf(q(i))
                 PROVE  /\ x \in PanelIds /\ x \in IdsOf(K[i].panels)
                        /\ \A k \in 1..(i - 1) : x \notin IdsOf(K[k].panels)
      OBVIOUS
    <3>1. PICK j \in DOMAIN K[i].panels : FirstHere(K, i, j) /\ x = K[i].panels[j].id
      BY <2>1
    <3>2. x \in PanelIds /\ \A k \in 1..(i - 1) : x \notin IdsOf(K[k].panels)
      BY <3>1 DEF FirstHere
    <3>3. x \in IdsOf(K[i].panels)
      BY <3>1 DEF IdsOf
    <3> QED BY <3>2, <3>3
  <2> QED BY <1>4, <2>1, <2>2
<1>8. OnePlace(m)
  <2>1. ASSUME NEW i \in DOMAIN K, NEW k \in DOMAIN K, i < k, NEW x \in IdsOf(m[i].panels), x \in IdsOf(m[k].panels)
        PROVE  FALSE
    <3>1. x \in IdsOf(K[i].panels)
      BY <1>7
    <3>2. i \in 1..(k - 1)
      BY <1>3, <2>1
    <3> QED BY <1>7, <2>1, <3>1, <3>2
  <2>2. ASSUME NEW i \in DOMAIN K, NEW k \in DOMAIN K, i # k, NEW x \in IdsOf(m[i].panels), x \in IdsOf(m[k].panels)
        PROVE  FALSE
    <3>1. i < k \/ k < i
      BY <1>3, <2>2
    <3> QED BY <2>1, <2>2, <3>1
  <2> QED BY <1>3, <1>7, <2>2 DEF OnePlace
<1>9. AllPanels(m) \subseteq PanelIds
  BY <1>3, <1>7 DEF AllPanels
<1> QED BY <1>5, <1>6, <1>8, <1>9 DEF m

LEMMA AddedSecsAre ==
    ASSUME NEW k \in Layouts
    PROVE  /\ AddedSecs(k) \in Layouts /\ OnceEach(AddedSecs(k)) /\ IdsOf(AddedSecs(k)) = SectionIds \ IdsOf(k)
           /\ \A i \in DOMAIN AddedSecs(k) : IdsOf(AddedSecs(k)[i].panels) = {} /\ OnceEach(AddedSecs(k)[i].panels)
<1> DEFINE f == FreshLayout P == {i \in DOMAIN f : f[i].id \notin IdsOf(k)} a == Picked(f, P) m == AddedSecs(k)
           q == [i \in DOMAIN a |-> <<>>]
<1>1. f \in Layouts /\ Complete(f)
  BY FreshIs
<1> HIDE DEF f
<1>2. f \in Seq(SectionRecords) /\ P \in SUBSET DOMAIN f
  BY <1>1 DEF Layouts
<1>3. a \in Layouts
  BY <1>2, PickedIs DEF Layouts
<1>4. \A i, j \in P : f[i].id = f[j].id => i = j
  BY <1>1 DEF Complete, OnceEach
<1>5. IdsOf(a) = {f[i].id : i \in P} /\ OnceEach(a)
  BY <1>2, <1>4, PickedIds
<1>6. {f[i].id : i \in P} = SectionIds \ IdsOf(k)
  <2>1. SectionIds = {f[i].id : i \in DOMAIN f}
    BY <1>1 DEF Complete, IdsOf
  <2> QED BY <2>1
<1>7. m = Refilled(a, q)
  BY DEF AddedSecs, Refilled, f
<1> HIDE DEF a, m, P
<1>8. q \in [DOMAIN a -> Seq(PanelRecords)] /\ \A i \in DOMAIN a : q[i] = <<>>
  OBVIOUS
<1> HIDE DEF q
<1>9. m \in Layouts /\ DOMAIN m = DOMAIN a /\ \A i \in DOMAIN a : m[i].id = a[i].id /\ m[i].panels = q[i]
  BY <1>3, <1>7, <1>8, RefilledIs
<1>10. IdsOf(m) = IdsOf(a)
  BY <1>9 DEF IdsOf
<1>11. OnceEach(m)
  BY <1>5, <1>9 DEF OnceEach
<1>12. IdsOf(<<>>) = {} /\ OnceEach(<<>>)
  BY DEF IdsOf, OnceEach
<1>13. \A i \in DOMAIN m : IdsOf(m[i].panels) = {} /\ OnceEach(m[i].panels)
  BY <1>8, <1>9, <1>12
<1> QED BY <1>5, <1>6, <1>9, <1>10, <1>11, <1>13 DEF m

\* the panels that a section has by default and no stored section has
LEMMA AddedPanelsAre ==
    ASSUME NEW k, NEW i \in DOMAIN FreshLayout
    PROVE  /\ AddedPanels(k, FreshLayout[i].id) \in Seq(PanelRecords) /\ OnceEach(AddedPanels(k, FreshLayout[i].id))
           /\ IdsOf(AddedPanels(k, FreshLayout[i].id)) = IdsOf(FreshLayout[i].panels) \ AllPanels(k)
<1> DEFINE f == FreshLayout ps == f[i].panels P == {j \in DOMAIN ps : ps[j].id \notin AllPanels(k)}
<1>1. f \in Layouts /\ Complete(f)
  BY FreshIs
<1>2. (CHOOSE n \in DOMAIN f : f[n].id = f[i].id) = i
  BY <1>1 DEF Complete, OnceEach
<1>3. AddedPanels(k, f[i].id) = Picked(ps, P)
  BY <1>2 DEF AddedPanels
<1> HIDE DEF f
<1>4. ps \in Seq(PanelRecords) /\ P \in SUBSET DOMAIN ps
  <2>1. f[i] \in SectionRecords
    BY <1>1 DEF Layouts, f
  <2> QED BY <2>1 DEF SectionRecords
<1>5. \A j, n \in P : ps[j].id = ps[n].id => j = n
  BY <1>1 DEF Complete, OnePlace, OnceEach, f
<1>6. Picked(ps, P) \in Seq(PanelRecords)
  BY <1>4, PickedIs
<1>7. IdsOf(Picked(ps, P)) = {ps[j].id : j \in P} /\ OnceEach(Picked(ps, P))
  BY <1>4, <1>5, PickedIds
<1>8. {ps[j].id : j \in P} = IdsOf(ps) \ AllPanels(k)
  BY DEF IdsOf
<1> QED BY <1>3, <1>6, <1>7, <1>8 DEF f

LEMMA JoinIds ==
    ASSUME NEW S, NEW s \in Seq(S), NEW t \in Seq(S), OnceEach(s), OnceEach(t), IdsOf(s) \cap IdsOf(t) = {}
    PROVE  OnceEach(s \o t) /\ IdsOf(s \o t) = IdsOf(s) \cup IdsOf(t)
<1> DEFINE u == s \o t
<1>1. /\ u \in Seq(S) /\ Len(u) = Len(s) + Len(t) /\ Len(s) \in Nat /\ Len(t) \in Nat
      /\ \A n \in 1..Len(s) : u[n] = s[n]
      /\ \A n \in (Len(s) + 1)..(Len(s) + Len(t)) : u[n] = t[n - Len(s)]
  BY ConcatProperties
<1>2. DOMAIN u = 1..(Len(s) + Len(t)) /\ DOMAIN s = 1..Len(s) /\ DOMAIN t = 1..Len(t)
  BY <1>1
<1> HIDE DEF u
<1>3. ASSUME NEW n \in DOMAIN u
      PROVE  \/ n \in DOMAIN s /\ u[n] = s[n]
             \/ n - Len(s) \in DOMAIN t /\ u[n] = t[n - Len(s)] /\ n > Len(s)
  <2>1. CASE n <= Len(s)
    BY <1>1, <1>2, <2>1
  <2>2. CASE n > Len(s)
    BY <1>1, <1>2, <2>2
  <2> QED BY <1>1, <1>2, <2>1, <2>2
<1>4. OnceEach(u)
  <2> SUFFICES ASSUME NEW n \in DOMAIN u, NEW m \in DOMAIN u, u[n].id = u[m].id PROVE n = m
    BY DEF OnceEach
  <2>1. n \in Nat /\ m \in Nat
    BY <1>1, <1>2
  <2>2. CASE n \in DOMAIN s /\ u[n] = s[n] /\ m \in DOMAIN s /\ u[m] = s[m]
    BY <2>2 DEF OnceEach
  <2>3. CASE /\ n - Len(s) \in DOMAIN t /\ u[n] = t[n - Len(s)]
             /\ m - Len(s) \in DOMAIN t /\ u[m] = t[m - Len(s)]
    <3>1. n - Len(s) = m - Len(s)
      BY <2>3 DEF OnceEach
    <3> QED BY <1>1, <2>1, <3>1
  <2>4. CASE n \in DOMAIN s /\ u[n] = s[n] /\ m - Len(s) \in DOMAIN t /\ u[m] = t[m - Len(s)]
    BY <2>4 DEF IdsOf
  <2>5. CASE m \in DOMAIN s /\ u[m] = s[m] /\ n - Len(s) \in DOMAIN t /\ u[n] = t[n - Len(s)]
    BY <2>5 DEF IdsOf
  <2> QED BY <1>3, <2>2, <2>3, <2>4, <2>5
<1>5. ASSUME NEW x \in IdsOf(u) PROVE x \in IdsOf(s) \cup IdsOf(t)
  <2>1. PICK n \in DOMAIN u : x = u[n].id
    BY DEF IdsOf
  <2> QED BY <1>3, <2>1 DEF IdsOf
<1>6. ASSUME NEW x \in IdsOf(s) PROVE x \in IdsOf(u)
  <2>1. PICK n \in DOMAIN s : x = s[n].id
    BY DEF IdsOf
  <2>2. n \in DOMAIN u /\ u[n] = s[n]
    BY <1>1, <1>2
  <2> QED BY <2>1, <2>2 DEF IdsOf
<1>7. ASSUME NEW x \in IdsOf(t) PROVE x \in IdsOf(u)
  <2>1. PICK n \in DOMAIN t : x = t[n].id
    BY DEF IdsOf
  <2>2. n + Len(s) \in (Len(s) + 1)..(Len(s) + Len(t)) /\ (n + Len(s)) - Len(s) = n
    BY <1>1, <1>2
  <2>3. n + Len(s) \in DOMAIN u /\ u[n + Len(s)] = t[n]
    BY <1>1, <1>2, <2>2
  <2> QED BY <2>1, <2>3 DEF IdsOf
<1>8. IdsOf(u) = IdsOf(s) \cup IdsOf(t)
  BY <1>5, <1>6, <1>7
<1> QED BY <1>4, <1>8 DEF u

LEMMA SectionIs ==
    ASSUME NEW l \in Layouts, NEW i \in DOMAIN l
    PROVE  l[i] \in SectionRecords /\ l[i].id \in SectionIds /\ l[i].panels \in Seq(PanelRecords)
<1>1. l[i] \in SectionRecords
  BY DEF Layouts
<1> QED BY <1>1 DEF SectionRecords

\* two sequences with the same elements
LEMMA SeqSame ==
    ASSUME NEW S, NEW s \in Seq(S), NEW q, q = [i \in DOMAIN s |-> q[i]], \A i \in DOMAIN s : q[i] = s[i]
    PROVE  q = s
<1>1. s = [i \in DOMAIN s |-> s[i]]
  OBVIOUS
<1>2. [i \in DOMAIN s |-> q[i]] = [i \in DOMAIN s |-> s[i]]
  OBVIOUS
<1> QED BY <1>1, <1>2

\* whatever an older version stored, what is made of it is complete
LEMMA SanitizeCompletes ==
    ASSUME NEW l \in OlderLayouts, OnceEach(l)
    PROVE  Sanitize(l) \in Layouts /\ Complete(Sanitize(l))
<1> DEFINE f == FreshLayout known == KeptSecs(l) added == AddedSecs(known) all == known \o added
           home(i) == CHOOSE n \in DOMAIN f : f[n].id = all[i].id
           own(i) == AddedPanels(known, all[i].id)
           q == [i \in DOMAIN all |-> all[i].panels \o own(i)]
           m == Sanitize(l)
<1>1. /\ known \in Layouts /\ OnceEach(known) /\ OnePlace(known) /\ AllPanels(known) \subseteq PanelIds
  BY KeptSecsAre
<1>2. /\ added \in Layouts /\ OnceEach(added) /\ IdsOf(added) = SectionIds \ IdsOf(known)
      /\ \A i \in DOMAIN added : IdsOf(added[i].panels) = {} /\ OnceEach(added[i].panels)
  BY <1>1, AddedSecsAre
<1>3. f \in Layouts /\ Complete(f)
  BY FreshIs
<1>4. m = Refilled(all, q)
  BY DEF Sanitize, Refilled
<1>5. \A i \in DOMAIN f : f[i].id \in SectionIds
  BY <1>3 DEF Complete, IdsOf
<1>6. ASSUME NEW n \in DOMAIN f
      PROVE  /\ AddedPanels(known, f[n].id) \in Seq(PanelRecords) /\ OnceEach(AddedPanels(known, f[n].id))
             /\ IdsOf(AddedPanels(known, f[n].id)) = IdsOf(f[n].panels) \ AllPanels(known)
  BY AddedPanelsAre
<1> HIDE DEF f, known, added, m
<1>7. /\ all \in Layouts /\ Len(all) = Len(known) + Len(added) /\ Len(known) \in Nat /\ Len(added) \in Nat
      /\ \A n \in 1..Len(known) : all[n] = known[n]
      /\ \A n \in (Len(known) + 1)..(Len(known) + Len(added)) : all[n] = added[n - Len(known)]
  BY <1>1, <1>2, ConcatProperties DEF Layouts
<1>8. OnceEach(all) /\ IdsOf(all) = IdsOf(known) \cup IdsOf(added)
  BY <1>1, <1>2, JoinIds DEF Layouts
<1>9. \A i \in DOMAIN known : known[i] \in SectionRecords /\ known[i].id \in SectionIds
  BY <1>1, SectionIs
<1>10. IdsOf(all) = SectionIds
  <2>1. IdsOf(known) \subseteq SectionIds
    BY <1>9 DEF IdsOf
  <2> QED BY <2>1, <1>2, <1>8
<1>11. DOMAIN all = 1..(Len(known) + Len(added)) /\ DOMAIN known = 1..Len(known) /\ DOMAIN added = 1..Len(added)
  BY <1>1, <1>2, <1>7 DEF Layouts
<1> HIDE DEF all
<1>12. ASSUME NEW i \in DOMAIN all
       PROVE  \/ i \in DOMAIN known /\ all[i] = known[i]
              \/ i \notin DOMAIN known /\ IdsOf(all[i].panels) = {} /\ OnceEach(all[i].panels)
  <2>1. CASE i <= Len(known)
    BY <1>7, <1>11, <2>1
  <2>2. CASE i > Len(known)
    <3>1. i - Len(known) \in DOMAIN added /\ all[i] = added[i - Len(known)] /\ i \notin DOMAIN known
      BY <1>7, <1>11, <2>2
    <3> QED BY <1>2, <3>1
  <2> QED BY <1>7, <1>11, <2>1, <2>2
<1>13. \A i \in DOMAIN all : OnceEach(all[i].panels)
  BY <1>1, <1>12 DEF OnePlace
<1>14. \A i, k \in DOMAIN all : i # k => IdsOf(all[i].panels) \cap IdsOf(all[k].panels) = {}
  <2> SUFFICES ASSUME NEW i \in DOMAIN all, NEW k \in DOMAIN all, i # k
               PROVE  IdsOf(all[i].panels) \cap IdsOf(all[k].panels) = {}
    OBVIOUS
  <2>1. CASE i \in DOMAIN known /\ k \in DOMAIN known
    BY <1>1, <1>12, <2>1 DEF OnePlace
  <2>2. CASE i \notin DOMAIN known \/ k \notin DOMAIN known
    BY <1>12, <2>2
  <2> QED BY <2>1, <2>2
<1>15. \A x : (\E i \in DOMAIN all : x \in IdsOf(all[i].panels)) <=> x \in AllPanels(known)
  <2>1. ASSUME NEW x, NEW i \in DOMAIN all, x \in IdsOf(all[i].panels) PROVE x \in AllPanels(known)
    BY <1>12, <2>1 DEF AllPanels
  <2>2. ASSUME NEW x, x \in AllPanels(known) PROVE \E i \in DOMAIN all : x \in IdsOf(all[i].panels)
    <3>1. PICK i \in DOMAIN known : x \in IdsOf(known[i].panels)
      BY <2>2 DEF AllPanels
    <3>2. i \in DOMAIN all /\ all[i] = known[i]
      BY <1>7, <1>11
    <3> QED BY <3>1, <3>2
  <2> QED BY <2>1, <2>2
<1>16. ASSUME NEW i \in DOMAIN all
       PROVE  home(i) \in DOMAIN f /\ f[home(i)].id = all[i].id
  <2>1. all[i].id \in SectionIds
    BY <1>10 DEF IdsOf
  <2>2. \E n \in DOMAIN f : f[n].id = all[i].id
    BY <1>3, <2>1 DEF Complete, IdsOf
  <2> QED BY <2>2
<1> HIDE DEF home
<1>17. ASSUME NEW i \in DOMAIN all
       PROVE  own(i) \in Seq(PanelRecords) /\ OnceEach(own(i)) /\ IdsOf(own(i)) = IdsOf(f[home(i)].panels) \ AllPanels(known)
  BY <1>6, <1>16
<1> HIDE DEF own
<1>18. ASSUME NEW i \in DOMAIN all
       PROVE  /\ q[i] \in Seq(PanelRecords) /\ OnceEach(q[i]) /\ IdsOf(q[i]) = IdsOf(all[i].panels) \cup IdsOf(own(i))
  <2>1. all[i].panels \in Seq(PanelRecords)
    <3>1. all[i] \in SectionRecords
      BY <1>7 DEF Layouts
    <3> QED BY <3>1 DEF SectionRecords
  <2>2. IdsOf(all[i].panels) \cap IdsOf(own(i)) = {}
    BY <1>15, <1>17
  <2>3. OnceEach(all[i].panels \o own(i)) /\ IdsOf(all[i].panels \o own(i)) = IdsOf(all[i].panels) \cup IdsOf(own(i))
    BY <1>13, <1>17, <2>1, <2>2, JoinIds
  <2>4. all[i].panels \o own(i) \in Seq(PanelRecords)
    BY <1>17, <2>1
  <2> QED BY <2>3, <2>4
<1>19. q \in [DOMAIN all -> Seq(PanelRecords)]
  BY <1>18
<1> HIDE DEF q
<1>20. /\ m \in Layouts /\ DOMAIN m = DOMAIN all
       /\ \A i \in DOMAIN all : m[i].id = all[i].id /\ m[i].panels = q[i]
  BY <1>4, <1>7, <1>19, RefilledIs
<1>21. OnceEach(m) /\ IdsOf(m) = SectionIds
  BY <1>8, <1>10, <1>20 DEF OnceEach, IdsOf
<1>22. OnePlace(m)
  <2>1. \A i \in DOMAIN m : OnceEach(m[i].panels)
    BY <1>18, <1>20
  <2>2. ASSUME NEW i \in DOMAIN all, NEW k \in DOMAIN all, i # k, NEW x \in IdsOf(q[i]), x \in IdsOf(q[k])
        PROVE  FALSE
    <3>1. home(i) # home(k)
      BY <1>8, <1>16, <2>2 DEF OnceEach
    <3>2. IdsOf(f[home(i)].panels) \cap IdsOf(f[home(k)].panels) = {}
      BY <1>3, <1>16, <3>1 DEF Complete, OnePlace
    <3>3. x \in IdsOf(own(i)) => x \notin IdsOf(own(k))
      BY <1>17, <3>2
    <3>4. x \in IdsOf(all[i].panels) => x \notin IdsOf(all[k].panels) /\ x \notin IdsOf(own(k))
      BY <1>14, <1>15, <1>17, <2>2
    <3>5. x \in IdsOf(all[k].panels) => x \notin IdsOf(own(i))
      BY <1>15, <1>17
    <3> QED BY <1>18, <2>2, <3>3, <3>4, <3>5
  <2> QED BY <1>20, <2>1, <2>2 DEF OnePlace
<1>23. ASSUME NEW x PROVE x \in AllPanels(m) <=> x \in PanelIds
  <2>1. ASSUME x \in AllPanels(m) PROVE x \in PanelIds
    <3>1. PICK i \in DOMAIN all : x \in IdsOf(q[i])
      BY <1>20, <2>1 DEF AllPanels
    <3>2. x \in AllPanels(known) \/ x \in IdsOf(f[home(i)].panels)
      BY <1>15, <1>17, <1>18, <3>1
    <3>3. x \in IdsOf(f[home(i)].panels) => x \in PanelIds
      BY <1>3, <1>16 DEF Complete, AllPanels
    <3> QED BY <1>1, <3>2, <3>3
  <2>2. ASSUME x \in PanelIds PROVE \E i \in DOMAIN all : x \in IdsOf(q[i])
    <3>1. CASE x \in AllPanels(known)
      BY <1>15, <1>18, <3>1
    <3>2. CASE x \notin AllPanels(known)
      <4>1. PICK n \in DOMAIN f : x \in IdsOf(f[n].panels)
        BY <1>3, <2>2 DEF Complete, AllPanels
      <4>2. PICK i \in DOMAIN all : all[i].id = f[n].id
        BY <1>5, <1>10 DEF IdsOf
      <4>3. home(i) = n
        BY <1>3, <1>16, <4>2 DEF Complete, OnceEach
      <4> QED BY <1>17, <1>18, <3>2, <4>1, <4>3
    <3> QED BY <3>1, <3>2
  <2> QED BY <1>20, <2>1, <2>2 DEF AllPanels
<1> QED BY <1>20, <1>21, <1>22, <1>23 DEF Complete, m

\* and a complete layout is read back as it was stored
LEMMA SanitizeKeeps ==
    ASSUME NEW l \in Layouts, Complete(l)
    PROVE  Sanitize(l) = l
<1>1. \A i \in DOMAIN l : l[i] \in SectionRecords /\ l[i].id \in SectionIds /\ l[i].panels \in Seq(PanelRecords)
  BY SectionIs
<1>2. {i \in DOMAIN l : l[i].id \in SectionIds} = DOMAIN l
  BY <1>1
<1>3. KnownSecs(l) = l
  BY <1>2, PickedAll DEF KnownSecs, Layouts
<1>4. ASSUME NEW i \in DOMAIN l PROVE KeptPanels(l, i) = l[i].panels
  <2> DEFINE ps == l[i].panels
  <2>1. ps \in Seq(PanelRecords) /\ \A j \in DOMAIN ps : ps[j] \in PanelRecords
    BY <1>1
  <2>2. \A j \in DOMAIN ps : FirstHere(l, i, j)
    <3> SUFFICES ASSUME NEW j \in DOMAIN ps PROVE FirstHere(l, i, j)
      OBVIOUS
    <3>1. ps[j].id \in PanelIds
      BY <2>1 DEF PanelRecords
    <3>2. OnceEach(ps) /\ DOMAIN ps = 1..Len(ps) /\ Len(ps) \in Nat
      BY <2>1 DEF Complete, OnePlace
    <3>3. \A k \in 1..(j - 1) : ps[k].id # ps[j].id
      BY <3>2 DEF OnceEach
    <3>4. ps[j].id \in IdsOf(ps)
      BY DEF IdsOf
    <3>5. DOMAIN l = 1..Len(l) /\ Len(l) \in Nat
      BY DEF Layouts
    <3>6. \A k \in 1..(i - 1) : k \in DOMAIN l /\ k # i
      BY <3>5
    <3>7. \A k \in 1..(i - 1) : ps[j].id \notin IdsOf(l[k].panels)
      BY <3>4, <3>6 DEF Complete, OnePlace
    <3> QED BY <3>1, <3>3, <3>7 DEF FirstHere
  <2>3. \A j \in DOMAIN ps : [ps[j] EXCEPT !.span = StoredSpan(ps[j].span)] = ps[j]
    <3> SUFFICES ASSUME NEW j \in DOMAIN ps PROVE [ps[j] EXCEPT !.span = StoredSpan(ps[j].span)] = ps[j]
      OBVIOUS
    <3>1. ps[j] \in PanelRecords /\ ps[j].span \in 2..12
      BY <2>1 DEF PanelRecords
    <3>2. StoredSpan(ps[j].span) = ps[j].span
      BY <3>1, StoredIs
    <3> QED BY <3>1, <3>2 DEF PanelRecords
  <2>4. [j \in DOMAIN ps |-> [ps[j] EXCEPT !.span = StoredSpan(@)]] = ps
    <3> DEFINE qs == [j \in DOMAIN ps |-> [ps[j] EXCEPT !.span = StoredSpan(@)]]
    <3>1. qs = [j \in DOMAIN ps |-> qs[j]] /\ \A j \in DOMAIN ps : qs[j] = ps[j]
      BY <2>3
    <3> HIDE DEF qs
    <3>2. qs = ps
      BY <2>1, <3>1, SeqSame
    <3> QED BY <3>2 DEF qs
  <2>5. {j \in DOMAIN ps : FirstHere(l, i, j)} = DOMAIN ps
    BY <2>2
  <2>6. KeptPanels(l, i) = Picked(ps, DOMAIN ps)
    BY <2>4, <2>5 DEF KeptPanels
  <2> QED BY <2>1, <2>6, PickedAll
<1>5. KeptSecs(l) = l
  <2>1. KeptSecs(l) = [i \in DOMAIN l |-> [l[i] EXCEPT !.panels = KeptPanels(l, i)]]
    BY <1>3 DEF KeptSecs
  <2>2. \A i \in DOMAIN l : [l[i] EXCEPT !.panels = KeptPanels(l, i)] = l[i]
    BY <1>1, <1>4 DEF SectionRecords
  <2> QED BY <2>1, <2>2 DEF Layouts
<1>6. AddedSecs(l) = <<>>
  <2> DEFINE m == AddedSecs(l)
  <2>1. m \in Layouts /\ IdsOf(m) = SectionIds \ IdsOf(l)
    BY AddedSecsAre
  <2>2. IdsOf(m) = {}
    BY <2>1 DEF Complete
  <2> HIDE DEF m
  <2>3. DOMAIN m = {}
    BY <2>2 DEF IdsOf
  <2>4. m \in Seq(SectionRecords) /\ Len(m) = 0
    BY <2>1, <2>3 DEF Layouts
  <2>5. m = <<>>
    BY <2>4, EmptySeq
  <2> QED BY <2>5 DEF m
<1>7. l \o <<>> = l
  BY DEF Layouts
<1>8. ASSUME NEW i \in DOMAIN l PROVE AddedPanels(l, l[i].id) = <<>>
  <2> DEFINE f == FreshLayout n == CHOOSE k \in DOMAIN f : f[k].id = l[i].id
  <2>1. n \in DOMAIN f
    <3>1. \E k \in DOMAIN f : f[k].id = l[i].id
      BY <1>1, FreshIs DEF Complete, IdsOf
    <3> QED BY <3>1
  <2>2. \A j \in DOMAIN f[n].panels : f[n].panels[j].id \in AllPanels(l)
    <3>1. f[n].panels \in Seq(PanelRecords)
      BY <2>1, FreshIs, SectionIs
    <3>2. \A j \in DOMAIN f[n].panels : f[n].panels[j] \in PanelRecords
      BY <3>1
    <3> QED BY <3>2 DEF PanelRecords, Complete
  <2>3. {j \in DOMAIN f[n].panels : f[n].panels[j].id \notin AllPanels(l)} = {}
    BY <2>2
  <2> QED BY <2>3, PickedNone DEF AddedPanels
<1>9. Sanitize(l) = [i \in DOMAIN l |-> [l[i] EXCEPT !.panels = @ \o AddedPanels(l, l[i].id)]]
  BY <1>5, <1>6, <1>7 DEF Sanitize
<1>10. \A i \in DOMAIN l : [l[i] EXCEPT !.panels = @ \o AddedPanels(l, l[i].id)] = l[i]
  <2> SUFFICES ASSUME NEW i \in DOMAIN l PROVE [l[i] EXCEPT !.panels = l[i].panels \o AddedPanels(l, l[i].id)] = l[i]
    OBVIOUS
  <2>1. l[i].panels \o <<>> = l[i].panels
    BY <1>1
  <2>2. l[i].panels \o AddedPanels(l, l[i].id) = l[i].panels
    BY <1>8, <2>1
  <2> QED BY <1>1, <2>2 DEF SectionRecords
<1> DEFINE m == Sanitize(l)
<1>11. m = [i \in DOMAIN l |-> m[i]] /\ \A i \in DOMAIN l : m[i] = l[i]
  BY <1>9, <1>10
<1> HIDE DEF m
<1>12. m = l
  BY <1>11, SeqSame DEF Layouts
<1> QED BY <1>12 DEF m

(* What the board shows and stores ----------------------------------------- *)

\* a layout of this version is one that an older could have stored
LEMMA LayoutsOlder == ASSUME NEW l \in Layouts PROVE l \in OlderLayouts
<1>1. PanelRecords \subseteq OlderPanels
  BY DEF PanelRecords, OlderPanels
<1>2. ASSUME NEW S, NEW T, S \subseteq T, NEW s \in Seq(S) PROVE s \in Seq(T)
  <2>1. s = [i \in 1..Len(s) |-> s[i]] /\ Len(s) \in Nat /\ \A i \in 1..Len(s) : s[i] \in T
    BY <1>2
  <2> QED BY <2>1, SeqBuilt
<1>3. Seq(PanelRecords) \subseteq Seq(OlderPanels)
  BY <1>1, <1>2
<1>4. SectionRecords \subseteq OlderSections
  BY <1>3 DEF SectionRecords, OlderSections
<1> QED BY <1>2, <1>4 DEF Layouts, OlderLayouts

\* the ids of the list that are in the set, in their order
LEMMA AmongIs ==
    ASSUME NEW T, NEW ids \in Seq(T), IsInjective(ids), NEW S
    PROVE  /\ Among(ids, S) \in Seq(T) /\ Among(ids, S) \in Seq(T \cap S) /\ IsInjective(Among(ids, S))
           /\ (\A n \in DOMAIN ids : ids[n] \in S) => Among(ids, S) = ids
<1> DEFINE P == {n \in DOMAIN ids : ids[n] \in S} t == Picked(ids, P) nth(n) == Nth(P, n)
<1>1. P \in SUBSET DOMAIN ids /\ t = Among(ids, S)
  BY DEF Among
<1>2. /\ t \in Seq(T) /\ DOMAIN t = 1..Len(t)
      /\ \A n \in DOMAIN t : nth(n) \in P /\ t[n] = ids[nth(n)]
      /\ \A n, m \in DOMAIN t : n < m => nth(n) < nth(m)
  BY <1>1, PickedIs
<1>3. \A n \in P : n \in Nat /\ ids[n] \in S /\ n \in DOMAIN ids
  OBVIOUS
<1>4. (\A n \in DOMAIN ids : ids[n] \in S) => P = DOMAIN ids
  OBVIOUS
<1>5. (\A n \in DOMAIN ids : ids[n] \in S) => t = ids
  BY <1>4, PickedAll
<1> HIDE DEF P, t, nth
<1>6. \A n \in 1..Len(t) : t[n] \in T \cap S
  BY <1>2, <1>3
<1>7. t = [n \in 1..Len(t) |-> t[n]] /\ Len(t) \in Nat
  BY <1>2
<1>8. t \in Seq(T \cap S)
  BY <1>6, <1>7, SeqBuilt
<1>9. \A n, m \in DOMAIN t : n < m => t[n] # t[m]
  BY <1>2, <1>3 DEF IsInjective
<1>10. IsInjective(t)
  BY <1>2, <1>9 DEF IsInjective
<1> QED BY <1>1, <1>2, <1>5, <1>8, <1>10

\* what is shown and stored: everything once
Whole(u) == u \in Uis /\ Complete(u.layout) /\ IsInjective(u.hidden)

LEMMA FreshWhole == Whole(FreshUi)
<1>1. <<>> \in Seq(PanelIds) /\ IsInjective(<<>>)
  BY DEF IsInjective
<1>2. FreshUi \in Uis
  BY <1>1, FreshIs, LayoutDefaults DEF FreshUi, Uis, UisOf
<1> QED BY <1>1, <1>2, FreshIs DEF FreshUi, Whole

LEMMA WholeWith ==
    ASSUME NEW u, Whole(u), NEW l \in Layouts, Complete(l), NEW hidden \in Seq(PanelIds), IsInjective(hidden),
           NEW cols \in SUBSET (PanelIds \cup OtherIds), NEW density \in {"compact", "comfortable"}, NEW mini \in BOOLEAN
    PROVE  /\ Whole([u EXCEPT !.layout = l]) /\ Whole([u EXCEPT !.hidden = hidden]) /\ Whole([u EXCEPT !.hiddenCols = cols])
           /\ Whole([u EXCEPT !.density = density]) /\ Whole([u EXCEPT !.railMini = mini])
           /\ Whole([u EXCEPT !.layout = l, !.hidden = hidden, !.hiddenCols = cols])
           /\ Whole([FreshUi EXCEPT !.density = density, !.railMini = mini])
<1>1. u \in Uis /\ Complete(u.layout) /\ IsInjective(u.hidden)
  BY DEF Whole
<1>2. FreshUi \in Uis /\ Complete(FreshUi.layout) /\ IsInjective(FreshUi.hidden)
  BY FreshWhole DEF Whole
<1>3. Whole([u EXCEPT !.layout = l])
  BY <1>1 DEF Whole, Uis, UisOf
<1>4. Whole([u EXCEPT !.hidden = hidden])
  BY <1>1 DEF Whole, Uis, UisOf
<1>5. Whole([u EXCEPT !.hiddenCols = cols])
  BY <1>1 DEF Whole, Uis, UisOf
<1>6. Whole([u EXCEPT !.density = density])
  BY <1>1 DEF Whole, Uis, UisOf
<1>7. Whole([u EXCEPT !.railMini = mini])
  BY <1>1 DEF Whole, Uis, UisOf
<1>8. Whole([u EXCEPT !.layout = l, !.hidden = hidden, !.hiddenCols = cols])
  BY <1>1 DEF Whole, Uis, UisOf
<1>9. Whole([FreshUi EXCEPT !.density = density, !.railMini = mini])
  BY <1>2 DEF Whole, Uis, UisOf
<1> QED BY <1>3, <1>4, <1>5, <1>6, <1>7, <1>8, <1>9

\* whatever was stored, the page loaded shows everything once, and what this version stored it
\* shows as it was
LEMMA LoadedWhole == ASSUME NEW u \in OlderUis \cup {NoUi} PROVE Whole(LoadUi(u))
<1>1. CASE u = NoUi
  BY <1>1, FreshWhole DEF LoadUi
<1>2. CASE u # NoUi
  <2>1. /\ u \in UisOf(OlderLayouts, PanelIds \cup OtherIds) /\ OnceEach(u.layout) /\ IsInjective(u.hidden)
    BY <1>2, LayoutsStored
  <2>2. u.layout \in OlderLayouts /\ u.hidden \in Seq(PanelIds \cup OtherIds)
    BY <2>1 DEF UisOf
  <2> DEFINE l == Sanitize(u.layout) h == Among(u.hidden, PanelIds)
  <2>3. l \in Layouts /\ Complete(l)
    BY <2>1, <2>2, SanitizeCompletes
  <2>4. h \in Seq((PanelIds \cup OtherIds) \cap PanelIds) /\ IsInjective(h)
    BY <2>1, <2>2, AmongIs
  <2>5. (PanelIds \cup OtherIds) \cap PanelIds = PanelIds
    OBVIOUS
  <2>6. h \in Seq(PanelIds)
    BY <2>4, <2>5
  <2>7. LoadUi(u) = [u EXCEPT !.layout = l, !.hidden = h]
    BY <1>2 DEF LoadUi
  <2> HIDE DEF l, h
  <2>8. [u EXCEPT !.layout = l, !.hidden = h] \in Uis
    BY <2>1, <2>3, <2>6 DEF Uis, UisOf
  <2> QED BY <2>1, <2>3, <2>4, <2>7, <2>8 DEF Whole, UisOf
<1> QED BY <1>1, <1>2

LEMMA LoadedSame == ASSUME NEW u, Whole(u) PROVE LoadUi(u) = u
<1>1. u \in Uis /\ Complete(u.layout) /\ IsInjective(u.hidden) /\ u # NoUi
  BY LayoutsStored DEF Whole
<1>2. u.layout \in Layouts /\ u.hidden \in Seq(PanelIds)
  BY <1>1 DEF Uis, UisOf
<1>3. Sanitize(u.layout) = u.layout
  BY <1>1, <1>2, SanitizeKeeps
<1>4. \A n \in DOMAIN u.hidden : u.hidden[n] \in PanelIds
  BY <1>2
<1>5. Among(u.hidden, PanelIds) = u.hidden
  BY <1>1, <1>2, <1>4, AmongIs
<1>6. LoadUi(u) = [u EXCEPT !.layout = u.layout, !.hidden = u.hidden]
  BY <1>1, <1>3, <1>5 DEF LoadUi
<1> QED BY <1>1, <1>6 DEF Uis, UisOf

(* The invariant of the board's arrangement --------------------------------- *)

Offers == [show : SUBSET PanelIds]
              \cup [layout : {l \in Layouts : Complete(l)}, hidden : {h \in Seq(PanelIds) : IsInjective(h)},
                    hiddenCols : SUBSET (PanelIds \cup OtherIds)]
UiInv ==
    /\ Whole(ui) /\ saving \in BOOLEAN
    /\ keptUi \in OlderUis \cup {NoUi} \/ Whole(keptUi)
    /\ ~saving => keptUi = ui
HandInv ==
    /\ offer \in Offers \cup {NoUi} /\ edits \in 0..MaxEdits
    /\ dragged \in PanelIds \cup {NoUi} /\ over \in [id : PanelIds, after : BOOLEAN] \cup {NoUi}
LayoutInv == UiInv /\ HandInv

LEMMA WholeIs ==
    ASSUME NEW u, Whole(u)
    PROVE  /\ u.layout \in Layouts /\ Complete(u.layout) /\ u.hidden \in Seq(PanelIds) /\ IsInjective(u.hidden)
           /\ u.hiddenCols \in SUBSET (PanelIds \cup OtherIds)
           /\ u.density \in {"compact", "comfortable"} /\ u.railMini \in BOOLEAN
BY DEF Whole, Uis, UisOf

\* what is shown next is whole, and the timer runs again when it is something else
LEMMA SetUiKeeps ==
    ASSUME UiInv, NEW u, Whole(u), SetUi(u), keptUi' = keptUi
    PROVE  UiInv'
<1>1. ui' = u /\ saving' = (saving \/ u # ui)
  BY DEF SetUi
<1>2. saving \in BOOLEAN /\ (~saving => keptUi = ui)
  BY DEF UiInv
<1>3. Whole(ui)' /\ (keptUi \in OlderUis \cup {NoUi} \/ Whole(keptUi))'
  BY <1>1 DEF UiInv, Whole
<1>4. saving' \in BOOLEAN /\ (~saving' => keptUi' = ui')
  BY <1>1, <1>2
<1> QED BY <1>3, <1>4 DEF UiInv

LEMMA SetLayoutKeeps ==
    ASSUME UiInv, NEW l \in Layouts, Complete(l), SetLayout(l), keptUi' = keptUi
    PROVE  UiInv'
<1>1. Whole(ui)
  BY DEF UiInv
<1>2. Whole([ui EXCEPT !.layout = l])
  BY <1>1, WholeIs, WholeWith
<1> QED BY <1>2, SetUiKeeps DEF SetLayout

LEMMA EditKeeps ==
    ASSUME HandInv, Edit, UNCHANGED <<dragged, over, offer>>
    PROVE  HandInv'
<1>1. edits \in 0..MaxEdits /\ MaxEdits \in Nat /\ edits < MaxEdits /\ edits' = edits + 1
  BY LayoutBounds DEF HandInv, Edit
<1>2. edits' \in 0..MaxEdits
  BY <1>1
<1> QED BY <1>2 DEF HandInv

LEMMA EditCounts ==
    ASSUME HandInv, Edit
    PROVE  edits' \in 0..MaxEdits
<1>1. edits \in 0..MaxEdits /\ MaxEdits \in Nat /\ edits < MaxEdits /\ edits' = edits + 1
  BY LayoutBounds DEF HandInv, Edit
<1> QED BY <1>1

LEMMA QuietKeeps ==
    ASSUME LayoutInv, Edit, Quiet, NEW l \in Layouts, Complete(l), SetLayout(l)
    PROVE  LayoutInv'
<1>1. UNCHANGED <<keptUi, dragged, over, offer>>
  BY DEF Quiet
<1>2. UiInv'
  BY <1>1, SetLayoutKeeps DEF LayoutInv
<1>3. HandInv'
  BY <1>1, EditKeeps DEF LayoutInv
<1> QED BY <1>2, <1>3 DEF LayoutInv

LEMMA LayoutNow ==
    ASSUME LayoutInv
    PROVE  Whole(ui) /\ ui.layout \in Layouts /\ Complete(ui.layout)
BY WholeIs DEF LayoutInv, UiInv

\* what is shown, with the panels shown again
LEMMA ShownWhole == ASSUME NEW ids, Whole(ui) PROVE Whole(Shown(ids))
<1> DEFINE h == Among(ui.hidden, PanelIds \ ids)
<1>1. ui.hidden \in Seq(PanelIds) /\ IsInjective(ui.hidden)
  BY WholeIs
<1>2. h \in Seq(PanelIds) /\ IsInjective(h)
  BY <1>1, AmongIs
<1>4. Shown(ids) = [ui EXCEPT !.hidden = h]
  BY DEF Shown
<1> HIDE DEF h
<1>5. Whole([ui EXCEPT !.hidden = h])
  BY <1>2, WholeIs, WholeWith
<1> QED BY <1>4, <1>5

LEMMA PatchOpens ==
    ASSUME NEW l \in Layouts, Complete(l), NEW id, NEW open \in BOOLEAN
    PROVE  UpdatePanel(l, id, [open |-> open]) \in Layouts /\ Complete(UpdatePanel(l, id, [open |-> open]))
<1> DEFINE patch == [open |-> open]
<1>1. 2 \in 2..12 /\ AutoHeight \in Heights
  BY DEF Heights
<1>2. \A p \in PanelRecords : Patched(p, patch) \in PanelRecords /\ Patched(p, patch).id = p.id
  BY <1>1, PatchTyped
<1> HIDE DEF patch
<1>3. UpdatePanel(l, id, patch) \in Layouts /\ Complete(UpdatePanel(l, id, patch))
  BY <1>2, UpdateKeeps
<1> QED BY <1>3 DEF patch

LEMMA PatchSpans ==
    ASSUME NEW l \in Layouts, Complete(l), NEW id, NEW span \in 2..12
    PROVE  UpdatePanel(l, id, [span |-> span]) \in Layouts /\ Complete(UpdatePanel(l, id, [span |-> span]))
<1> DEFINE patch == [span |-> span]
<1>1. TRUE \in BOOLEAN /\ AutoHeight \in Heights
  BY DEF Heights
<1>2. \A p \in PanelRecords : Patched(p, patch) \in PanelRecords /\ Patched(p, patch).id = p.id
  BY <1>1, PatchTyped
<1> HIDE DEF patch
<1>3. UpdatePanel(l, id, patch) \in Layouts /\ Complete(UpdatePanel(l, id, patch))
  BY <1>2, UpdateKeeps
<1> QED BY <1>3 DEF patch

LEMMA PatchGrows ==
    ASSUME NEW l \in Layouts, Complete(l), NEW id, NEW h \in Heights
    PROVE  UpdatePanel(l, id, [h |-> h]) \in Layouts /\ Complete(UpdatePanel(l, id, [h |-> h]))
<1> DEFINE patch == [h |-> h]
<1>1. TRUE \in BOOLEAN /\ 2 \in 2..12
  OBVIOUS
<1>2. \A p \in PanelRecords : Patched(p, patch) \in PanelRecords /\ Patched(p, patch).id = p.id
  BY <1>1, PatchTyped
<1> HIDE DEF patch
<1>3. UpdatePanel(l, id, patch) \in Layouts /\ Complete(UpdatePanel(l, id, patch))
  BY <1>2, UpdateKeeps
<1> QED BY <1>3 DEF patch

LEMMA PatchResizes ==
    ASSUME NEW l \in Layouts, Complete(l), NEW id, NEW span \in 2..12, NEW h \in Heights
    PROVE  /\ UpdatePanel(l, id, [span |-> span, h |-> h]) \in Layouts
           /\ Complete(UpdatePanel(l, id, [span |-> span, h |-> h]))
<1> DEFINE patch == [span |-> span, h |-> h]
<1>1. TRUE \in BOOLEAN
  OBVIOUS
<1>2. \A p \in PanelRecords : Patched(p, patch) \in PanelRecords /\ Patched(p, patch).id = p.id
  BY <1>1, PatchTyped
<1> HIDE DEF patch
<1>3. UpdatePanel(l, id, patch) \in Layouts /\ Complete(UpdatePanel(l, id, patch))
  BY <1>2, UpdateKeeps
<1> QED BY <1>3 DEF patch

\* a panel's own height and width
LEMMA PanelIs ==
    ASSUME LayoutInv, NEW id \in PanelIds
    PROVE  /\ PanelOf(ui.layout, id).open \in BOOLEAN /\ PanelOf(ui.layout, id).span \in 2..12
           /\ PanelOf(ui.layout, id).h \in Heights
<1>1. PanelOf(ui.layout, id) \in PanelRecords
  BY LayoutNow, PanelFound
<1> QED BY <1>1 DEF PanelRecords

LEMMA SetOpenKeeps == ASSUME LayoutInv, NEW secs, NEW open \in BOOLEAN, SetOpen(secs, open) PROVE LayoutInv'
<1> DEFINE m == [i \in DOMAIN ui.layout |->
                    IF ui.layout[i].id \in secs THEN [ui.layout[i] EXCEPT !.open = open] ELSE ui.layout[i]]
<1>1. m \in Layouts /\ Complete(m)
  BY LayoutNow, OpenKeeps
<1>2. Edit /\ Quiet /\ SetLayout(m)
  BY DEF SetOpen
<1> HIDE DEF m
<1> QED BY <1>1, <1>2, QuietKeeps

LEMMA MoveSectionKeeps ==
    ASSUME LayoutInv, NEW sec \in SectionIds, NEW dir \in 0..1, MoveSectionBy(sec, dir)
    PROVE  LayoutInv'
<1>1. MoveSection(ui.layout, sec, dir) \in Layouts /\ Complete(MoveSection(ui.layout, sec, dir))
  BY LayoutNow, SectionMoves
<1> QED BY <1>1, QuietKeeps DEF MoveSectionBy

LEMMA ToggleFoldKeeps == ASSUME LayoutInv, NEW id \in PanelIds, ToggleFold(id) PROVE LayoutInv'
<1> DEFINE open == ~PanelOf(ui.layout, id).open m == UpdatePanel(ui.layout, id, [open |-> open])
<1>1. open \in BOOLEAN
  BY PanelIs
<1>2. Edit /\ Quiet /\ SetLayout(m)
  BY DEF ToggleFold
<1> HIDE DEF open
<1>3. m \in Layouts /\ Complete(m)
  BY <1>1, LayoutNow, PatchOpens
<1> HIDE DEF m
<1> QED BY <1>2, <1>3, QuietKeeps

LEMMA SetSpanKeeps == ASSUME LayoutInv, NEW id \in PanelIds, NEW w \in Widths, SetSpan(id, w) PROVE LayoutInv'
<1> DEFINE m == UpdatePanel(ui.layout, id, [span |-> w])
<1>1. w \in 2..12
  BY LayoutDefaults
<1>2. Edit /\ Quiet /\ SetLayout(m)
  BY DEF SetSpan
<1>3. m \in Layouts /\ Complete(m)
  BY <1>1, LayoutNow, PatchSpans
<1> HIDE DEF m
<1> QED BY <1>2, <1>3, QuietKeeps

\* the larger of two numbers
LEMMA LargerIs == ASSUME NEW a \in Int, NEW b \in Int PROVE Max({a, b}) = IF a >= b THEN a ELSE b
<1> DEFINE S == {a, b} m == IF a >= b THEN a ELSE b
<1>1. m \in S /\ \A y \in S : m >= y
  OBVIOUS
<1>2. \A x \in S : (\A y \in S : x >= y) => x = m
  OBVIOUS
<1> HIDE DEF S, m
<1>3. (CHOOSE x \in S : \A y \in S : x >= y) = m
  BY <1>1, <1>2
<1>4. Max(S) = m
  BY <1>3 DEF Max
<1> QED BY <1>4 DEF S, m

LEMMA GrowKeeps == ASSUME LayoutInv, NEW id \in PanelIds, NEW taller \in BOOLEAN, GrowBy(id, taller) PROVE LayoutInv'
<1>1. MinHeight \in Nat /\ MaxHeight \in Nat
  BY LayoutBounds
<1> DEFINE now(shows) == IF PanelOf(ui.layout, id).h = AutoHeight THEN shows ELSE PanelOf(ui.layout, id).h
           next(shows) == IF taller THEN now(shows) + 1 ELSE Max({MinHeight, now(shows) - 1})
<1>2. PICK shows \in MinHeight..MaxHeight :
        next(shows) <= MaxHeight /\ SetLayout(UpdatePanel(ui.layout, id, [h |-> next(shows)]))
  BY DEF GrowBy
<1>3. now(shows) \in MinHeight..MaxHeight
  BY PanelIs DEF Heights
<1> DEFINE low == now(shows) - 1
<1>4. low \in Int /\ MinHeight \in Int
  BY <1>1, <1>3
<1>5. Max({MinHeight, low}) = IF MinHeight >= low THEN MinHeight ELSE low
  BY <1>4, LargerIs
<1>6. next(shows) \in MinHeight..MaxHeight
  BY <1>1, <1>2, <1>3, <1>5
<1> DEFINE h == next(shows) m == UpdatePanel(ui.layout, id, [h |-> h])
<1>7. h \in Heights
  BY <1>6 DEF Heights
<1>8. Edit /\ Quiet /\ SetLayout(m)
  BY <1>2 DEF GrowBy
<1> HIDE DEF h
<1>9. m \in Layouts /\ Complete(m)
  BY <1>7, LayoutNow, PatchGrows
<1> HIDE DEF m
<1> QED BY <1>8, <1>9, QuietKeeps

LEMMA ResizeKeeps == ASSUME LayoutInv, NEW id \in PanelIds, Resize(id) PROVE LayoutInv'
<1> DEFINE was == PanelOf(ui.layout, id).span
           wide(d, wider) == IF wider THEN Clamp(was + d) ELSE IF d > was THEN 2 ELSE Clamp(was - d)
<1>1. PICK d \in Pulls, wider \in BOOLEAN, h \in MinHeight..MaxHeight \cup {PanelOf(ui.layout, id).h} :
        SetLayout(UpdatePanel(ui.layout, id, [span |-> wide(d, wider), h |-> h]))
  BY DEF Resize
<1>2. d \in Nat /\ was \in 2..12 /\ h \in Heights
  BY LayoutBounds, PanelIs DEF Heights
<1>3. was + d \in Nat /\ (d <= was => was - d \in Nat)
  BY <1>2
<1>4. Clamp(was + d) \in 2..12 /\ (d <= was => Clamp(was - d) \in 2..12)
  BY <1>3, ClampIs
<1>5. wide(d, wider) \in 2..12
  BY <1>2, <1>4
<1> DEFINE w == wide(d, wider) m == UpdatePanel(ui.layout, id, [span |-> w, h |-> h])
<1>6. Edit /\ Quiet /\ SetLayout(m)
  BY <1>1 DEF Resize
<1>7. w \in 2..12
  BY <1>5
<1> HIDE DEF w
<1>8. m \in Layouts /\ Complete(m)
  BY <1>2, <1>7, LayoutNow, PatchResizes
<1> HIDE DEF m
<1> QED BY <1>6, <1>8, QuietKeeps

LEMMA StepAction == ASSUME LayoutInv, NEW id \in PanelIds, NEW dir \in 0..1, Step(id, dir) PROVE LayoutInv'
<1>1. StepPanel(ui.layout, id, dir) \in Layouts /\ Complete(StepPanel(ui.layout, id, dir))
  BY LayoutNow, StepKeeps
<1> QED BY <1>1, QuietKeeps DEF Step

LEMMA MoveToSectionKeeps ==
    ASSUME LayoutInv, NEW id \in PanelIds, NEW sec \in SectionIds, MoveToSection(id, sec)
    PROVE  LayoutInv'
<1>1. MoveToEnd(ui.layout, id, sec) \in Layouts /\ Complete(MoveToEnd(ui.layout, id, sec))
  BY LayoutNow, EndKeeps
<1> QED BY <1>1, QuietKeeps DEF MoveToSection

LEMMA DisplayKeeps == ASSUME LayoutInv, Display PROVE LayoutInv'
<1>1. Whole(ui) /\ UiInv /\ HandInv /\ Edit /\ UNCHANGED <<keptUi, dragged, over, offer>>
  BY DEF LayoutInv, UiInv, Display, Quiet
<1>2. ASSUME NEW id \in PanelIds, SetUi([ui EXCEPT !.hiddenCols = IF id \in @ THEN @ \ {id} ELSE @ \cup {id}]) PROVE UiInv'
  <2> DEFINE cols == IF id \in ui.hiddenCols THEN ui.hiddenCols \ {id} ELSE ui.hiddenCols \cup {id}
  <2>1. cols \in SUBSET (PanelIds \cup OtherIds)
    BY <1>1, WholeIs
  <2>2. SetUi([ui EXCEPT !.hiddenCols = cols])
    BY <1>2
  <2> HIDE DEF cols
  <2>3. Whole([ui EXCEPT !.hiddenCols = cols])
    BY <1>1, <2>1, WholeIs, WholeWith
  <2> QED BY <1>1, <2>2, <2>3, SetUiKeeps
<1>3. ASSUME NEW d \in {"compact", "comfortable"}, SetUi([ui EXCEPT !.density = d]) PROVE UiInv'
  <2>1. Whole([ui EXCEPT !.density = d])
    BY <1>1, WholeIs, WholeWith
  <2> QED BY <1>1, <1>3, <2>1, SetUiKeeps
<1>4. ASSUME SetUi([ui EXCEPT !.railMini = ~@]) PROVE UiInv'
  <2> DEFINE mini == ~ui.railMini
  <2>1. mini \in BOOLEAN
    BY <1>1, WholeIs
  <2>2. SetUi([ui EXCEPT !.railMini = mini])
    BY <1>4
  <2> HIDE DEF mini
  <2>3. Whole([ui EXCEPT !.railMini = mini])
    BY <1>1, <2>1, WholeIs, WholeWith
  <2> QED BY <1>1, <2>2, <2>3, SetUiKeeps
<1>5. UiInv'
  BY <1>2, <1>3, <1>4 DEF Display
<1>6. HandInv'
  BY <1>1, EditKeeps
<1> QED BY <1>5, <1>6 DEF LayoutInv

\* a panel that is shown is hidden once more than before: once
LEMMA HideKeeps == ASSUME LayoutInv, NEW id \in PanelIds, Hide(id) PROVE LayoutInv'
<1> DEFINE s == ui.hidden h == Append(s, id)
<1>1. Whole(ui) /\ UiInv /\ HandInv /\ s \in Seq(PanelIds) /\ IsInjective(s)
  BY WholeIs DEF LayoutInv, UiInv
<1>2. /\ id \notin ToSet(s) /\ Edit /\ SetUi([ui EXCEPT !.hidden = h])
      /\ offer' = [show |-> {id}] /\ UNCHANGED <<keptUi, dragged, over>>
  BY DEF Hide, Visible
<1> HIDE DEF s
<1>3. \A n \in DOMAIN s : s[n] # id
  BY <1>2 DEF ToSet
<1>4. /\ h \in Seq(PanelIds) /\ DOMAIN h = 1..(Len(s) + 1) /\ Len(s) \in Nat /\ DOMAIN s = 1..Len(s)
      /\ \A n \in DOMAIN s : h[n] = s[n]
      /\ h[Len(s) + 1] = id
  BY <1>1
<1> HIDE DEF h
<1>5. \A n \in DOMAIN h : n \in DOMAIN s \/ n = Len(s) + 1
  BY <1>4
<1>6. IsInjective(h)
  BY <1>1, <1>3, <1>4, <1>5 DEF IsInjective
<1>7. Whole([ui EXCEPT !.hidden = h])
  BY <1>1, <1>4, <1>6, WholeIs, WholeWith
<1>8. UiInv'
  BY <1>1, <1>2, <1>7, SetUiKeeps
<1>9. offer' \in Offers /\ edits' \in 0..MaxEdits
  BY <1>1, <1>2, EditCounts DEF Offers
<1>10. HandInv'
  BY <1>1, <1>2, <1>9 DEF HandInv
<1> QED BY <1>8, <1>10 DEF LayoutInv

LEMMA ShowKeeps == ASSUME LayoutInv, NEW id \in PanelIds, Show(id) PROVE LayoutInv'
<1>1. Whole(ui) /\ UiInv /\ HandInv /\ Edit /\ SetUi(Shown({id})) /\ UNCHANGED <<keptUi, dragged, over, offer>>
  BY DEF LayoutInv, UiInv, Show, Quiet
<1>2. Whole(Shown({id}))
  BY <1>1, ShownWhole
<1>3. UiInv'
  BY <1>1, <1>2, SetUiKeeps
<1>4. HandInv'
  BY <1>1, EditKeeps
<1> QED BY <1>3, <1>4 DEF LayoutInv

LEMMA ResetKeeps == ASSUME LayoutInv, ResetLayout PROVE LayoutInv'
<1> DEFINE u == [FreshUi EXCEPT !.density = ui.density, !.railMini = ui.railMini]
<1>1. /\ Whole(ui) /\ UiInv /\ HandInv /\ Edit /\ SetUi(u) /\ UNCHANGED <<keptUi, dragged, over>>
      /\ offer' = [layout |-> ui.layout, hidden |-> ui.hidden, hiddenCols |-> ui.hiddenCols]
  BY DEF LayoutInv, UiInv, ResetLayout
<1>2. Whole(u)
  BY <1>1, WholeIs, WholeWith
<1> HIDE DEF u
<1>3. UiInv'
  BY <1>1, <1>2, SetUiKeeps
<1>4. /\ ui.layout \in {l \in Layouts : Complete(l)} /\ ui.hidden \in {h \in Seq(PanelIds) : IsInjective(h)}
      /\ ui.hiddenCols \in SUBSET (PanelIds \cup OtherIds)
  BY <1>1, WholeIs
<1>5. offer' \in Offers
  BY <1>1, <1>4 DEF Offers
<1>6. edits' \in 0..MaxEdits
  BY <1>1, EditCounts
<1>7. HandInv'
  BY <1>1, <1>5, <1>6 DEF HandInv
<1> QED BY <1>3, <1>7 DEF LayoutInv

LEMMA UndoKeeps == ASSUME LayoutInv, UndoEdit PROVE LayoutInv'
<1> DEFINE u == IF "show" \in DOMAIN offer THEN Shown(offer.show)
                ELSE [ui EXCEPT !.layout = offer.layout, !.hidden = offer.hidden, !.hiddenCols = offer.hiddenCols]
<1>1. /\ Whole(ui) /\ UiInv /\ HandInv /\ Edit /\ SetUi(u) /\ UNCHANGED <<keptUi, dragged, over>>
      /\ offer \in Offers /\ offer' = NoUi
  BY DEF LayoutInv, UiInv, UndoEdit, HandInv
<1>2. ASSUME offer \in [show : SUBSET PanelIds] PROVE Whole(u)
  <2>1. "show" \in DOMAIN offer
    BY <1>2
  <2> QED BY <1>1, <2>1, ShownWhole
<1>3. ASSUME offer \in [layout : {l \in Layouts : Complete(l)}, hidden : {h \in Seq(PanelIds) : IsInjective(h)},
                        hiddenCols : SUBSET (PanelIds \cup OtherIds)]
      PROVE  Whole(u)
  <2>1. "show" \notin DOMAIN offer
    BY <1>3
  <2>2. /\ offer.layout \in {l \in Layouts : Complete(l)} /\ offer.hidden \in {h \in Seq(PanelIds) : IsInjective(h)}
        /\ offer.hiddenCols \in SUBSET (PanelIds \cup OtherIds)
    BY <1>3
  <2>3. Whole([ui EXCEPT !.layout = offer.layout, !.hidden = offer.hidden, !.hiddenCols = offer.hiddenCols])
    BY <1>1, <2>2, WholeIs, WholeWith
  <2> QED BY <2>1, <2>3
<1>4. Whole(u)
  BY <1>1, <1>2, <1>3 DEF Offers
<1> HIDE DEF u
<1>5. UiInv'
  BY <1>1, <1>4, SetUiKeeps
<1>6. edits' \in 0..MaxEdits
  BY <1>1, EditCounts
<1>7. HandInv'
  BY <1>1, <1>6 DEF HandInv
<1> QED BY <1>5, <1>7 DEF LayoutInv

LEMMA SameUi == ASSUME UiInv, UNCHANGED <<ui, keptUi, saving>> PROVE UiInv'
BY DEF UiInv, Whole

\* the drag's panel, and what it is dropped on
LEMMA DragKeeps ==
    ASSUME LayoutInv,
           \/ OfferGone
           \/ \E id \in PanelIds : DragStart(id) \/ \E after \in BOOLEAN : DragOver(id, after)
    PROVE  LayoutInv'
<1>1. UiInv /\ HandInv
  BY DEF LayoutInv
<1>2. CASE OfferGone
  BY <1>1, <1>2, SameUi DEF OfferGone, HandInv, LayoutInv
<1>3. ASSUME NEW id \in PanelIds, DragStart(id) PROVE LayoutInv'
  <2>1. UiInv'
    BY <1>1, <1>3, SameUi DEF DragStart
  <2>2. edits' \in 0..MaxEdits
    BY <1>1, <1>3, EditCounts DEF DragStart
  <2> QED BY <1>1, <1>3, <2>1, <2>2 DEF DragStart, HandInv, LayoutInv
<1>4. ASSUME NEW id \in PanelIds, NEW after \in BOOLEAN, DragOver(id, after) PROVE LayoutInv'
  BY <1>1, <1>4, SameUi DEF DragOver, HandInv, LayoutInv
<1> QED BY <1>2, <1>3, <1>4

LEMMA DropKeeps == ASSUME LayoutInv, Drop PROVE LayoutInv'
<1>1. /\ UiInv /\ HandInv /\ dragged \in PanelIds /\ UNCHANGED <<keptUi, offer, edits>>
      /\ dragged' = NoUi /\ over' = NoUi
  BY DEF LayoutInv, HandInv, Drop
<1>2. ASSUME over # NoUi, SetLayout(MoveByPanel(ui.layout, dragged, over.id, over.after)) PROVE UiInv'
  <2>1. over.id \in PanelIds /\ over.after \in BOOLEAN
    BY <1>1, <1>2 DEF HandInv
  <2> DEFINE m == MoveByPanel(ui.layout, dragged, over.id, over.after)
  <2>2. m \in Layouts /\ Complete(m)
    BY <1>1, <2>1, LayoutNow, PanelMoves
  <2>3. SetLayout(m)
    BY <1>2
  <2> HIDE DEF m
  <2> QED BY <1>1, <2>2, <2>3, SetLayoutKeeps
<1>3. ASSUME NEW i \in DOMAIN ui.layout, SetLayout(MoveToEnd(ui.layout, dragged, ui.layout[i].id)) PROVE UiInv'
  <2> DEFINE sec == ui.layout[i].id m == MoveToEnd(ui.layout, dragged, sec)
  <2>1. sec \in SectionIds
    BY LayoutNow, SectionIs
  <2>2. SetLayout(m)
    BY <1>3
  <2> HIDE DEF sec
  <2>3. m \in Layouts /\ Complete(m)
    BY <1>1, <2>1, LayoutNow, EndKeeps
  <2> HIDE DEF m
  <2> QED BY <1>1, <2>2, <2>3, SetLayoutKeeps
<1>4. ASSUME UNCHANGED <<ui, saving>> PROVE UiInv'
  BY <1>1, <1>4, SameUi
<1>5. UiInv'
  BY <1>2, <1>3, <1>4 DEF Drop
<1>6. HandInv'
  BY <1>1 DEF HandInv
<1> QED BY <1>5, <1>6 DEF LayoutInv

LEMMA SaveKeeps == ASSUME LayoutInv, Save PROVE LayoutInv'
<1>1. Whole(ui)' /\ UNCHANGED <<ui, dragged, over, offer, edits>> /\ keptUi' = ui' /\ saving' = FALSE
  BY DEF LayoutInv, UiInv, Save, Whole
<1> QED BY <1>1 DEF LayoutInv, UiInv, HandInv, Whole

LEMMA ReloadKeeps == ASSUME LayoutInv, ReloadBoard PROVE LayoutInv'
<1>1. /\ UiInv /\ HandInv /\ Edit /\ ui' = LoadUi(keptUi) /\ saving' = TRUE /\ keptUi' = keptUi
      /\ dragged' = NoUi /\ over' = NoUi /\ offer' = NoUi
  BY DEF LayoutInv, ReloadBoard
<1>2. Whole(LoadUi(keptUi))
  BY <1>1, LoadedWhole, LoadedSame DEF UiInv
<1>3. UiInv'
  BY <1>1, <1>2 DEF UiInv, Whole
<1>4. edits' \in 0..MaxEdits
  BY <1>1, EditCounts
<1> QED BY <1>1, <1>3, <1>4 DEF LayoutInv, HandInv

LEMMA LayoutSame == ASSUME LayoutInv, UNCHANGED layoutVars PROVE LayoutInv'
BY SameUi DEF LayoutInv, HandInv, layoutVars

LEMMA LayoutStarts == ASSUME LayoutInit PROVE LayoutInv
<1>1. Whole(ui) /\ keptUi \in OlderUis \cup {NoUi} /\ saving = TRUE
  BY LoadedWhole DEF LayoutInit
<1>2. 0 \in 0..MaxEdits
  BY LayoutBounds
<1> QED BY <1>1, <1>2 DEF LayoutInit, LayoutInv, UiInv, HandInv

LEMMA LayoutStep == ASSUME LayoutInv, LayoutNext PROVE LayoutInv'
<1>1. ASSUME NEW sec \in SectionIds,
             \/ \E open \in BOOLEAN : SetOpen({sec}, open)
             \/ \E dir \in 0..1 : MoveSectionBy(sec, dir)
             \/ \E id \in PanelIds : MoveToSection(id, sec)
      PROVE  LayoutInv'
  BY <1>1, SetOpenKeeps, MoveSectionKeeps, MoveToSectionKeeps
<1>2. ASSUME NEW open \in BOOLEAN, SetOpen(SectionIds, open) PROVE LayoutInv'
  BY <1>2, SetOpenKeeps
<1>3. ASSUME NEW id \in PanelIds,
             \/ ToggleFold(id) \/ Resize(id) \/ Hide(id) \/ Show(id)
             \/ \E w \in Widths : SetSpan(id, w)
             \/ \E taller \in BOOLEAN : GrowBy(id, taller)
             \/ \E dir \in 0..1 : Step(id, dir)
      PROVE  LayoutInv'
  BY <1>3, ToggleFoldKeeps, ResizeKeeps, HideKeeps, ShowKeeps, SetSpanKeeps, GrowKeeps, StepAction
<1>4. ASSUME NEW id \in PanelIds, DragStart(id) \/ \E after \in BOOLEAN : DragOver(id, after) PROVE LayoutInv'
  BY <1>4, DragKeeps
<1>5. CASE Display \/ ResetLayout \/ UndoEdit \/ Drop \/ Save \/ ReloadBoard
  BY <1>5, DisplayKeeps, ResetKeeps, UndoKeeps, DropKeeps, SaveKeeps, ReloadKeeps
<1>6. CASE OfferGone
  BY <1>6, DragKeeps
<1> QED BY <1>1, <1>2, <1>3, <1>4, <1>5, <1>6 DEF LayoutNext

\* The layout keeps its types, whatever is stored, moved, resized, undone and loaded again.
THEOREM LayoutTyped == LayoutSpec => []LayoutTypeOK
<1>1. LayoutInv => LayoutTypeOK
  BY DEF LayoutInv, UiInv, HandInv, Whole, LayoutTypeOK
<1> QED BY <1>1, LayoutStarts, LayoutStep, LayoutSame, PTL DEF LayoutSpec

\* Every section and every panel stays on the board once, a panel hidden once is shown by one
\* click, and once the timer has gone off the page loaded again shows what was left.
THEOREM LayoutIsKept == LayoutSpec => []LayoutKept
<1>1. LayoutInv => LayoutKept
  <2> SUFFICES ASSUME LayoutInv PROVE LayoutKept
    OBVIOUS
  <2>1. Whole(ui) /\ (~saving => keptUi = ui)
    BY DEF LayoutInv, UiInv
  <2>2. LayoutWhole
    BY <2>1 DEF Whole, LayoutWhole
  <2>3. LayoutStays
    BY <2>1, LoadedSame DEF LayoutStays
  <2> QED BY <2>2, <2>3 DEF LayoutKept
<1> QED BY <1>1, LayoutStarts, LayoutStep, LayoutSame, PTL DEF LayoutSpec

(* Numbers, sequences and sums ------------------------------------------- *)

LEMMA LessIsWellFounded == \E R : IsWellFoundedOn(R, Nat) /\ \A x, y \in Nat : x < y => <<x, y>> \in R
<1>1. \A x, y \in Nat : x < y => <<x, y>> \in OpToRel(<, Nat)
  BY DEF OpToRel
<1> QED BY <1>1, NatLessThanWellFounded

LEMMA LeastNumber == ASSUME NEW T \in SUBSET Nat, T # {} PROVE \E n \in T : \A k \in T : n <= k
<1>1. PICK R : IsWellFoundedOn(R, Nat) /\ \A x, y \in Nat : x < y => <<x, y>> \in R
  BY LessIsWellFounded
<1>2. T \subseteq Nat /\ IsWellFoundedOn(R, Nat)
  BY <1>1
<1>3. \E n \in T : \A k \in T : ~(<<k, n>> \in R)
  BY <1>2, WFMin, Zenon
<1>4. PICK n \in T : \A k \in T : ~(<<k, n>> \in R)
  BY <1>3
<1>5. \A k \in T : ~(k < n)
  BY <1>1, <1>4
<1> QED BY <1>4, <1>5

(* Sorting by counting ------------------------------------------------------ *)

StrictOrder(B, D) ==
    /\ \A i \in D : <<i, i>> \notin B
    /\ \A i, j \in D : i # j => <<i, j>> \in B \/ <<j, i>> \in B
    /\ \A i, j, k \in D : <<i, j>> \in B /\ <<j, k>> \in B => <<i, k>> \in B

LEMMA PlaceCounts ==
    ASSUME NEW D, IsFiniteSet(D), NEW B, StrictOrder(B, D), NEW i \in D
    PROVE  PlaceUnder(B, D, i) \in 1..Cardinality(D) /\ IsFiniteSet({j \in D : <<j, i>> \in B})
<1> DEFINE A == {j \in D : <<j, i>> \in B}
<1>1. A \in SUBSET D /\ i \in D /\ i \notin A
  BY DEF StrictOrder
<1>2. A # D
  BY <1>1
<1> HIDE DEF A
<1>3. IsFiniteSet(A) /\ Cardinality(A) <= Cardinality(D) /\ Cardinality(A) # Cardinality(D)
  BY <1>1, <1>2, FS_Subset, Zenon
<1>4. Cardinality(A) \in Nat /\ Cardinality(D) \in Nat
  BY <1>3, FS_CardinalityType
<1>5. Cardinality(A) + 1 \in 1..Cardinality(D)
  BY <1>3, <1>4
<1> QED BY <1>3, <1>5 DEF PlaceUnder, A

\* what comes later has more before it
LEMMA PlaceGrows ==
    ASSUME NEW D, IsFiniteSet(D), NEW B, StrictOrder(B, D), NEW i \in D, NEW k \in D, <<i, k>> \in B
    PROVE  PlaceUnder(B, D, i) < PlaceUnder(B, D, k)
<1> DEFINE A == {j \in D : <<j, i>> \in B} C == {j \in D : <<j, k>> \in B}
<1>1. \A j \in A : j \in C
  BY DEF StrictOrder
<1>2. A \in SUBSET C /\ i \in C /\ i \notin A
  BY <1>1 DEF StrictOrder
<1>3. A # C
  BY <1>2
<1>4. IsFiniteSet(C)
  BY PlaceCounts
<1> HIDE DEF A, C
<1>5. IsFiniteSet(A) /\ Cardinality(A) <= Cardinality(C) /\ Cardinality(A) # Cardinality(C)
  BY <1>2, <1>3, <1>4, FS_Subset, Zenon
<1>6. Cardinality(A) \in Nat /\ Cardinality(C) \in Nat
  BY <1>4, <1>5, FS_CardinalityType
<1>7. Cardinality(A) + 1 < Cardinality(C) + 1
  BY <1>5, <1>6
<1> QED BY <1>7 DEF PlaceUnder, A, C

LEMMA PlacesDiffer ==
    ASSUME NEW D, IsFiniteSet(D), NEW B, StrictOrder(B, D), NEW i \in D, NEW k \in D, PlaceUnder(B, D, i) = PlaceUnder(B, D, k)
    PROVE  i = k
<1> SUFFICES ASSUME i # k PROVE FALSE
  OBVIOUS
<1>1. PlaceUnder(B, D, i) \in 1..Cardinality(D) /\ PlaceUnder(B, D, k) \in 1..Cardinality(D) /\ Cardinality(D) \in Nat
  BY PlaceCounts, FS_CardinalityType
<1>2. <<i, k>> \in B \/ <<k, i>> \in B
  BY DEF StrictOrder
<1>3. PlaceUnder(B, D, i) < PlaceUnder(B, D, k) \/ PlaceUnder(B, D, k) < PlaceUnder(B, D, i)
  BY <1>2, PlaceGrows
<1> QED BY <1>1, <1>3

\* every place is taken
LEMMA AtPlaceIs ==
    ASSUME NEW D, IsFiniteSet(D), NEW B, StrictOrder(B, D), NEW n \in 1..Cardinality(D)
    PROVE  AtPlace(B, D, n) \in D /\ PlaceUnder(B, D, AtPlace(B, D, n)) = n
<1> DEFINE c == Cardinality(D) f == [i \in D |-> PlaceUnder(B, D, i)]
<1>1. c \in Nat
  BY FS_CardinalityType
<1>2. f \in [D -> 1..c]
  BY PlaceCounts
<1>3. \A i, k \in D : f[i] = f[k] => i = k
  BY PlacesDiffer
<1>4. f \in Injection(D, 1..c)
  BY <1>2, <1>3 DEF Injection, IsInjective
<1>5. IsFiniteSet(1..c) /\ Cardinality(1..c) = c
  <2>1. 1 \in Int /\ c \in Int /\ (1 > c <=> c = 0) /\ c - 1 + 1 = c
    BY <1>1
  <2> QED BY <2>1, FS_Interval
<1>6. f \in Surjection(D, 1..c)
  BY <1>4, <1>5, FS_Injection, Zenon
<1>7. \E i \in D : f[i] = n
  BY <1>6 DEF Surjection
<1> QED BY <1>7 DEF AtPlace

\* A sequence sorted has the elements it had, each at one place, in the order.
LEMMA SortedIs ==
    ASSUME NEW S, NEW s \in Seq(S), NEW B, StrictOrder(B, DOMAIN s),
           NEW t, t = Ordered(s, B)
    PROVE  /\ t \in Seq(S) /\ DOMAIN t = DOMAIN s
           /\ \A n \in DOMAIN t : AtPlace(B, DOMAIN s, n) \in DOMAIN s /\ t[n] = s[AtPlace(B, DOMAIN s, n)]
           /\ \A i \in DOMAIN s : \E n \in DOMAIN t : AtPlace(B, DOMAIN s, n) = i
           /\ \A n, m \in DOMAIN t : n < m => <<AtPlace(B, DOMAIN s, n), AtPlace(B, DOMAIN s, m)>> \in B
           /\ \A n, m \in DOMAIN t : AtPlace(B, DOMAIN s, n) = AtPlace(B, DOMAIN s, m) => n = m
<1> DEFINE D == DOMAIN s nth(n) == AtPlace(B, D, n)
<1>0. t = [n \in D |-> s[nth(n)]]
  BY DEF Ordered
<1>1. Len(s) \in Nat /\ D = 1..Len(s)
  OBVIOUS
<1>2. IsFiniteSet(D) /\ Cardinality(D) = Len(s)
  <2>1. 1 \in Int /\ Len(s) \in Int /\ (1 > Len(s) <=> Len(s) = 0) /\ Len(s) - 1 + 1 = Len(s)
    BY <1>1
  <2> QED BY <1>1, <2>1, FS_Interval
<1>3. DOMAIN t = D /\ D = 1..Cardinality(D)
  BY <1>0, <1>1, <1>2
<1>4. \A n \in D : nth(n) \in D /\ PlaceUnder(B, D, nth(n)) = n
  BY <1>2, <1>3, AtPlaceIs
<1>5. \A i \in D : PlaceUnder(B, D, i) \in D
  BY <1>2, <1>3, PlaceCounts
<1>6. ASSUME NEW i \in D PROVE \E n \in D : nth(n) = i
  <2> DEFINE n == PlaceUnder(B, D, i)
  <2>1. n \in D /\ PlaceUnder(B, D, nth(n)) = PlaceUnder(B, D, i) /\ nth(n) \in D
    BY <1>4, <1>5
  <2>2. nth(n) = i
    BY <1>2, <2>1, PlacesDiffer
  <2> QED BY <2>1, <2>2
<1>7. ASSUME NEW n \in D, NEW m \in D, nth(n) = nth(m) PROVE n = m
  BY <1>4, <1>7
<1>8. ASSUME NEW n \in D, NEW m \in D, n < m PROVE <<nth(n), nth(m)>> \in B
  <2>1. n \in Int /\ m \in Int /\ n # m
    BY <1>1, <1>8
  <2>2. nth(n) # nth(m) /\ nth(n) \in D /\ nth(m) \in D
    BY <1>4, <1>7, <2>1
  <2>3. <<nth(n), nth(m)>> \in B \/ <<nth(m), nth(n)>> \in B
    BY <2>2 DEF StrictOrder
  <2>4. <<nth(m), nth(n)>> \in B => m < n
    BY <1>2, <1>4, <2>2, PlaceGrows
  <2> QED BY <1>8, <2>1, <2>3, <2>4
<1>9. \A n \in 1..Len(s) : t[n] \in S
  BY <1>0, <1>1, <1>4
<1>10. t = [n \in 1..Len(s) |-> t[n]]
  BY <1>0, <1>1
<1>11. t \in Seq(S)
  BY <1>1, <1>9, <1>10, SeqBuilt
<1> QED BY <1>0, <1>3, <1>4, <1>6, <1>7, <1>8, <1>11

LEMMA SmallerIs == ASSUME NEW a \in Int, NEW b \in Int PROVE Min({a, b}) = IF a <= b THEN a ELSE b
<1> DEFINE S == {a, b} m == IF a <= b THEN a ELSE b
<1>1. m \in S /\ \A y \in S : m <= y
  OBVIOUS
<1>2. \A x \in S : (\A y \in S : x <= y) => x = m
  OBVIOUS
<1> HIDE DEF S, m
<1>3. (CHOOSE x \in S : \A y \in S : x <= y) = m
  BY <1>1, <1>2
<1> QED BY <1>3 DEF Min, S, m

LEMMA SeqGrows == ASSUME NEW S, NEW T, S \subseteq T PROVE Seq(S) \subseteq Seq(T)
<1>1. ASSUME NEW s \in Seq(S) PROVE s \in Seq(T)
  <2>1. Len(s) \in Nat /\ \A i \in 1..Len(s) : s[i] \in T
    OBVIOUS
  <2>2. s = [i \in 1..Len(s) |-> s[i]]
    OBVIOUS
  <2> QED BY <2>1, <2>2, SeqBuilt
<1> QED BY <1>1

LEMMA CutSeq ==
    ASSUME NEW S, NEW s \in Seq(S), NEW n \in Nat
    PROVE  LET t == SubSeq(s, 1, Min({n, Len(s)})) IN
           t \in Seq(S) /\ Len(t) <= n /\ \A i \in DOMAIN t : i \in DOMAIN s /\ t[i] = s[i]
<1> DEFINE m == Min({n, Len(s)}) t == SubSeq(s, 1, m)
<1>1. Len(s) \in Nat
  OBVIOUS
<1>2. m = IF n <= Len(s) THEN n ELSE Len(s)
  BY <1>1, SmallerIs
<1>3. m \in Nat /\ m <= n /\ m <= Len(s)
  BY <1>1, <1>2
<1> HIDE DEF m
<1>4. t = [i \in 1..m |-> s[i]]
  BY <1>3
<1>5. \A i \in 1..m : i \in DOMAIN s /\ s[i] \in S
  BY <1>1, <1>3
<1> HIDE DEF t
<1>6. t = [i \in 1..m |-> t[i]] /\ \A i \in 1..m : t[i] \in S
  BY <1>4, <1>5
<1>7. t \in Seq(S) /\ Len(t) = m /\ DOMAIN t = 1..m
  BY <1>3, <1>6, SeqBuilt
<1>8. t \in Seq(S) /\ Len(t) <= n /\ \A i \in DOMAIN t : i \in DOMAIN s /\ t[i] = s[i]
  BY <1>3, <1>4, <1>5, <1>7
<1> QED BY <1>8 DEF t, m

LEMMA CountsUp ==
    ASSUME NEW N \in Nat, NEW T, 0 \in T, \A n \in 1..N : n - 1 \in T => n \in T
    PROVE  \A n \in 0..N : n \in T
<1> DEFINE missing == {n \in 0..N : n \notin T}
<1>1. SUFFICES ASSUME missing # {} PROVE FALSE
  OBVIOUS
<1>2. PICK n \in missing : \A k \in missing : n <= k
  <2>1. missing \in SUBSET Nat
    OBVIOUS
  <2> HIDE DEF missing
  <2> QED BY <1>1, <2>1, LeastNumber
<1>3. n \in 0..N /\ n \notin T
  OBVIOUS
<1>4. n # 0
  BY <1>3
<1>5. n \in 1..N /\ n - 1 \in 0..N /\ n - 1 < n /\ ~(n <= n - 1)
  BY <1>3, <1>4
<1>6. n - 1 \notin missing
  BY <1>2, <1>5
<1>7. n - 1 \in T
  BY <1>5, <1>6
<1> QED BY <1>3, <1>5, <1>7

Accumulated(g, none, step, N) == g = [n \in 0..N |-> IF n = 0 THEN none ELSE step[<<g[n-1], n>>]]

LEMMA Accumulates ==
    ASSUME NEW S, NEW none \in S, NEW N \in Nat, NEW step \in [S \X (1..N) -> S]
    PROVE  \E g \in [0..N -> S] : Accumulated(g, none, step, N)
<1> DEFINE Upto(h, m) == h[0] = none /\ \A k \in 1..m : h[k] = step[<<h[k-1], k>>]
           T == {m \in 0..N : \E h \in [0..m -> S] : Upto(h, m)}
<1>1. 0 \in T
  <2> DEFINE h == [k \in 0..0 |-> none]
  <2>1. h \in [0..0 -> S] /\ h[0] = none
    OBVIOUS
  <2> HIDE DEF h
  <2>2. Upto(h, 0)
    BY <2>1
  <2>3. 0 \in 0..N
    OBVIOUS
  <2> QED BY <2>1, <2>2, <2>3
<1>2. ASSUME NEW m \in 1..N, m - 1 \in T PROVE m \in T
  <2>1. PICK h \in [0..(m-1) -> S] : Upto(h, m - 1)
    BY <1>2
  <2> DEFINE new == [k \in 0..m |-> IF k = m THEN step[<<h[m-1], m>>] ELSE h[k]]
  <2>2. step[<<h[m-1], m>>] \in S
    BY <2>1
  <2>3. new \in [0..m -> S]
    BY <2>1, <2>2
  <2>4. ASSUME NEW k \in 1..m PROVE new[k] = step[<<new[k-1], k>>]
    <3>1. k - 1 \in 0..(m-1) /\ new[k-1] = h[k-1]
      OBVIOUS
    <3>2. CASE k = m
      BY <3>1, <3>2
    <3>3. CASE k # m
      <4>1. k \in 1..(m-1) /\ new[k] = h[k]
        BY <3>3
      <4> HIDE DEF new
      <4> QED BY <3>1, <4>1, <2>1
    <3> QED BY <3>2, <3>3
  <2>5. new[0] = none
    BY <2>1
  <2> HIDE DEF new
  <2> QED BY <2>3, <2>4, <2>5
<1>3. N \in T
  <2> HIDE DEF T
  <2>1. \A n \in 1..N : n - 1 \in T => n \in T
    BY <1>2
  <2>2. \A n \in 0..N : n \in T
    BY <1>1, <2>1, CountsUp
  <2> QED BY <2>2
<1>4. PICK g \in [0..N -> S] : Upto(g, N)
  BY <1>3
<1>5. \A n \in 0..N : g[n] = IF n = 0 THEN none ELSE step[<<g[n-1], n>>]
  BY <1>4
<1>6. g = [n \in 0..N |-> g[n]]
  BY <1>4
<1>7. g = [n \in 0..N |-> IF n = 0 THEN none ELSE step[<<g[n-1], n>>]]
  BY <1>5, <1>6
<1> QED BY <1>4, <1>7 DEF Accumulated

FlatUpto(seqs) == CHOOSE h : h = [i \in 1..Len(seqs) |-> IF i = 1 THEN seqs[i] ELSE h[i-1] \o seqs[i]]

\* sequences put one after the other
LEMMA FlatRuns ==
    ASSUME NEW S, NEW seqs \in Seq(Seq(S)), NEW h, h = FlatUpto(seqs)
    PROVE  \A n \in 1..Len(seqs) : h[n] \in Seq(S) /\ h[n] = IF n = 1 THEN seqs[n] ELSE h[n-1] \o seqs[n]
<1> DEFINE N == Len(seqs)
           Q == Seq(S)
           step == [x \in Q \X (1..N) |-> x[1] \o seqs[x[2]]]
<1>0. N \in Nat /\ DOMAIN seqs = 1..N /\ \A i \in 1..N : seqs[i] \in Q
  OBVIOUS
<1>2. step \in [Q \X (1..N) -> Q]
  <2>1. ASSUME NEW x \in Q \X (1..N) PROVE x[1] \o seqs[x[2]] \in Q
    <3>1. x[1] \in Q /\ seqs[x[2]] \in Q
      BY <1>0
    <3> QED BY <3>1
  <2> HIDE DEF Q
  <2> QED BY <2>1
<1>3. <<>> \in Q
  OBVIOUS
<1>4. PICK a \in [0..N -> Q] : Accumulated(a, <<>>, step, N)
  <2> HIDE DEF Q, N, step
  <2> QED BY <1>0, <1>2, <1>3, Accumulates
<1>5. \A n \in 0..N : a[n] = IF n = 0 THEN <<>> ELSE step[<<a[n-1], n>>]
  BY <1>4 DEF Accumulated
<1>6. ASSUME NEW n \in 1..N PROVE a[n] = a[n-1] \o seqs[n] /\ a[n-1] \in Q /\ a[n] \in Q
  <2>1. n - 1 \in 0..N /\ n \in 0..N /\ n # 0
    BY <1>0
  <2>2. <<a[n-1], n>> \in Q \X (1..N)
    BY <1>4, <2>1
  <2> HIDE DEF Q, N
  <2>3. step[<<a[n-1], n>>] = a[n-1] \o seqs[n]
    BY <2>2
  <2> QED BY <1>4, <1>5, <2>1, <2>3
<1> DEFINE b == [i \in 1..N |-> a[i]]
<1>7. ASSUME NEW i \in 1..N PROVE b[i] = IF i = 1 THEN seqs[i] ELSE b[i-1] \o seqs[i]
  <2>1. CASE i = 1
    <3>0. 0 \in 0..N /\ i - 1 = 0
      BY <1>0, <2>1
    <3>1. a[0] = <<>> /\ i - 1 = 0
      <4> HIDE DEF step, N
      <4> QED BY <1>5, <3>0
    <3>2. a[i] = <<>> \o seqs[i]
      BY <1>6, <3>1
    <3>3. <<>> \o seqs[i] = seqs[i]
      BY <1>0
    <3> QED BY <2>1, <3>2, <3>3
  <2>2. CASE i # 1
    <3>1. i - 1 \in 1..N
      BY <1>0, <2>2
    <3> QED BY <1>6, <2>2, <3>1
  <2> QED BY <2>1, <2>2
<1>8. b = [i \in 1..N |-> IF i = 1 THEN seqs[i] ELSE b[i-1] \o seqs[i]]
  <2>1. b = [i \in 1..N |-> b[i]]
    OBVIOUS
  <2> HIDE DEF b
  <2> QED BY <1>7, <2>1
<1>9. h = [i \in 1..N |-> IF i = 1 THEN seqs[i] ELSE h[i-1] \o seqs[i]]
  <2> HIDE DEF b
  <2> QED BY <1>8 DEF FlatUpto
<1> HIDE DEF b, step, Q
<1>10. \A i \in 1..N : h[i] = IF i = 1 THEN seqs[i] ELSE h[i-1] \o seqs[i]
  BY <1>9
<1> DEFINE T == {n \in 0..N : n = 0 \/ h[n] \in Q}
<1>11. 0 \in T
  BY <1>0
<1>12. ASSUME NEW n \in 1..N, n - 1 \in T PROVE n \in T
  <2>1. seqs[n] \in Q /\ n \in 0..N
    BY <1>0
  <2>2. CASE n = 1
    <3>1. h[n] = seqs[n]
      BY <1>10, <2>2
    <3> QED BY <2>1, <3>1
  <2>3. CASE n # 1
    <3>1. h[n-1] \in Q
      BY <1>0, <1>12, <2>3
    <3>2. h[n] = h[n-1] \o seqs[n]
      BY <1>10, <2>3
    <3>3. h[n] \in Q
      BY <2>1, <3>1, <3>2 DEF Q
    <3> QED BY <2>1, <3>3
  <2> QED BY <2>2, <2>3
<1> HIDE DEF T
<1>13. \A n \in 1..N : n - 1 \in T => n \in T
  BY <1>12
<1>14. \A n \in 0..N : n \in T
  BY <1>0, <1>11, <1>13, CountsUp
<1>15. ASSUME NEW n \in 1..N PROVE h[n] \in Q
  <2>1. n \in 0..N /\ n # 0
    BY <1>0
  <2> QED BY <1>14, <2>1 DEF T
<1> QED BY <1>10, <1>15 DEF Q

LEMMA FlatIs ==
    ASSUME NEW seqs, NEW h, h = FlatUpto(seqs)
    PROVE  FlattenSeq(seqs) = IF Len(seqs) = 0 THEN seqs ELSE h[Len(seqs)]
<1>1. FlattenSeq(seqs) = IF Len(seqs) = 0 THEN seqs ELSE FlatUpto(seqs)[Len(seqs)]
  BY DEF FlattenSeq, FlatUpto
<1> QED BY <1>1

LEMMA FlattenIs ==
    ASSUME NEW S, NEW seqs \in Seq(Seq(S)), NEW t, t = FlattenSeq(seqs)
    PROVE  t \in Seq(S)
<1> DEFINE h == FlatUpto(seqs)
<1>1. h = FlatUpto(seqs) /\ Len(seqs) \in Nat
  OBVIOUS
<1> HIDE DEF h
<1>2. t = IF Len(seqs) = 0 THEN seqs ELSE h[Len(seqs)]
  BY <1>1, FlatIs
<1>3. CASE Len(seqs) = 0
  <2>1. t = <<>>
    BY <1>2, <1>3
  <2> QED BY <2>1
<1>4. CASE Len(seqs) # 0
  <2>1. Len(seqs) \in 1..Len(seqs)
    BY <1>1, <1>4
  <2>2. h[Len(seqs)] \in Seq(S)
    BY <1>1, <2>1, FlatRuns
  <2> QED BY <1>2, <1>4, <2>2
<1> QED BY <1>3, <1>4

LEMMA FlatAppend ==
    ASSUME NEW S, NEW seqs \in Seq(Seq(S)), NEW x \in Seq(S)
    PROVE  FlattenSeq(Append(seqs, x)) = FlattenSeq(seqs) \o x /\ FlattenSeq(seqs) \in Seq(S)
<1> DEFINE N == Len(seqs) Q == Seq(S) whole == Append(seqs, x) h == FlatUpto(seqs) w == FlatUpto(whole)
<1>1. N \in Nat /\ whole \in Seq(Q) /\ Len(whole) = N + 1 /\ whole[N + 1] = x /\ \A i \in 1..N : whole[i] = seqs[i]
  OBVIOUS
<1>2. h = FlatUpto(seqs) /\ w = FlatUpto(whole)
  OBVIOUS
<1> HIDE DEF h, w, whole
<1>3. /\ FlattenSeq(seqs) = IF N = 0 THEN seqs ELSE h[N]
      /\ FlattenSeq(whole) = IF N + 1 = 0 THEN whole ELSE w[N + 1]
  BY <1>1, <1>2, FlatIs
<1>4. \A n \in 1..N : h[n] \in Q /\ h[n] = IF n = 1 THEN seqs[n] ELSE h[n-1] \o seqs[n]
  BY <1>2, FlatRuns
<1>5. \A n \in 1..(N+1) : w[n] \in Q /\ w[n] = IF n = 1 THEN whole[n] ELSE w[n-1] \o whole[n]
  <2>1. \A n \in 1..Len(whole) : w[n] \in Q /\ w[n] = IF n = 1 THEN whole[n] ELSE w[n-1] \o whole[n]
    <3>1. whole \in Seq(Q)
      BY <1>1
    <3> HIDE DEF N
    <3> QED BY <1>2, <3>1, FlatRuns
  <2>2. Len(whole) = N + 1
    BY <1>1
  <2> QED BY <2>1, <2>2
<1>6. w[N+1] = IF N = 0 THEN x ELSE w[N] \o x
  <2> DEFINE m == N + 1
  <2>1. m \in 1..(N+1) /\ (m = 1 <=> N = 0) /\ m - 1 = N /\ whole[m] = x
    BY <1>1
  <2> HIDE DEF m
  <2>2. w[m] = IF m = 1 THEN whole[m] ELSE w[m-1] \o whole[m]
    BY <1>5, <2>1
  <2>3. w[m] = IF N = 0 THEN x ELSE w[N] \o x
    BY <2>1, <2>2
  <2> QED BY <2>3 DEF m
<1>7. FlattenSeq(whole) = w[N+1]
  BY <1>1, <1>3
<1>8. CASE N = 0
  <2>1. FlattenSeq(seqs) = <<>>
    BY <1>3, <1>8
  <2>2. <<>> \o x = x /\ <<>> \in Seq(S)
    OBVIOUS
  <2>3. FlattenSeq(whole) = x
    BY <1>6, <1>7, <1>8
  <2> QED BY <2>1, <2>2, <2>3 DEF whole
<1>9. CASE N # 0
  <2> DEFINE T == {n \in 0..N : n # 0 => w[n] = h[n]}
  <2>1. 0 \in T
    BY <1>1
  <2>2. ASSUME NEW n \in 1..N, n - 1 \in T PROVE n \in T
    <3>1. n \in 0..N /\ n \in 1..(N+1) /\ whole[n] = seqs[n]
      BY <1>1
    <3>2. CASE n = 1
      <4>1. w[n] = whole[n]
        BY <1>5, <3>1, <3>2
      <4>2. h[n] = seqs[n]
        BY <1>4, <3>2
      <4> QED BY <3>1, <4>1, <4>2
    <3>3. CASE n # 1
      <4>1. n - 1 # 0
        BY <1>1, <3>3
      <4>2. w[n-1] = h[n-1]
        BY <2>2, <4>1
      <4>3. w[n] = w[n-1] \o whole[n]
        BY <1>5, <3>1, <3>3
      <4>4. h[n] = h[n-1] \o seqs[n]
        BY <1>4, <3>3
      <4> QED BY <3>1, <4>2, <4>3, <4>4
    <3> QED BY <3>2, <3>3
  <2> HIDE DEF T
  <2>3. \A n \in 1..N : n - 1 \in T => n \in T
    BY <2>2
  <2>4. \A n \in 0..N : n \in T
    BY <1>1, <2>1, <2>3, CountsUp
  <2>5. N \in 0..N /\ N \in 1..N
    BY <1>1, <1>9
  <2>6. w[N] = h[N] /\ h[N] \in Q
    BY <1>4, <1>9, <2>4, <2>5 DEF T
  <2>7. FlattenSeq(whole) = h[N] \o x /\ FlattenSeq(seqs) = h[N]
    BY <1>3, <1>6, <1>7, <1>9, <2>6
  <2> QED BY <2>6, <2>7 DEF whole
<1> QED BY <1>8, <1>9

\* one place more, behind the others
LEMMA PickedMore ==
    ASSUME NEW S, NEW s \in Seq(S), NEW P \in SUBSET DOMAIN s, NEW k \in DOMAIN s, \A i \in P : i < k
    PROVE  Picked(s, P \cup {k}) = Append(Picked(s, P), s[k])
<1> DEFINE N == Len(s) Q == P \cup {k} c == Cardinality(P) old == Picked(s, P) new == Picked(s, Q)
<1>0. DOMAIN s = 1..N /\ N \in Nat
  OBVIOUS
<1>1. IsFiniteSet(1..N) /\ k \notin P /\ Q \in SUBSET (1..N) /\ P \in SUBSET Nat /\ Q \in SUBSET Nat /\ k \in Q
  <2>1. IsFiniteSet(1..N)
    BY <1>0, FS_Interval
  <2>2. Q \in SUBSET (1..N) /\ k \in Q
    BY <1>0
  <2>3. 1..N \in SUBSET Nat
    OBVIOUS
  <2>4. k \notin P
    <3>1. k \in Nat
      BY <1>0
    <3>2. ~(k < k)
      BY <3>1
    <3> QED BY <3>2
  <2> QED BY <2>1, <2>2, <2>3, <2>4
<1>2. IsFiniteSet(P) /\ IsFiniteSet(Q) /\ c \in Nat
  BY <1>1, FS_Subset, FS_CardinalityType
<1>3. Cardinality(Q) = c + 1
  BY <1>1, <1>2, FS_AddElement
<1>4. Nth(Q, c + 1) = k
  <2>1. {j \in Q : j < k} = P
    OBVIOUS
  <2>2. Rank(Q, k) = c
    BY <2>1 DEF Rank
  <2> HIDE DEF Q
  <2>3. Nth(Q, Rank(Q, k) + 1) = k
    BY <1>1, <1>2, NthOfRank
  <2> QED BY <2>2, <2>3
<1>5. ASSUME NEW n \in 1..c PROVE Nth(Q, n) = Nth(P, n)
  <2> DEFINE i == Nth(P, n)
  <2>1. i \in P /\ Rank(P, i) = n - 1
    BY <1>1, <1>2, NthIs
  <2> HIDE DEF i
  <2>2. i \in Nat /\ k \in Nat /\ i < k /\ i \in Q
    BY <2>1
  <2>3. {j \in Q : j < i} = {j \in P : j < i}
    BY <2>2
  <2>4. Rank(Q, i) = n - 1
    BY <2>1, <2>3 DEF Rank
  <2>5. n - 1 + 1 = n
    BY <1>2
  <2> HIDE DEF Q
  <2>6. Nth(Q, Rank(Q, i) + 1) = i
    BY <1>1, <1>2, <2>2, NthOfRank
  <2> QED BY <2>4, <2>5, <2>6 DEF i
<1>6. old = [n \in 1..c |-> s[Nth(P, n)]] /\ new = [n \in 1..(c+1) |-> s[Nth(Q, n)]]
  BY <1>3 DEF Picked
<1>7. old \in Seq(S) /\ Len(old) = c /\ s[k] \in S
  BY <1>0, PickedIs
<1> DEFINE more == Append(old, s[k])
<1>8. more \in Seq(S) /\ DOMAIN more = 1..(c+1) /\ more[c+1] = s[k] /\ \A n \in 1..c : more[n] = old[n]
  <2> HIDE DEF old, c
  <2> QED BY <1>2, <1>7
<1> HIDE DEF Q, c, more
<1>9. ASSUME NEW n \in 1..(c+1) PROVE s[Nth(Q, n)] = more[n]
  <2>1. CASE n = c + 1
    BY <1>4, <1>8, <2>1
  <2>2. CASE n # c + 1
    <3>1. n \in 1..c
      BY <1>2, <2>2
    <3>2. old[n] = s[Nth(P, n)]
      BY <1>6, <3>1
    <3> QED BY <1>5, <1>8, <3>1, <3>2
  <2> QED BY <2>1, <2>2
<1>10. new = [n \in DOMAIN more |-> new[n]] /\ \A n \in DOMAIN more : new[n] = more[n]
  BY <1>6, <1>8, <1>9
<1> HIDE DEF new, old
<1>11. new = more
  BY <1>8, <1>10, SeqSame
<1> QED BY <1>11 DEF new, more, old, Q

\* how many of the first numbers are in a set
CountUpto(Q, n) == Cardinality((1..n) \cap Q)

LEMMA CountRises ==
    ASSUME NEW Q, NEW n \in Nat, n # 0
    PROVE  /\ CountUpto(Q, n) = CountUpto(Q, n - 1) + (IF n \in Q THEN 1 ELSE 0)
           /\ CountUpto(Q, n) \in Nat /\ CountUpto(Q, n - 1) \in Nat
<1> DEFINE S == (1..(n-1)) \cap Q R == (1..n) \cap Q
<1>1. R = (IF n \in Q THEN S \cup {n} ELSE S) /\ n \notin S
  <2>1. 1..n = (1..(n-1)) \cup {n} /\ n \notin 1..(n-1)
    OBVIOUS
  <2> QED BY <2>1
<1>2. IsFiniteSet(S)
  <2>1. IsFiniteSet(1..(n-1))
    <3>1. n - 1 \in Int /\ 1 \in Int
      OBVIOUS
    <3> QED BY <3>1, FS_Interval
  <2>2. S \in SUBSET (1..(n-1))
    OBVIOUS
  <2> QED BY <2>1, <2>2, FS_Subset
<1> HIDE DEF S, R
<1>3. Cardinality(S) \in Nat /\ Cardinality(S \cup {n}) = Cardinality(S) + 1
  BY <1>1, <1>2, FS_CardinalityType, FS_AddElement
<1> QED BY <1>1, <1>3 DEF CountUpto, S, R

LEMMA CountNone == \A Q : CountUpto(Q, 0) = 0
<1>1. \A Q : (1..0) \cap Q = {}
  OBVIOUS
<1> QED BY <1>1, FS_EmptySet DEF CountUpto

LEMMA CountSame ==
    ASSUME NEW Q, NEW R, NEW n \in Nat, \A m \in 1..n : m \in Q <=> m \in R
    PROVE  CountUpto(Q, n) = CountUpto(R, n)
<1>1. (1..n) \cap Q = (1..n) \cap R
  OBVIOUS
<1> QED BY <1>1 DEF CountUpto

LEMMA ConcatAppend ==
    ASSUME NEW S, NEW s \in Seq(S), NEW t \in Seq(S), NEW x \in S
    PROVE  s \o Append(t, x) = Append(s \o t, x)
<1> DEFINE a == Len(s) b == Len(t) u == Append(t, x) st == s \o t v == s \o u w == Append(st, x)
<1>1. a \in Nat /\ b \in Nat
  OBVIOUS
<1>2. u \in Seq(S) /\ Len(u) = b + 1 /\ u[b+1] = x /\ \A i \in 1..b : u[i] = t[i]
  OBVIOUS
<1>3. st \in Seq(S) /\ Len(st) = a + b /\ \A i \in 1..(a+b) : st[i] = IF i <= a THEN s[i] ELSE t[i-a]
  BY ConcatProperties
<1> HIDE DEF u
<1>4. v \in Seq(S) /\ Len(v) = a + (b + 1) /\ \A i \in 1..(a+(b+1)) : v[i] = IF i <= a THEN s[i] ELSE u[i-a]
  <2>1. /\ v \in Seq(S) /\ Len(v) = Len(s) + Len(u)
        /\ \A i \in 1..(Len(s) + Len(u)) : v[i] = IF i <= Len(s) THEN s[i] ELSE u[i - Len(s)]
    BY <1>2, ConcatProperties
  <2> HIDE DEF v, b
  <2>2. Len(u) = b + 1
    BY <1>2
  <2> QED BY <2>1, <2>2
<1> DEFINE c == a + b
<1>5. c \in Nat /\ a + (b + 1) = c + 1
  BY <1>1
<1> HIDE DEF st, v, c
<1>6. w \in Seq(S) /\ Len(w) = c + 1 /\ w[c+1] = x /\ \A i \in 1..c : w[i] = st[i]
  <2>1. Len(st) = c
    BY <1>3 DEF c
  <2> QED BY <1>3, <1>5, <2>1
<1> HIDE DEF w, a, b
<1>7. ASSUME NEW i \in 1..(c+1) PROVE v[i] = w[i]
  <2>1. CASE i = c + 1
    <3>1. ~(i <= a) /\ i - a = b + 1 /\ i \in 1..(a+(b+1))
      BY <1>1, <2>1 DEF c
    <3> QED BY <1>2, <1>4, <1>6, <2>1, <3>1
  <2>2. CASE i # c + 1
    <3>1. i \in 1..c /\ i \in 1..(a+b) /\ i \in 1..(a+(b+1))
      BY <1>1, <2>2 DEF c
    <3>2. CASE i <= a
      BY <1>3, <1>4, <1>6, <3>1, <3>2
    <3>3. CASE ~(i <= a)
      <4>1. i - a \in 1..b
        BY <1>1, <3>1, <3>3
      <4> QED BY <1>2, <1>3, <1>4, <1>6, <3>1, <3>3, <4>1
    <3> QED BY <3>2, <3>3
  <2> QED BY <2>1, <2>2
<1>8. v = w
  BY <1>4, <1>5, <1>6, <1>7, SeqEqual
<1> QED BY <1>8 DEF u, v, w, st

\* a sequence with another element at its end
LastAs(ts, x) == [ts EXCEPT ![Len(ts)] = x]

FrontsOf(S, ts) == {front \in Seq(S) : ts = Append(front, ts[Len(ts)]) /\ \A x \in S : LastAs(ts, x) = Append(front, x)}

LEMMA LastIs ==
    ASSUME NEW S, NEW ts \in Seq(S), ts # <<>>
    PROVE  FrontsOf(S, ts) # {}
<1> DEFINE N == Len(ts) front == [n \in 1..(N-1) |-> ts[n]]
<1>1. N \in Nat /\ N # 0 /\ DOMAIN ts = 1..N /\ ts[N] \in S /\ ts = [n \in 1..N |-> ts[n]]
  OBVIOUS
<1>2. front = [n \in 1..(N-1) |-> front[n]] /\ \A n \in 1..(N-1) : front[n] = ts[n] /\ front[n] \in S
  OBVIOUS
<1> HIDE DEF front, N
<1>3. front \in Seq(S) /\ Len(front) = N - 1
  <2>1. N - 1 \in Nat
    BY <1>1
  <2> DEFINE m == N - 1
  <2>2. \A n \in 1..m : front[n] \in S
    BY <1>2
  <2>3. front = [n \in 1..m |-> front[n]] /\ m \in Nat
    BY <1>2, <2>1
  <2> HIDE DEF m
  <2>4. front \in Seq(S) /\ Len(front) = m
    BY <2>2, <2>3, SeqBuilt
  <2> QED BY <2>4 DEF m
<1>4. ASSUME NEW x \in S, NEW new, new = [n \in 1..N |-> new[n]], \A n \in 1..N : new[n] = IF n = N THEN x ELSE ts[n]
      PROVE  new = Append(front, x)
  <2> DEFINE more == Append(front, x)
  <2>1. more \in Seq(S) /\ DOMAIN more = 1..N /\ more[N] = x /\ \A n \in 1..(N-1) : more[n] = front[n]
    BY <1>1, <1>3
  <2> HIDE DEF more
  <2>3. ASSUME NEW n \in 1..N PROVE new[n] = more[n]
    <3>1. CASE n = N
      BY <1>4, <2>1, <3>1
    <3>2. CASE n # N
      <4>1. n \in 1..(N-1)
        BY <1>1, <3>2
      <4> QED BY <1>2, <1>4, <2>1, <3>2, <4>1
    <3> QED BY <3>1, <3>2
  <2>4. new = more
    BY <1>4, <2>1, <2>3, SeqSame
  <2> QED BY <2>4 DEF more
<1>5. ts = Append(front, ts[N])
  <2>1. \A n \in 1..N : ts[n] = IF n = N THEN ts[N] ELSE ts[n]
    OBVIOUS
  <2> DEFINE x == ts[N]
  <2>2. x \in S /\ \A n \in 1..N : ts[n] = IF n = N THEN x ELSE ts[n]
    BY <1>1, <2>1
  <2> HIDE DEF x
  <2>3. ts = Append(front, x)
    BY <1>1, <1>4, <2>2
  <2> QED BY <2>3 DEF x
<1>6. ASSUME NEW x \in S PROVE LastAs(ts, x) = Append(front, x)
  <2> DEFINE new == LastAs(ts, x)
  <2>1. new = [n \in 1..N |-> new[n]] /\ \A n \in 1..N : new[n] = IF n = N THEN x ELSE ts[n]
    BY <1>1 DEF LastAs, N
  <2> HIDE DEF new
  <2>2. new = Append(front, x)
    BY <1>4, <2>1
  <2> QED BY <2>2 DEF new
<1>7. front \in FrontsOf(S, ts)
  BY <1>3, <1>5, <1>6 DEF N, FrontsOf
<1> QED BY <1>7

\* The sum of the values of f over a set, as the library works it out: an element is taken out, and so on.
SumStep(f, S, g) == [s \in SUBSET S |-> IF s = {} THEN 0 ELSE f[CHOOSE x \in s : TRUE] + g[s \ {CHOOSE x \in s : TRUE}]]

SumOver(f, S) == CHOOSE g : g = SumStep(f, S, g)

LEMMA SumIs == \A f, S : SumFunctionOnSet(f, S) = SumOver(f, S)[S]
BY DEF SumFunctionOnSet, FoldFunctionOnSet, MapThenFoldSet, SumOver, SumStep

SumTaken(f, s, g) == IF s = {} THEN 0 ELSE f[CHOOSE x \in s : TRUE] + g[s \ {CHOOSE x \in s : TRUE}]

LEMMA OneLess ==
    ASSUME NEW s, IsFiniteSet(s), NEW x \in s
    PROVE  IsFiniteSet(s \ {x}) /\ Cardinality(s) \in Nat /\ Cardinality(s \ {x}) \in Nat /\ Cardinality(s) # 0
           /\ Cardinality(s \ {x}) = Cardinality(s) - 1
<1>1. IsFiniteSet(s \ {x}) /\ Cardinality(s) \in Nat /\ Cardinality(s \ {x}) \in Nat
  BY FS_Subset, FS_CardinalityType
<1>2. Cardinality(s \ {x}) = Cardinality(s) - 1
  BY FS_RemoveElement
<1> QED BY <1>1, <1>2

LEMMA PartsCount ==
    ASSUME NEW S, IsFiniteSet(S), NEW s \in SUBSET S
    PROVE  IsFiniteSet(s) /\ Cardinality(s) \in 0..Cardinality(S) /\ (Cardinality(s) = 0 <=> s = {})
<1>1. IsFiniteSet(s) /\ Cardinality(s) <= Cardinality(S)
  BY FS_Subset
<1>2. Cardinality(s) \in Nat /\ Cardinality(S) \in Nat
  BY <1>1, FS_CardinalityType
<1>3. Cardinality(s) = 0 <=> s = {}
  BY <1>1, FS_EmptySet
<1> QED BY <1>1, <1>2, <1>3

LEMMA SumRuns ==
    ASSUME NEW S, IsFiniteSet(S), NEW f, \A x \in S : f[x] \in Nat, NEW h, h = SumOver(f, S)
    PROVE  \A s \in SUBSET S : h[s] = SumTaken(f, s, h) /\ h[s] \in Nat
<1> DEFINE N == Cardinality(S)
           Q == [SUBSET S -> Nat]
           zero == [s \in SUBSET S |-> 0]
           next(a, n) == [s \in SUBSET S |-> IF Cardinality(s) = n /\ s # {} THEN SumTaken(f, s, a) ELSE a[s]]
           step == [x \in Q \X (1..N) |-> next(x[1], x[2])]
<1>1. N \in Nat
  BY FS_CardinalityType
<1>2. zero \in Q
  OBVIOUS
<1>3. ASSUME NEW a \in Q, NEW s \in SUBSET S PROVE SumTaken(f, s, a) \in Nat
  <2>1. CASE s = {}
    BY <2>1 DEF SumTaken
  <2>2. CASE s # {}
    <3> DEFINE c == CHOOSE x \in s : TRUE
    <3>1. c \in s
      BY <2>2
    <3> HIDE DEF c
    <3>2. s \ {c} \in SUBSET S /\ f[c] \in Nat
      BY <3>1
    <3>3. a[s \ {c}] \in Nat
      BY <3>2
    <3>4. SumTaken(f, s, a) = f[c] + a[s \ {c}]
      BY <2>2 DEF SumTaken, c
    <3> QED BY <3>2, <3>3, <3>4
  <2> QED BY <2>1, <2>2
<1>4. step \in [Q \X (1..N) -> Q]
  <2>1. ASSUME NEW x \in Q \X (1..N) PROVE next(x[1], x[2]) \in Q
    <3>1. x[1] \in Q
      OBVIOUS
    <3> DEFINE a == x[1] n == x[2]
    <3>2. a \in Q
      BY <3>1
    <3> HIDE DEF a, n
    <3>3. ASSUME NEW s \in SUBSET S PROVE (IF Cardinality(s) = n /\ s # {} THEN SumTaken(f, s, a) ELSE a[s]) \in Nat
      <4>1. SumTaken(f, s, a) \in Nat
        BY <1>3, <3>2
      <4>2. a[s] \in Nat
        BY <3>2
      <4> QED BY <4>1, <4>2
    <3>4. next(a, n) \in Q
      BY <3>3
    <3> QED BY <3>4 DEF a, n
  <2> HIDE DEF Q, next
  <2> QED BY <2>1
<1>5. PICK a \in [0..N -> Q] : Accumulated(a, zero, step, N)
  <2> HIDE DEF Q, zero, step, N
  <2> QED BY <1>1, <1>2, <1>4, Accumulates
<1>6. ASSUME NEW n \in 1..N PROVE a[n] = next(a[n-1], n) /\ a[n-1] \in Q
  <2>1. n - 1 \in 0..N /\ n \in 0..N /\ n # 0
    BY <1>1
  <2>2. a[n-1] \in Q
    BY <2>1
  <2> HIDE DEF Q, N, next
  <2>3. a[n] = step[<<a[n-1], n>>]
    <3> HIDE DEF step
    <3> QED BY <1>5, <2>1 DEF Accumulated
  <2>4. step[<<a[n-1], n>>] = next(a[n-1], n)
    <3>1. <<a[n-1], n>> \in Q \X (1..N)
      BY <2>2
    <3> QED BY <3>1
  <2> QED BY <2>2, <2>3, <2>4
<1> HIDE DEF step, zero
<1> DEFINE g == [s \in SUBSET S |-> a[Cardinality(s)][s]]
<1>7. ASSUME NEW s \in SUBSET S, s # {} PROVE g[s] = SumTaken(f, s, g)
  <2> DEFINE n == Cardinality(s)
             c == CHOOSE x \in s : TRUE
  <2>1. n \in 1..N /\ IsFiniteSet(s)
    <3>1. IsFiniteSet(s) /\ n \in 0..N /\ n # 0
      BY <1>7, PartsCount
    <3> QED BY <1>1, <3>1
  <2>2. c \in s
    BY <1>7
  <2>3. SumTaken(f, s, a[n-1]) = f[c] + a[n-1][s \ {c}] /\ SumTaken(f, s, g) = f[c] + g[s \ {c}]
    BY <1>7 DEF SumTaken
  <2>4. g[s] = a[n][s]
    OBVIOUS
  <2>9. next(a[n-1], n)[s] = SumTaken(f, s, a[n-1])
    BY <1>7
  <2> HIDE DEF c
  <2>5. Cardinality(s \ {c}) = n - 1
    BY <2>1, <2>2, OneLess
  <2>6. s \ {c} \in SUBSET S
    OBVIOUS
  <2>7. g[s \ {c}] = a[n-1][s \ {c}]
    BY <2>5, <2>6
  <2>8. a[n][s] = SumTaken(f, s, a[n-1])
    <3> HIDE DEF n, next
    <3> QED BY <1>6, <2>1, <2>9
  <2> HIDE DEF g, n
  <2> QED BY <2>3, <2>4, <2>7, <2>8
<1>8. g[{}] = 0
  <2>1. {} \in SUBSET S /\ Cardinality({}) = 0
    BY FS_EmptySet
  <2>2. g[{}] = a[0][{}]
    BY <2>1
  <2>3. 0 \in 0..N
    BY <1>1
  <2>4. a[0] = zero
    BY <1>5, <2>3 DEF Accumulated
  <2> QED BY <2>1, <2>2, <2>4 DEF zero
<1>9. g = SumStep(f, S, g)
  <2>1. g = [s \in SUBSET S |-> g[s]]
    OBVIOUS
  <2> HIDE DEF g
  <2>2. \A s \in SUBSET S : g[s] = IF s = {} THEN 0 ELSE f[CHOOSE x \in s : TRUE] + g[s \ {CHOOSE x \in s : TRUE}]
    BY <1>7, <1>8 DEF SumTaken
  <2> QED BY <2>1, <2>2 DEF SumStep
<1> HIDE DEF g
<1>10. h = SumStep(f, S, h)
  BY <1>9 DEF SumOver
<1>11. \A s \in SUBSET S : h[s] = SumTaken(f, s, h)
  BY <1>10 DEF SumStep, SumTaken
<1> DEFINE T == {n \in 0..N : \A s \in SUBSET S : Cardinality(s) = n => h[s] \in Nat}
<1>12. 0 \in T
  <2>1. ASSUME NEW s \in SUBSET S, Cardinality(s) = 0 PROVE h[s] \in Nat
    <3>1. s = {}
      BY <2>1, PartsCount
    <3>2. SumTaken(f, s, h) = 0
      BY <3>1 DEF SumTaken
    <3> QED BY <1>11, <3>2
  <2>2. 0 \in 0..N
    BY <1>1
  <2> QED BY <2>1, <2>2
<1>13. ASSUME NEW n \in 1..N, n - 1 \in T PROVE n \in T
  <2>1. ASSUME NEW s \in SUBSET S, Cardinality(s) = n PROVE h[s] \in Nat
    <3> DEFINE c == CHOOSE x \in s : TRUE
    <3>1. IsFiniteSet(s) /\ s # {} /\ n # 0
      <4>1. IsFiniteSet(s) /\ (Cardinality(s) = 0 <=> s = {})
        BY PartsCount
      <4>2. n # 0
        BY <1>1
      <4> QED BY <2>1, <4>1, <4>2
    <3>2. c \in s
      BY <3>1
    <3>3. h[s] = f[c] + h[s \ {c}]
      BY <1>11, <3>1 DEF SumTaken
    <3> HIDE DEF c
    <3>4. Cardinality(s \ {c}) = n - 1 /\ s \ {c} \in SUBSET S /\ f[c] \in Nat
      BY <2>1, <3>1, <3>2, OneLess
    <3>5. h[s \ {c}] \in Nat
      BY <1>13, <3>4
    <3> QED BY <3>3, <3>4, <3>5
  <2>2. n \in 0..N
    BY <1>1
  <2> QED BY <2>1, <2>2
<1> HIDE DEF T
<1>14. \A n \in 1..N : n - 1 \in T => n \in T
  BY <1>13
<1>15. \A n \in 0..N : n \in T
  BY <1>1, <1>12, <1>14, CountsUp
<1>16. \A s \in SUBSET S : h[s] \in Nat
  <2> SUFFICES ASSUME NEW s \in SUBSET S PROVE h[s] \in Nat
    OBVIOUS
  <2>1. Cardinality(s) \in 0..N
    BY PartsCount
  <2>2. Cardinality(s) \in T
    BY <1>15, <2>1
  <2> QED BY <2>2 DEF T
<1> QED BY <1>11, <1>16

\* the set a sum is worked out over has no say in the sums over its parts
LEMMA SumOfPart ==
    ASSUME NEW S, IsFiniteSet(S), NEW R \in SUBSET S, NEW f, \A x \in S : f[x] \in Nat,
           NEW h, h = SumOver(f, S), NEW k, k = SumOver(f, R)
    PROVE  \A s \in SUBSET R : h[s] = k[s]
<1>1. IsFiniteSet(R) /\ \A x \in R : f[x] \in Nat
  BY FS_Subset
<1>2. \A s \in SUBSET S : h[s] = SumTaken(f, s, h)
  BY SumRuns
<1>3. \A s \in SUBSET R : k[s] = SumTaken(f, s, k)
  BY <1>1, SumRuns
<1> DEFINE N == Cardinality(R)
           T == {n \in 0..N : \A s \in SUBSET R : Cardinality(s) = n => h[s] = k[s]}
<1>4. N \in Nat
  BY <1>1, FS_CardinalityType
<1>5. 0 \in T
  <2>1. ASSUME NEW s \in SUBSET R, Cardinality(s) = 0 PROVE h[s] = k[s]
    <3>1. s = {} /\ s \in SUBSET S
      BY <1>1, <2>1, PartsCount
    <3> QED BY <1>2, <1>3, <3>1 DEF SumTaken
  <2>2. 0 \in 0..N
    BY <1>4
  <2> QED BY <2>1, <2>2
<1>6. ASSUME NEW n \in 1..N, n - 1 \in T PROVE n \in T
  <2>1. ASSUME NEW s \in SUBSET R, Cardinality(s) = n PROVE h[s] = k[s]
    <3> DEFINE c == CHOOSE x \in s : TRUE
    <3>1. IsFiniteSet(s) /\ s # {} /\ s \in SUBSET S
      <4>1. IsFiniteSet(s) /\ (Cardinality(s) = 0 <=> s = {})
        BY <1>1, PartsCount
      <4>2. n # 0
        BY <1>4
      <4> QED BY <2>1, <4>1, <4>2
    <3>2. c \in s
      BY <3>1
    <3>3. h[s] = f[c] + h[s \ {c}] /\ k[s] = f[c] + k[s \ {c}]
      BY <1>2, <1>3, <3>1 DEF SumTaken
    <3> HIDE DEF c
    <3>4. Cardinality(s \ {c}) = n - 1 /\ s \ {c} \in SUBSET R
      BY <2>1, <3>1, <3>2, OneLess
    <3>5. h[s \ {c}] = k[s \ {c}]
      BY <1>6, <3>4
    <3> QED BY <3>3, <3>5
  <2>2. n \in 0..N
    BY <1>4
  <2> QED BY <2>1, <2>2
<1> HIDE DEF T
<1>7. \A n \in 1..N : n - 1 \in T => n \in T
  BY <1>6
<1>8. \A n \in 0..N : n \in T
  BY <1>4, <1>5, <1>7, CountsUp
<1> SUFFICES ASSUME NEW s \in SUBSET R PROVE h[s] = k[s]
  OBVIOUS
<1>9. Cardinality(s) \in 0..N
  BY <1>1, PartsCount
<1>10. Cardinality(s) \in T
  BY <1>8, <1>9
<1> QED BY <1>10 DEF T

\* the order in which the elements are taken does not matter
LEMMA AnyFirst ==
    ASSUME NEW S, IsFiniteSet(S), NEW f, \A x \in S : f[x] \in Nat, NEW h, h = SumOver(f, S)
    PROVE  \A s \in SUBSET S : \A x \in s : h[s] = f[x] + h[s \ {x}]
<1>1. \A s \in SUBSET S : h[s] = SumTaken(f, s, h) /\ h[s] \in Nat
  BY SumRuns
<1> DEFINE N == Cardinality(S)
           T == {n \in 0..N : \A s \in SUBSET S : Cardinality(s) = n => \A x \in s : h[s] = f[x] + h[s \ {x}]}
<1>2. N \in Nat
  BY FS_CardinalityType
<1>3. 0 \in T
  <2>1. ASSUME NEW s \in SUBSET S, Cardinality(s) = 0 PROVE s = {}
    BY <2>1, PartsCount
  <2>2. 0 \in 0..N
    BY <1>2
  <2> QED BY <2>1, <2>2
<1>4. ASSUME NEW n \in 1..N, n - 1 \in T PROVE n \in T
  <2>1. ASSUME NEW s \in SUBSET S, Cardinality(s) = n, NEW x \in s PROVE h[s] = f[x] + h[s \ {x}]
    <3> DEFINE c == CHOOSE y \in s : TRUE
    <3>1. IsFiniteSet(s) /\ s # {} /\ c \in s
      BY PartsCount
    <3>2. h[s] = f[c] + h[s \ {c}]
      BY <1>1, <3>1 DEF SumTaken
    <3> HIDE DEF c
    <3>3. CASE x = c
      BY <3>2, <3>3
    <3>4. CASE x # c
      <4>1. s \ {c} \in SUBSET S /\ s \ {x} \in SUBSET S /\ x \in s \ {c} /\ c \in s \ {x} /\ (s \ {c}) \ {x} = (s \ {x}) \ {c}
        BY <3>1, <3>4
      <4>2. Cardinality(s \ {c}) = n - 1 /\ Cardinality(s \ {x}) = n - 1
        BY <2>1, <3>1, OneLess
      <4>3. h[s \ {c}] = f[x] + h[(s \ {c}) \ {x}]
        BY <1>4, <4>1, <4>2
      <4>4. h[s \ {x}] = f[c] + h[(s \ {x}) \ {c}]
        BY <1>4, <4>1, <4>2
      <4> DEFINE rest == (s \ {x}) \ {c}
      <4>5. rest \in SUBSET S /\ rest = (s \ {c}) \ {x}
        BY <4>1
      <4>6. h[rest] \in Nat /\ f[c] \in Nat /\ f[x] \in Nat
        BY <1>1, <3>1, <4>5
      <4>7. h[s \ {c}] = f[x] + h[rest] /\ h[s \ {x}] = f[c] + h[rest]
        BY <4>3, <4>4, <4>5
      <4> HIDE DEF rest
      <4> QED BY <3>2, <4>6, <4>7
    <3> QED BY <3>3, <3>4
  <2>2. n \in 0..N
    BY <1>2
  <2> QED BY <2>1, <2>2
<1> HIDE DEF T
<1>5. \A n \in 1..N : n - 1 \in T => n \in T
  BY <1>4
<1>6. \A n \in 0..N : n \in T
  BY <1>2, <1>3, <1>5, CountsUp
<1> SUFFICES ASSUME NEW s \in SUBSET S PROVE \A x \in s : h[s] = f[x] + h[s \ {x}]
  OBVIOUS
<1>7. Cardinality(s) \in 0..N
  BY PartsCount
<1>8. Cardinality(s) \in T
  BY <1>6, <1>7
<1> QED BY <1>8 DEF T

\* a sum over a set is that over all but one of its elements, and that one
LEMMA SumSplits ==
    ASSUME NEW S, IsFiniteSet(S), NEW f, \A x \in S : f[x] \in Nat, NEW x \in S
    PROVE  SumFunctionOnSet(f, S) = f[x] + SumFunctionOnSet(f, S \ {x}) /\ SumFunctionOnSet(f, S \ {x}) \in Nat
<1> DEFINE R == S \ {x} h == SumOver(f, S) k == SumOver(f, R)
<1>1. R \in SUBSET S /\ S \in SUBSET S /\ R \in SUBSET R
  OBVIOUS
<1>2. SumFunctionOnSet(f, S) = h[S] /\ SumFunctionOnSet(f, R) = k[R]
  BY SumIs
<1>3. h[S] = f[x] + h[S \ {x}]
  <2> HIDE DEF R, k
  <2>1. h = SumOver(f, S)
    OBVIOUS
  <2> HIDE DEF h
  <2> QED BY <1>1, <2>1, AnyFirst
<1>0. h = SumOver(f, S) /\ k = SumOver(f, R)
  OBVIOUS
<1>4. h[R] = k[R]
  <2> HIDE DEF h, k, R
  <2> QED BY <1>0, <1>1, SumOfPart
<1>5. h[R] \in Nat
  <2> HIDE DEF h, k, R
  <2> QED BY <1>0, <1>1, SumRuns
<1> QED BY <1>2, <1>3, <1>4, <1>5

LEMMA SumOfNone == \A f : SumFunctionOnSet(f, {}) = 0
<1> SUFFICES ASSUME NEW f PROVE SumFunctionOnSet(f, {}) = 0
  OBVIOUS
<1> DEFINE h == SumOver(f, {})
<1>1. IsFiniteSet({}) /\ {} \in SUBSET {}
  BY FS_EmptySet
<1>2. h[{}] = SumTaken(f, {}, h)
  <2>1. h = SumOver(f, {}) /\ \A x \in {} : f[x] \in Nat
    OBVIOUS
  <2> HIDE DEF h
  <2> QED BY <1>1, <2>1, SumRuns
<1>3. SumFunctionOnSet(f, {}) = h[{}]
  BY SumIs
<1> QED BY <1>2, <1>3 DEF SumTaken

\* numbers added up, from none again where it is said
AddsUp(h, c, again, N) == h[0] = 0 /\ \A n \in 1..N : h[n] = (IF n \in again THEN 0 ELSE h[n-1]) + c[n]

LEMMA Added ==
    ASSUME NEW N \in Nat, NEW c, \A n \in 1..N : c[n] \in Nat, NEW again
    PROVE  \E h \in [0..N -> Nat] : AddsUp(h, c, again, N)
<1> DEFINE step == [x \in Nat \X (1..N) |-> (IF x[2] \in again THEN 0 ELSE x[1]) + c[x[2]]]
<1>1. step \in [Nat \X (1..N) -> Nat]
  <2>1. ASSUME NEW x \in Nat \X (1..N) PROVE (IF x[2] \in again THEN 0 ELSE x[1]) + c[x[2]] \in Nat
    <3>1. x[1] \in Nat /\ x[2] \in 1..N
      OBVIOUS
    <3>2. c[x[2]] \in Nat /\ 0 \in Nat
      BY <3>1
    <3> QED BY <3>1, <3>2
  <2> QED BY <2>1
<1>2. PICK h \in [0..N -> Nat] : Accumulated(h, 0, step, N)
  <2>1. 0 \in Nat
    OBVIOUS
  <2> HIDE DEF step
  <2> QED BY <1>1, <2>1, Accumulates
<1>3. \A n \in 0..N : h[n] = IF n = 0 THEN 0 ELSE step[<<h[n-1], n>>]
  BY <1>2 DEF Accumulated
<1>4. ASSUME NEW n \in 1..N PROVE step[<<h[n-1], n>>] = (IF n \in again THEN 0 ELSE h[n-1]) + c[n]
  <2>1. n - 1 \in 0..N
    OBVIOUS
  <2>2. <<h[n-1], n>> \in Nat \X (1..N)
    BY <1>2, <2>1
  <2> QED BY <2>2
<1> HIDE DEF step
<1>5. 0 \in 0..N /\ \A n \in 1..N : n \in 0..N /\ n # 0
  OBVIOUS
<1>6. h[0] = 0
  BY <1>3, <1>5
<1>7. \A n \in 1..N : h[n] = (IF n \in again THEN 0 ELSE h[n-1]) + c[n]
  BY <1>3, <1>4, <1>5
<1> QED BY <1>6, <1>7 DEF AddsUp

\* Where each of the sequences ends when they are put one after the other
Laid(seqs, off, t) ==
    /\ off[0] = 0 /\ Len(t) = off[Len(seqs)]
    /\ \A n \in 1..Len(seqs) : off[n] = off[n-1] + Len(seqs[n])
    /\ \A n \in 1..Len(seqs) : \A m \in 1..Len(seqs[n]) : t[off[n-1] + m] = seqs[n][m]

LEMMA EndsRise ==
    ASSUME NEW S, NEW seqs \in Seq(Seq(S)), NEW off \in [0..Len(seqs) -> Nat],
           \A n \in 1..Len(seqs) : off[n] = off[n-1] + Len(seqs[n]),
           NEW k \in 0..Len(seqs)
    PROVE  \A n \in k..Len(seqs) : off[k] <= off[n]
<1> DEFINE N == Len(seqs)
           T == {n \in 0..N : n >= k => off[k] <= off[n]}
<1>0. N \in Nat /\ k \in Nat /\ off[k] \in Nat /\ \A n \in 1..N : seqs[n] \in Seq(S) /\ Len(seqs[n]) \in Nat
  <2>1. N \in Nat /\ \A n \in 1..N : seqs[n] \in Seq(S)
    OBVIOUS
  <2>2. \A q \in Seq(S) : Len(q) \in Nat
    OBVIOUS
  <2> QED BY <2>1, <2>2
<1>1. 0 \in T
  BY <1>0
<1>2. ASSUME NEW n \in 1..N, n - 1 \in T PROVE n \in T
  <2>1. /\ off[n] = off[n-1] + Len(seqs[n]) /\ Len(seqs[n]) \in Nat /\ off[n] \in Nat /\ off[n-1] \in Nat
        /\ n \in 0..N /\ n - 1 \in 0..N /\ n \in Nat
    <3>1. n \in 0..N /\ n - 1 \in 0..N /\ n \in Nat /\ Len(seqs[n]) \in Nat
      BY <1>0
    <3>2. off[n] = off[n-1] + Len(seqs[n])
      OBVIOUS
    <3> QED BY <3>1, <3>2
  <2>2. CASE n - 1 >= k
    BY <1>0, <1>2, <2>1, <2>2
  <2>3. CASE n = k
    BY <1>0, <2>1, <2>3
  <2>4. CASE n < k
    BY <1>0, <2>1, <2>4
  <2> QED BY <1>0, <2>1, <2>2, <2>3, <2>4
<1> HIDE DEF T
<1>3. \A n \in 1..N : n - 1 \in T => n \in T
  BY <1>2
<1> HIDE DEF N
<1>4. \A n \in 0..N : n \in T
  BY <1>0, <1>1, <1>3, CountsUp
<1>5. ASSUME NEW n \in k..N PROVE off[k] <= off[n]
  <2>1. n \in T /\ n >= k
    BY <1>0, <1>4
  <2> QED BY <2>1 DEF T
<1> QED BY <1>5 DEF N

LEMMA FlatLaid ==
    ASSUME NEW S, NEW seqs \in Seq(Seq(S)), NEW t, t = FlattenSeq(seqs)
    PROVE  t \in Seq(S) /\ \E off \in [0..Len(seqs) -> Nat] : Laid(seqs, off, t)
<1> DEFINE N == Len(seqs)
           Q == Seq(S)
           c == [n \in 1..N |-> Len(seqs[n])]
           h == FlatUpto(seqs)
<1>0. N \in Nat /\ DOMAIN seqs = 1..N /\ \A n \in 1..N : seqs[n] \in Seq(S) /\ Len(seqs[n]) \in Nat
  <2>1. N \in Nat /\ DOMAIN seqs = 1..N /\ \A n \in 1..N : seqs[n] \in Q
    OBVIOUS
  <2>2. \A q \in Q : Len(q) \in Nat
    OBVIOUS
  <2> QED BY <2>1, <2>2 DEF Q
<1>1. t \in Seq(S)
  BY FlattenIs
<1>2. \A n \in 1..N : c[n] = Len(seqs[n]) /\ c[n] \in Nat
  BY <1>0
<1> HIDE DEF c
<1>3. PICK off \in [0..N -> Nat] : AddsUp(off, c, {}, N)
  BY <1>0, <1>2, Added
<1>4. off[0] = 0 /\ \A n \in 1..N : off[n] = off[n-1] + Len(seqs[n])
  BY <1>2, <1>3 DEF AddsUp
<1>5. \A n \in 1..N : h[n] \in Seq(S) /\ h[n] = IF n = 1 THEN seqs[n] ELSE h[n-1] \o seqs[n]
  BY FlatRuns
<1>6. t = IF N = 0 THEN seqs ELSE h[N]
  BY FlatIs
<1> HIDE DEF h, N
<1> DEFINE Fits(n) == /\ Len(h[n]) = off[n]
                      /\ \A k \in 1..n : \A m \in 1..Len(seqs[k]) : h[n][off[k-1] + m] = seqs[k][m]
           T == {n \in 0..N : n = 0 \/ Fits(n)}
<1>7. 0 \in T
  BY <1>0
<1>8. ASSUME NEW n \in 1..N, n - 1 \in T PROVE n \in T
  <2>0. n \in 0..N /\ n \in Nat /\ n # 0 /\ n - 1 \in 0..N /\ off[n-1] \in Nat /\ off[n] \in Nat
    BY <1>0, <1>3
  <2>1. off[n] = off[n-1] + Len(seqs[n]) /\ seqs[n] \in Seq(S) /\ Len(seqs[n]) \in Nat
    BY <1>0, <1>4
  <2>2. CASE n = 1
    <3>1. h[n] = seqs[n]
      BY <1>5, <2>2
    <3>2. off[n-1] = 0
      BY <1>4, <2>2
    <3>3. \A k \in 1..n : k = n
      BY <2>2
    <3>4. \A m \in 1..Len(seqs[n]) : off[n-1] + m = m
      BY <2>1, <3>2
    <3>6. Len(h[n]) = off[n]
      BY <2>1, <3>1, <3>2
    <3>7. ASSUME NEW k \in 1..n, NEW m \in 1..Len(seqs[k]) PROVE h[n][off[k-1] + m] = seqs[k][m]
      <4>1. k = n
        BY <3>3
      <4>2. m \in 1..Len(seqs[n]) /\ off[k-1] + m = m
        BY <3>4, <4>1
      <4> QED BY <3>1, <4>1, <4>2
    <3>5. Fits(n)
      BY <3>6, <3>7
    <3> QED BY <2>0, <3>5
  <2>3. CASE n # 1
    <3> DEFINE p == h[n-1]
               q == seqs[n]
    <3>0. n - 1 \in 1..N /\ n - 1 # 0
      BY <1>0, <2>3
    <3>1. h[n] = p \o q /\ p \in Seq(S)
      BY <1>5, <2>3, <3>0
    <3>2. Len(p) = off[n-1] /\ \A k \in 1..(n-1) : \A m \in 1..Len(seqs[k]) : p[off[k-1] + m] = seqs[k][m]
      BY <1>8, <3>0
    <3>3. Len(h[n]) = off[n]
      <4>0. q = seqs[n]
        OBVIOUS
      <4> HIDE DEF p, q
      <4>1. Len(p \o q) = Len(p) + Len(q)
        BY <2>1, <3>1, <4>0
      <4>2. Len(h[n]) = Len(p) + Len(q)
        BY <3>1, <4>1
      <4> QED BY <2>1, <3>2, <4>0, <4>2
    <3>4. ASSUME NEW k \in 1..n, NEW m \in 1..Len(seqs[k]) PROVE h[n][off[k-1] + m] = seqs[k][m]
      <4>0. k \in 1..N /\ k - 1 \in 0..N /\ off[k-1] \in Nat /\ Len(seqs[k]) \in Nat /\ m \in Nat /\ m # 0
        BY <1>0, <1>3, <2>0
      <4>1. CASE k = n
        <5>1. off[n-1] + m = Len(p) + m /\ m \in 1..Len(q)
          BY <3>2, <3>4, <4>1
        <5> HIDE DEF p, q
        <5>2. (p \o q)[Len(p) + m] = q[m]
          BY <2>1, <3>1, <5>1 DEF q
        <5> QED BY <3>1, <4>1, <5>1, <5>2 DEF q
      <4>2. CASE k # n
        <5>1. k \in 1..(n-1)
          BY <2>0, <4>0, <4>2
        <5>2. off[k] = off[k-1] + Len(seqs[k])
          BY <1>4, <4>0
        <5>3. p[off[k-1] + m] = seqs[k][m]
          BY <3>2, <5>1
        <5>4. off[k-1] + m \in 1..Len(p)
          <6>1. off[k] <= off[n-1]
            <7>1. n - 1 \in k..N
              BY <1>0, <2>0, <5>1
            <7>2. k \in 0..N /\ \A i \in 1..N : off[i] = off[i-1] + Len(seqs[i])
              BY <1>0, <1>4, <4>0
            <7> QED BY <7>1, <7>2, EndsRise DEF N
          <6>2. Len(p) = off[n-1]
            BY <3>2
          <6> QED BY <2>0, <4>0, <5>2, <6>1, <6>2
        <5> HIDE DEF p, q
        <5>5. (p \o q)[off[k-1] + m] = p[off[k-1] + m]
          BY <2>1, <3>1, <5>4 DEF q
        <5> QED BY <3>1, <5>3, <5>5
      <4> QED BY <4>1, <4>2
    <3>5. Fits(n)
      BY <3>3, <3>4
    <3> QED BY <2>0, <3>5
  <2> QED BY <2>2, <2>3
<1> HIDE DEF T
<1>9. \A n \in 1..N : n - 1 \in T => n \in T
  BY <1>8
<1>10. \A n \in 0..N : n \in T
  BY <1>0, <1>7, <1>9, CountsUp
<1>11. N \in T /\ N \in 0..N
  BY <1>0, <1>10
<1>12. CASE N = 0
  <2>1. t = seqs /\ Len(t) = off[N] /\ \A n \in 1..N : FALSE
    BY <1>4, <1>6, <1>12 DEF N
  <2>2. Laid(seqs, off, t)
    BY <1>4, <2>1 DEF Laid, N
  <2> QED BY <1>1, <2>2 DEF N
<1>13. CASE N # 0
  <2>1. t = h[N] /\ Fits(N)
    BY <1>6, <1>11, <1>13 DEF T
  <2>2. Laid(seqs, off, t)
    BY <1>4, <2>1 DEF Laid, N
  <2> QED BY <1>1, <2>2 DEF N
<1> QED BY <1>12, <1>13

\* of every place, the sequence it comes from and the place there
Numbered(seqs, t, blk, plc) ==
    /\ \A p \in DOMAIN t : blk[p] \in 1..Len(seqs) /\ plc[p] \in 1..Len(seqs[blk[p]]) /\ t[p] = seqs[blk[p]][plc[p]]
    /\ \A p, q \in DOMAIN t : p < q => blk[p] < blk[q] \/ (blk[p] = blk[q] /\ plc[p] < plc[q])
    /\ \A n \in 1..Len(seqs) : \A m \in 1..Len(seqs[n]) : \E p \in DOMAIN t : blk[p] = n /\ plc[p] = m

LEMMA FlatPlaces ==
    ASSUME NEW S, NEW seqs \in Seq(Seq(S)), NEW t, t = FlattenSeq(seqs)
    PROVE  t \in Seq(S) /\ \E blk, plc : Numbered(seqs, t, blk, plc)
<1> DEFINE N == Len(seqs)
<1>1. t \in Seq(S) /\ \E off \in [0..N -> Nat] : Laid(seqs, off, t)
  BY FlatLaid
<1>2. PICK off \in [0..N -> Nat] : Laid(seqs, off, t)
  BY <1>1
<1>0. N \in Nat /\ Len(t) \in Nat /\ DOMAIN t = 1..Len(t) /\ \A n \in 1..N : Len(seqs[n]) \in Nat
  <2>1. N \in Nat /\ \A n \in 1..N : seqs[n] \in Seq(S)
    OBVIOUS
  <2>2. \A q \in Seq(S) : Len(q) \in Nat
    OBVIOUS
  <2> QED BY <1>1, <2>1, <2>2
<1>3. /\ off[0] = 0 /\ Len(t) = off[N]
      /\ \A n \in 1..N : off[n] = off[n-1] + Len(seqs[n])
      /\ \A n \in 1..N : \A m \in 1..Len(seqs[n]) : t[off[n-1] + m] = seqs[n][m]
  BY <1>2 DEF Laid
<1>4. \A k, n \in 0..N : k <= n => off[k] <= off[n]
  <2> SUFFICES ASSUME NEW k \in 0..N, NEW n \in 0..N, k <= n PROVE off[k] <= off[n]
    OBVIOUS
  <2>1. n \in k..N
    BY <1>0
  <2> QED BY <1>3, <2>1, EndsRise
<1> HIDE DEF N
<1> DEFINE At(p, n, m) == n \in 1..N /\ m \in 1..Len(seqs[n]) /\ p = off[n-1] + m
<1>5. ASSUME NEW p \in 1..Len(t) PROVE \E n, m : At(p, n, m)
  <2> DEFINE E == {n \in 0..N : p <= off[n]}
  <2>1. N \in E /\ E \in SUBSET Nat /\ 0 \notin E
    BY <1>0, <1>3
  <2> HIDE DEF E
  <2>2. PICK n \in E : \A k \in E : n <= k
    BY <2>1, LeastNumber
  <2>3. n \in 1..N /\ n - 1 \in 0..N /\ n \in Nat /\ n - 1 \in Nat
    <3>1. n \in 0..N
      BY DEF E
    <3>2. n # 0
      BY <2>1
    <3> QED BY <1>0, <3>1, <3>2
  <2>4. n - 1 \notin E
    BY <2>2, <2>3
  <2>5. off[n-1] < p /\ p <= off[n] /\ off[n-1] \in Nat /\ off[n] \in Nat /\ p \in Nat
    BY <1>0, <2>3, <2>4 DEF E
  <2>6. off[n] = off[n-1] + Len(seqs[n]) /\ Len(seqs[n]) \in Nat
    BY <1>0, <1>3, <2>3
  <2>7. p - off[n-1] \in 1..Len(seqs[n]) /\ p = off[n-1] + (p - off[n-1])
    BY <2>5, <2>6
  <2>8. At(p, n, p - off[n-1])
    BY <2>3, <2>7
  <2> QED BY <2>8
<1>6. ASSUME NEW p, NEW n, NEW m, At(p, n, m)
      PROVE  /\ n \in Nat /\ m \in Nat /\ off[n-1] \in Nat /\ off[n] \in Nat /\ n - 1 \in 0..N /\ n \in 0..N
             /\ off[n-1] < p /\ p <= off[n] /\ p \in 1..Len(t) /\ t[p] = seqs[n][m]
  <2>1. n \in 1..N /\ m \in 1..Len(seqs[n]) /\ p = off[n-1] + m
    BY <1>6
  <2>2. n \in Nat /\ n - 1 \in 0..N /\ n \in 0..N /\ N \in 0..N /\ off[n-1] \in Nat /\ off[n] \in Nat /\ off[N] \in Nat
    BY <1>0, <2>1
  <2>3. off[n] = off[n-1] + Len(seqs[n]) /\ Len(seqs[n]) \in Nat
    BY <1>0, <1>3, <2>1
  <2>4. off[n] <= off[N]
    <3>1. n <= N
      BY <1>0, <2>1
    <3> QED BY <1>4, <2>2, <3>1
  <2>5. t[p] = seqs[n][m]
    BY <1>3, <2>1
  <2>6. m \in Nat /\ m # 0 /\ m <= Len(seqs[n])
    BY <2>1, <2>3
  <2>7. off[n-1] < p /\ p <= off[n]
    BY <2>1, <2>2, <2>3, <2>6
  <2>8. p \in 1..Len(t)
    BY <1>3, <2>1, <2>2, <2>4, <2>6, <2>7
  <2> QED BY <2>2, <2>5, <2>6, <2>7, <2>8
<1>7. ASSUME NEW p, NEW n, NEW m, At(p, n, m), NEW q, NEW k, NEW l, At(q, k, l), p <= q
      PROVE  n < k \/ (n = k /\ m <= l /\ (p < q => m < l) /\ (p = q => m = l))
  <2>1. /\ n \in Nat /\ m \in Nat /\ off[n-1] \in Nat /\ off[n] \in Nat /\ n - 1 \in 0..N /\ n \in 0..N
        /\ off[n-1] < p /\ p <= off[n] /\ p \in 1..Len(t)
    BY <1>6, <1>7
  <2>2. /\ k \in Nat /\ l \in Nat /\ off[k-1] \in Nat /\ off[k] \in Nat /\ k - 1 \in 0..N /\ k \in 0..N
        /\ off[k-1] < q /\ q <= off[k] /\ q \in 1..Len(t)
    BY <1>6, <1>7
  <2>3. CASE k < n
    <3>1. k <= n - 1
      BY <2>1, <2>2, <2>3
    <3>2. off[k] <= off[n-1]
      BY <1>4, <2>1, <2>2, <3>1
    <3> QED BY <1>0, <1>7, <2>1, <2>2, <3>2
  <2>4. CASE k = n
    <3>1. p = off[n-1] + m /\ q = off[n-1] + l
      BY <1>7, <2>4
    <3> QED BY <1>7, <2>1, <2>2, <2>4, <3>1
  <2> QED BY <2>1, <2>2, <2>3, <2>4
<1> DEFINE blk == [p \in 1..Len(t) |-> CHOOSE n : \E m : At(p, n, m)]
           plc == [p \in 1..Len(t) |-> CHOOSE m : At(p, blk[p], m)]
<1>8. ASSUME NEW p \in 1..Len(t) PROVE At(p, blk[p], plc[p])
  <2> HIDE DEF At
  <2>1. \E i : At(p, CHOOSE n : \E m : At(p, n, m), i)
    BY <1>5
  <2>2. \E m : At(p, blk[p], m)
    BY <2>1
  <2> HIDE DEF blk
  <2>3. At(p, blk[p], CHOOSE m : At(p, blk[p], m))
    BY <2>2
  <2> QED BY <2>3
<1> HIDE DEF blk, plc
<1>9. ASSUME NEW p \in 1..Len(t), NEW q \in 1..Len(t), p < q
      PROVE  blk[p] < blk[q] \/ (blk[p] = blk[q] /\ plc[p] < plc[q])
  <2>1. At(p, blk[p], plc[p]) /\ At(q, blk[q], plc[q])
    BY <1>8
  <2>2. p <= q
    BY <1>0, <1>9
  <2> HIDE DEF At
  <2> QED BY <1>7, <1>9, <2>1, <2>2
<1>10. ASSUME NEW n \in 1..N, NEW m \in 1..Len(seqs[n]) PROVE \E p \in 1..Len(t) : blk[p] = n /\ plc[p] = m
  <2> DEFINE p == off[n-1] + m
  <2>1. At(p, n, m)
    OBVIOUS
  <2> HIDE DEF p
  <2>2. p \in 1..Len(t) /\ n \in Nat /\ m \in Nat
    BY <1>6, <2>1
  <2>3. At(p, blk[p], plc[p])
    BY <1>8, <2>2
  <2>4. blk[p] \in Nat /\ plc[p] \in Nat
    BY <1>6, <2>3
  <2>5. p <= p
    BY <1>0, <2>2
  <2> HIDE DEF At
  <2>6. n < blk[p] \/ (n = blk[p] /\ m = plc[p])
    BY <1>7, <2>1, <2>3, <2>5
  <2>7. blk[p] < n \/ n = blk[p]
    BY <1>7, <2>1, <2>3, <2>5
  <2> QED BY <2>2, <2>4, <2>6, <2>7
<1>11. ASSUME NEW p \in 1..Len(t) PROVE blk[p] \in 1..N /\ plc[p] \in 1..Len(seqs[blk[p]]) /\ t[p] = seqs[blk[p]][plc[p]]
  <2>1. At(p, blk[p], plc[p])
    BY <1>8
  <2>2. blk[p] \in 1..N /\ plc[p] \in 1..Len(seqs[blk[p]])
    BY <2>1
  <2> HIDE DEF At
  <2>3. t[p] = seqs[blk[p]][plc[p]]
    BY <1>6, <2>1
  <2> QED BY <2>2, <2>3
<1>12. Numbered(seqs, t, blk, plc)
  <2>1. \A p \in DOMAIN t : blk[p] \in 1..N /\ plc[p] \in 1..Len(seqs[blk[p]]) /\ t[p] = seqs[blk[p]][plc[p]]
    BY <1>0, <1>11
  <2>2. \A p, q \in DOMAIN t : p < q => blk[p] < blk[q] \/ (blk[p] = blk[q] /\ plc[p] < plc[q])
    BY <1>0, <1>9
  <2>3. \A n \in 1..N : \A m \in 1..Len(seqs[n]) : \E p \in DOMAIN t : blk[p] = n /\ plc[p] = m
    BY <1>0, <1>10
  <2> QED BY <2>1, <2>2, <2>3 DEF Numbered, N
<1> QED BY <1>1, <1>12

\* t has what is at the places P of s, each once
Takes(t, s, P, at) ==
    /\ \A n \in DOMAIN t : at[n] \in P /\ t[n] = s[at[n]]
    /\ \A n, m \in DOMAIN t : at[n] = at[m] => n = m
    /\ \A i \in P : \E n \in DOMAIN t : at[n] = i

LEMMA PickedTakes ==
    ASSUME NEW S, NEW s \in Seq(S), NEW P \in SUBSET DOMAIN s, NEW t, t = Picked(s, P)
    PROVE  t \in Seq(S) /\ \E at : Takes(t, s, P, at)
<1>1. /\ t \in Seq(S) /\ \A n \in DOMAIN t : Nth(P, n) \in P /\ t[n] = s[Nth(P, n)]
      /\ \A i \in P : \E n \in DOMAIN t : Nth(P, n) = i
      /\ \A n, m \in DOMAIN t : n < m => Nth(P, n) < Nth(P, m)
  BY PickedIs
<1> DEFINE at == [n \in DOMAIN t |-> Nth(P, n)]
<1>2. \A n \in DOMAIN t : at[n] = Nth(P, n)
  OBVIOUS
<1> HIDE DEF at
<1>3. ASSUME NEW n \in DOMAIN t, NEW m \in DOMAIN t, at[n] = at[m] PROVE n = m
  <2>1. n \in Nat /\ m \in Nat /\ at[n] \in Nat
    <3>1. at[n] \in DOMAIN s /\ DOMAIN s \in SUBSET Nat /\ DOMAIN t \in SUBSET Nat
      BY <1>1, <1>2
    <3> QED BY <3>1
  <2>2. ~(n < m) /\ ~(m < n)
    <3>1. ~(Nth(P, n) < Nth(P, m)) /\ ~(Nth(P, m) < Nth(P, n))
      BY <1>2, <1>3, <2>1
    <3> QED BY <1>1, <3>1
  <2> QED BY <2>1, <2>2
<1>4. Takes(t, s, P, at)
  <2>1. \A n \in DOMAIN t : at[n] \in P /\ t[n] = s[at[n]]
    BY <1>1, <1>2
  <2>2. \A i \in P : \E n \in DOMAIN t : at[n] = i
    BY <1>1, <1>2
  <2> QED BY <1>3, <2>1, <2>2 DEF Takes
<1> QED BY <1>1, <1>4

\* one row, and others behind it
LEMMA HeadAnd ==
    ASSUME NEW S, NEW r \in S, NEW rest \in Seq(S), NEW b, b = <<r>> \o rest
    PROVE  /\ b \in Seq(S) /\ Len(rest) \in Nat /\ Len(b) = Len(rest) + 1 /\ b[1] = r
           /\ \A m \in 2..Len(b) : m - 1 \in 1..Len(rest) /\ b[m] = rest[m-1]
           /\ \A m \in 1..Len(rest) : m + 1 \in 2..Len(b) /\ b[m+1] = rest[m]
<1>1. <<r>> \in Seq(S) /\ Len(<<r>>) = 1 /\ <<r>>[1] = r
  OBVIOUS
<1>2. Len(rest) \in Nat
  OBVIOUS
<1> DEFINE h == <<r>>
<1>3. h \in Seq(S) /\ Len(h) = 1 /\ h[1] = r /\ b = h \o rest
  BY <1>1
<1> HIDE DEF h
<1>4. b \in Seq(S) /\ Len(b) = 1 + Len(rest)
  BY <1>3
<1>5. b[1] = r
  BY <1>2, <1>3, <1>4
<1>6. ASSUME NEW m \in 1..Len(rest) PROVE m + 1 \in 2..Len(b) /\ b[m+1] = rest[m]
  <2>1. b[Len(h) + m] = rest[m]
    BY <1>3
  <2> QED BY <1>2, <1>3, <1>4, <2>1
<1>7. ASSUME NEW m \in 2..Len(b) PROVE m - 1 \in 1..Len(rest) /\ b[m] = rest[m-1]
  <2>1. m - 1 \in 1..Len(rest) /\ (m - 1) + 1 = m
    BY <1>2, <1>4
  <2> QED BY <1>6, <2>1
<1> QED BY <1>2, <1>4, <1>5, <1>6, <1>7

\* The sets of A are apart, so what is in any of them is counted by the sum of their sizes.
Disjoint(A, S) == \A x, y \in S : x # y => A[x] \cap A[y] = {}

LEMMA SumCounts ==
    ASSUME NEW S, IsFiniteSet(S), NEW f, NEW A, \A x \in S : IsFiniteSet(A[x]) /\ f[x] = Cardinality(A[x]), Disjoint(A, S)
    PROVE  SumFunctionOnSet(f, S) = Cardinality(UNION {A[x] : x \in S})
<1> DEFINE N == Cardinality(S)
           all(s) == UNION {A[x] : x \in s}
           Fits(s) == IsFiniteSet(all(s)) /\ SumFunctionOnSet(f, s) = Cardinality(all(s))
           T == {n \in 0..N : \A s \in SUBSET S : Cardinality(s) = n => Fits(s)}
<1>0. N \in Nat /\ \A x \in S : f[x] \in Nat
  BY FS_CardinalityType
<1>1. \A s \in SUBSET S : IsFiniteSet(s) /\ Cardinality(s) \in 0..N /\ (Cardinality(s) = 0 <=> s = {})
  BY PartsCount
<1> HIDE DEF N
<1>2. 0 \in T
  <2>1. all({}) = {}
    OBVIOUS
  <2>2. SumFunctionOnSet(f, {}) = 0
    BY SumOfNone
  <2>3. IsFiniteSet({}) /\ Cardinality({}) = 0
    BY FS_EmptySet
  <2>4. Fits({})
    BY <2>1, <2>2, <2>3
  <2>5. \A s \in SUBSET S : Cardinality(s) = 0 => Fits(s)
    BY <1>1, <2>4
  <2> QED BY <1>0, <2>5
<1>3. ASSUME NEW n \in 1..N, n - 1 \in T PROVE n \in T
  <2> SUFFICES ASSUME NEW s \in SUBSET S, Cardinality(s) = n PROVE Fits(s)
    BY <1>0
  <2>1. s # {} /\ IsFiniteSet(s) /\ n \in Nat /\ n # 0
    BY <1>0, <1>1
  <2>2. PICK x \in s : TRUE
    BY <2>1
  <2> DEFINE r == s \ {x}
  <2>3. r \in SUBSET S /\ Cardinality(r) = n - 1
    BY <2>1, <2>2, OneLess
  <2>4. Fits(r)
    BY <1>3, <2>3
  <2>5. SumFunctionOnSet(f, s) = f[x] + SumFunctionOnSet(f, r)
    <3>1. \A y \in s : f[y] \in Nat
      BY <1>0
    <3> QED BY <2>1, <3>1, SumSplits
  <2>6. all(s) = A[x] \cup all(r)
    OBVIOUS
  <2>7. A[x] \cap all(r) = {}
    BY DEF Disjoint
  <2>8. IsFiniteSet(A[x]) /\ f[x] = Cardinality(A[x]) /\ f[x] \in Nat
    BY <1>0
  <2> DEFINE a == A[x] b == all(r)
  <2>9. IsFiniteSet(a) /\ IsFiniteSet(b) /\ a \cap b = {} /\ SumFunctionOnSet(f, r) = Cardinality(b)
    BY <2>4, <2>7, <2>8
  <2> HIDE DEF a, b, r
  <2>10. IsFiniteSet(a \cup b) /\ Cardinality(a \cup b) = Cardinality(a) + Cardinality(b) - Cardinality({})
    BY <2>9, FS_Union
  <2>11. Cardinality({}) = 0 /\ Cardinality(a) \in Nat /\ Cardinality(b) \in Nat
    BY <2>9, FS_EmptySet, FS_CardinalityType
  <2>12. Cardinality(a \cup b) = Cardinality(a) + Cardinality(b)
    BY <2>10, <2>11
  <2>13. all(s) = a \cup b /\ SumFunctionOnSet(f, s) = Cardinality(a) + Cardinality(b)
    BY <2>5, <2>6, <2>8, <2>9 DEF a, b
  <2> QED BY <2>10, <2>12, <2>13
<1> HIDE DEF T
<1>4. \A n \in 1..N : n - 1 \in T => n \in T
  BY <1>3
<1>5. N \in T
  <2>1. \A n \in 0..N : n \in T
    BY <1>0, <1>2, <1>4, CountsUp
  <2> QED BY <1>0, <2>1
<1>6. Fits(S)
  BY <1>5 DEF T, N
<1> QED BY <1>6

\* a sequence made of places of another, each once, has as many of the kind
LEMMA SameMany ==
    ASSUME NEW D, NEW E, IsFiniteSet(D), NEW at, \A n \in D : at[n] \in E,
           \A n, m \in D : at[n] = at[m] => n = m, \A i \in E : \E n \in D : at[n] = i
    PROVE  IsFiniteSet(E) /\ Cardinality(E) = Cardinality(D)
<1> DEFINE g == [n \in D |-> at[n]]
<1>1. g \in Bijection(D, E)
  BY DEF Bijection, Injection, Surjection, IsInjective
<1>2. ExistsBijection(D, E)
  BY <1>1 DEF ExistsBijection
<1> QED BY <1>2, FS_Bijection

\* the first place of each value: every value once, none left out
UpTo(N) == [i \in 1..N |-> i]
FirstPlaces(firsts, G, N) == \A i \in 1..N : i \in firsts <=> \A j \in 1..(i-1) : G[j] # G[i]
EachOnce(new, G, N) ==
    /\ Len(new) \in Nat /\ DOMAIN new = 1..Len(new) /\ \A n \in 1..Len(new) : new[n] \in 1..N
    /\ \A n, k \in 1..Len(new) : G[new[n]] = G[new[k]] => n = k
    /\ \A i \in 1..N : \E n \in 1..Len(new) : G[new[n]] = G[i]

LEMMA FirstOfEach ==
    ASSUME NEW N \in Nat, NEW G, NEW firsts \in SUBSET (1..N), FirstPlaces(firsts, G, N),
           NEW new, new = Picked(UpTo(N), firsts)
    PROVE  EachOnce(new, G, N)
<1> DEFINE s == [i \in 1..N |-> i]
<1>1. s = [i \in 1..N |-> s[i]] /\ \A i \in 1..N : s[i] = i /\ s[i] \in 1..N
  OBVIOUS
<1> HIDE DEF s
<1>2. s \in Seq(1..N) /\ DOMAIN s = 1..N
  BY <1>1, SeqBuilt
<1>3. firsts \in SUBSET DOMAIN s
  BY <1>2
<1>4. new = Picked(s, firsts)
  BY DEF s, UpTo
<1>5. new \in Seq(1..N) /\ \E at : Takes(new, s, firsts, at)
  BY <1>2, <1>3, <1>4, PickedTakes
<1>6. PICK at : Takes(new, s, firsts, at)
  BY <1>5
<1>7. /\ \A n \in DOMAIN new : at[n] \in firsts /\ new[n] = s[at[n]]
      /\ \A n, m \in DOMAIN new : at[n] = at[m] => n = m
      /\ \A i \in firsts : \E n \in DOMAIN new : at[n] = i
  BY <1>6 DEF Takes
<1>8. ASSUME NEW n \in DOMAIN new PROVE new[n] = at[n] /\ new[n] \in firsts
  <2>1. at[n] \in firsts /\ new[n] = s[at[n]]
    BY <1>7
  <2>2. s[at[n]] = at[n]
    BY <1>1, <2>1
  <2> QED BY <2>1, <2>2
<1>9. Len(new) \in Nat /\ DOMAIN new = 1..Len(new) /\ \A n \in 1..Len(new) : new[n] \in 1..N
  <2> DEFINE Z == 1..N
  <2>1. new \in Seq(Z)
    BY <1>5
  <2> HIDE DEF Z
  <2>2. Len(new) \in Nat /\ DOMAIN new = 1..Len(new) /\ \A n \in 1..Len(new) : new[n] \in Z
    BY <2>1
  <2> QED BY <2>2 DEF Z
<1>10. ASSUME NEW n \in 1..Len(new), NEW k \in 1..Len(new), G[new[n]] = G[new[k]] PROVE n = k
  <2>1. new[n] \in firsts /\ new[k] \in firsts /\ new[n] \in 1..N /\ new[k] \in 1..N
    BY <1>8, <1>9
  <2> DEFINE i == new[n]
             j == new[k]
  <2>2. /\ i \in 1..N /\ j \in 1..N /\ G[i] = G[j]
        /\ \A l \in 1..(i-1) : G[l] # G[i]
        /\ \A l \in 1..(j-1) : G[l] # G[j]
    BY <1>10, <2>1 DEF FirstPlaces
  <2> HIDE DEF i, j
  <2>3. ~(i < j)
    <3>1. i < j => i \in 1..(j-1)
      BY <2>2
    <3> QED BY <2>2, <3>1
  <2>4. ~(j < i)
    <3>1. j < i => j \in 1..(i-1)
      BY <2>2
    <3> QED BY <2>2, <3>1
  <2>5. i = j
    BY <2>2, <2>3, <2>4
  <2>6. at[n] = at[k]
    BY <1>8, <1>9, <2>5 DEF i, j
  <2> QED BY <1>7, <1>9, <2>6
<1>11. ASSUME NEW i \in 1..N PROVE \E n \in 1..Len(new) : G[new[n]] = G[i]
  <2> DEFINE E == {j \in 1..N : G[j] = G[i]}
  <2>1. E \in SUBSET Nat /\ E # {}
    OBVIOUS
  <2>2. PICK j \in E : \A k \in E : j <= k
    BY <2>1, LeastNumber
  <2>3. \A l \in 1..(j-1) : G[l] # G[j]
    <3> SUFFICES ASSUME NEW l \in 1..(j-1), G[l] = G[j] PROVE FALSE
      OBVIOUS
    <3>1. l \in E /\ l < j /\ j \in Nat /\ l \in Nat
      OBVIOUS
    <3> QED BY <2>2, <3>1
  <2>4. j \in firsts
    BY <2>3 DEF FirstPlaces
  <2>5. PICK n \in DOMAIN new : at[n] = j
    BY <1>7, <2>4
  <2>6. new[n] = j /\ n \in 1..Len(new)
    BY <1>8, <1>9, <2>5
  <2> QED BY <2>6
<1>12. /\ \A n, k \in 1..Len(new) : G[new[n]] = G[new[k]] => n = k
       /\ \A i \in 1..N : \E n \in 1..Len(new) : G[new[n]] = G[i]
  BY <1>10, <1>11
<1> QED BY <1>9, <1>12 DEF EachOnce

(* Charts ----------------------------------------------------------------- *)

LEMMA GreatestNumber ==
    ASSUME NEW n \in Nat, NEW T \in SUBSET (1..n), T # {}
    PROVE  \E m \in T : \A k \in T : m >= k
<1> DEFINE gaps == {n - k : k \in T}
<1>0. \A k \in T : k \in 1..n
  OBVIOUS
<1>1. gaps \in SUBSET Nat /\ gaps # {}
  <2>1. \A k \in T : n - k \in Nat
    BY <1>0
  <2>2. PICK k \in T : TRUE
    OBVIOUS
  <2>3. n - k \in gaps
    OBVIOUS
  <2>4. \A g \in gaps : g \in Nat
    BY <2>1
  <2> QED BY <2>3, <2>4
<1>2. PICK g \in gaps : \A x \in gaps : g <= x
  BY <1>1, LeastNumber
<1>3. PICK m \in T : g = n - m
  OBVIOUS
<1>4. \A k \in T : n - m <= n - k /\ k \in Nat
  BY <1>0, <1>2, <1>3
<1> QED BY <1>3, <1>4

Marks == [a : 1..Buckets, b : 1..Buckets]

LEMMA MarkIs ==
    ASSUME NEW b \in Marks
    PROVE  Low(b) \in 1..Buckets /\ High(b) \in 1..Buckets /\ Low(b) <= High(b)
BY ChartShape DEF Marks, Low, High

\* the time of a mark is a time of the chart, and touches the buckets marked and no others
LEMMA MarkedTime ==
    ASSUME NEW b \in Marks, NEW start \in 0..MaxRolls
    PROVE  TimeOf(b, start) \in Times /\ Band(TimeOf(b, start), start) = [lo |-> Low(b), hi |-> High(b)]
<1> DEFINE lo == Low(b) hi == High(b) t == TimeOf(b, start)
           touched == {i \in 1..Buckets : start + i > t.since /\ start + i - 1 < t.until}
<1>1. lo \in 1..Buckets /\ hi \in 1..Buckets /\ lo <= hi /\ Buckets \in Nat /\ MaxRolls \in Nat /\ start \in Nat /\ start <= MaxRolls
  BY MarkIs, ChartShape
<1>2. t.since = start + lo - 1 /\ t.until = start + hi /\ t = [since |-> start + lo - 1, until |-> start + hi]
  BY DEF TimeOf
<1> HIDE DEF lo, hi, t
<1>3. start + lo - 1 \in 0..(MaxRolls + Buckets) /\ start + hi \in 0..(MaxRolls + Buckets)
  BY <1>1
<1>4. t \in Times
  BY <1>2, <1>3 DEF Times
<1>5. \A i \in 1..Buckets : i \in touched <=> lo <= i /\ i <= hi
  BY <1>1, <1>2
<1>6. lo \in touched /\ hi \in touched /\ \A i \in touched : lo <= i /\ i <= hi /\ i \in Nat
  BY <1>1, <1>5
<1>7. Band(t, start) = IF touched = {} THEN NoData
                       ELSE [lo |-> CHOOSE i \in touched : \A j \in touched : i <= j,
                             hi |-> CHOOSE i \in touched : \A j \in touched : i >= j]
  BY DEF Band
<1> HIDE DEF touched
<1>8. (CHOOSE i \in touched : \A j \in touched : i <= j) = lo
  <2>1. \A i \in touched : (\A j \in touched : i <= j) => i = lo
    BY <1>1, <1>6
  <2>2. lo \in touched /\ \A j \in touched : lo <= j
    BY <1>6
  <2> QED BY <2>1, <2>2
<1>9. (CHOOSE i \in touched : \A j \in touched : i >= j) = hi
  <2>1. \A i \in touched : (\A j \in touched : i >= j) => i = hi
    BY <1>1, <1>6
  <2>2. hi \in touched /\ \A j \in touched : hi >= j
    BY <1>1, <1>6
  <2> QED BY <2>1, <2>2
<1>10. Band(t, start) = [lo |-> lo, hi |-> hi]
  BY <1>6, <1>7, <1>8, <1>9
<1> QED BY <1>4, <1>10 DEF lo, hi, t

\* where the arrows start, when a time is selected
LEMMA BandEnds ==
    ASSUME NEW time, NEW start, Band(time, start) # NoData
    PROVE  Band(time, start).hi \in 1..Buckets
<1> DEFINE touched == {i \in 1..Buckets : start + i > time.since /\ start + i - 1 < time.until}
<1>1. Band(time, start) = IF touched = {} THEN NoData
                          ELSE [lo |-> CHOOSE i \in touched : \A j \in touched : i <= j,
                                hi |-> CHOOSE i \in touched : \A j \in touched : i >= j]
  BY DEF Band
<1>2. touched \in SUBSET (1..Buckets) /\ Buckets \in Nat
  BY ChartShape
<1> HIDE DEF touched
<1>3. touched # {}
  BY <1>1
<1>4. \E i \in touched : \A j \in touched : i >= j
  BY <1>2, <1>3, GreatestNumber
<1>5. (CHOOSE i \in touched : \A j \in touched : i >= j) \in touched
  BY <1>4
<1> DEFINE end == CHOOSE i \in touched : \A j \in touched : i >= j
<1>6. end \in 1..Buckets
  BY <1>2, <1>5
<1> HIDE DEF end
<1>7. Band(time, start).hi = end
  BY <1>1, <1>3 DEF end
<1> QED BY <1>6, <1>7

LEMMA CommitTyped ==
    ASSUME NEW b \in Marks, NEW start \in 0..MaxRolls, NEW time, Commit(b, start, time)
    PROVE  sel' \in Times \cup {NoData}
BY MarkedTime DEF Commit

LEMMA ChartStep == ASSUME ChartTypeOK, ChartNext PROVE ChartTypeOK'
<1>1. /\ series \in Charts /\ first \in 0..MaxRolls /\ sel \in Times \cup {NoData} /\ brush \in Marks \cup {NoData}
      /\ pressed \in [first : 0..MaxRolls, sel : Times \cup {NoData}] \cup {NoData} /\ keyAt \in 1..Buckets \cup {NoData}
      /\ Buckets \in Nat \ {0} /\ MaxRolls \in Nat
  BY ChartShape DEF ChartTypeOK, Marks
<1> DEFINE Typed == /\ series' \in Charts /\ first' \in 0..MaxRolls /\ sel' \in Times \cup {NoData} /\ brush' \in Marks \cup {NoData}
                    /\ pressed' \in [first : 0..MaxRolls, sel : Times \cup {NoData}] \cup {NoData}
                    /\ keyAt' \in 1..Buckets \cup {NoData}
<1>2. ASSUME NEW i \in 1..Buckets, OnDown(i) PROVE Typed
  BY <1>1, <1>2 DEF OnDown, Marks
<1>3. ASSUME NEW i \in 1..Buckets, OnMove(i) PROVE Typed
  BY <1>1, <1>3 DEF OnMove, Marks
<1>4. ASSUME NEW step \in {-1, 1}, NEW shift \in BOOLEAN, Arrow(step, shift) PROVE Typed
  <2> DEFINE here == IF keyAt # NoData THEN keyAt
                     ELSE IF SelIdx(sel, first) # NoData THEN SelIdx(sel, first).hi ELSE Buckets
             to == IF here + step \in 1..Buckets THEN here + step ELSE here
  <2>1. SelIdx(sel, first) # NoData => SelIdx(sel, first).hi \in 1..Buckets
    BY BandEnds DEF SelIdx
  <2>2. here \in 1..Buckets
    BY <1>1, <2>1
  <2>3. to \in 1..Buckets
    BY <2>2
  <2>4. /\ keyAt' = to /\ brush' = IF ~shift THEN brush ELSE [a |-> IF brush # NoData THEN brush.a ELSE here, b |-> to]
        /\ UNCHANGED <<series, first, sel, pressed>>
    BY <1>4 DEF Arrow
  <2> HIDE DEF here, to
  <2>5. brush # NoData => brush.a \in 1..Buckets
    BY <1>1 DEF Marks
  <2>6. brush' \in Marks \cup {NoData}
    BY <1>1, <2>2, <2>3, <2>4, <2>5 DEF Marks
  <2> QED BY <1>1, <2>3, <2>4, <2>6
<1>5. ASSUME Up PROVE Typed
  <2>1. pressed # NoData /\ pressed.first \in 0..MaxRolls
    BY <1>1, <1>5 DEF Up
  <2>2. sel' \in Times \cup {NoData}
    BY <1>1, <1>5, <2>1, CommitTyped DEF Up
  <2> QED BY <1>1, <1>5, <2>2 DEF Up
<1>6. ASSUME Enter PROVE Typed
  <2>1. sel' \in Times \cup {NoData}
    BY <1>1, <1>6, CommitTyped DEF Enter
  <2> QED BY <1>1, <1>6, <2>1 DEF Enter
<1>7. ASSUME EscapeKey PROVE Typed
  BY <1>1, <1>7 DEF EscapeKey
<1>8. ASSUME Roll PROVE Typed
  BY <1>1, <1>8 DEF Roll
<1>9. Typed
  BY <1>2, <1>3, <1>4, <1>5, <1>6, <1>7, <1>8 DEF ChartNext
<1> QED BY <1>9 DEF ChartTypeOK, Marks

LEMMA ChartStarts == ASSUME ChartInit PROVE ChartTypeOK
BY ChartShape DEF ChartInit, ChartTypeOK

LEMMA ChartSame == ASSUME ChartTypeOK, UNCHANGED chartVars PROVE ChartTypeOK'
BY DEF ChartTypeOK, chartVars

\* A chart keeps the types of its marks and times, for any data.
THEOREM ChartTyped == ChartSpec => []ChartTypeOK
BY ChartStarts, ChartStep, ChartSame, PTL DEF ChartSpec

LEMMA CommitMarks ==
    ASSUME NEW b \in Marks, NEW start \in 0..MaxRolls, NEW time, Commit(b, start, time), sel' # NoData
    PROVE  SelIdx(sel', start) = [lo |-> Low(b), hi |-> High(b)]
BY MarkedTime DEF Commit, SelIdx

LEMMA StepMarks == ASSUME ChartTypeOK, ChartNext PROVE MarkedIsSelected
<1> SUFFICES ASSUME brush # NoData, brush' = NoData, sel' # sel, sel' # NoData, pressed = NoData \/ pressed.first = first
             PROVE  SelIdx(sel', first') = [lo |-> Low(brush), hi |-> High(brush)]
  BY DEF MarkedIsSelected
<1>1. brush \in Marks /\ first \in 0..MaxRolls
  BY DEF ChartTypeOK, Marks
<1>2. CASE Up
  BY <1>1, <1>2, CommitMarks DEF Up
<1>3. CASE Enter
  BY <1>1, <1>3, CommitMarks DEF Enter
<1>4. CASE \E i \in 1..Buckets : OnDown(i) \/ OnMove(i)
  BY <1>4 DEF OnDown, OnMove
<1>5. CASE \E step \in {-1, 1}, shift \in BOOLEAN : Arrow(step, shift)
  BY <1>5 DEF Arrow
<1>6. CASE EscapeKey \/ Roll
  BY <1>6 DEF EscapeKey, Roll
<1> QED BY <1>2, <1>3, <1>4, <1>5, <1>6 DEF ChartNext

\* The time that a mark selects is drawn as the band that was marked, unless the data came again
\* while the button was down.
THEOREM MarksSelect == ChartSpec => [][MarkedIsSelected]_chartVars
<1>1. ChartTypeOK /\ [ChartNext]_chartVars => [MarkedIsSelected]_chartVars
  BY StepMarks
<1> QED BY <1>1, ChartTyped, PTL DEF ChartSpec

(* Tables ----------------------------------------------------------------- *)

TableIds == {"agent", "model", "group"} \X (Range(Agent) \cup Groups)

TableParents == {"agent", "model", "group"} \X (Range(Agent) \cup Groups \cup {Missing, Unlisted})

TableRow == [id : TableIds, parent : TableParents, level : {0, 1}, group : Groups,
             name : Nat, cost : Nat \cup {Missing}, count : Nat]

BoardAgent == [id : Range(Agent), parent : Range(Agent) \cup {Missing, Unlisted}, cost : Nat \cup {Missing}]

\* blocks made of every element of a sequence
LEMMA BlocksAre ==
    ASSUME NEW S, NEW N \in Nat, NEW seqs, seqs = [i \in 1..N |-> seqs[i]], \A i \in 1..N : seqs[i] \in Seq(S)
    PROVE  FlattenSeq(seqs) \in Seq(S)
<1>1. seqs \in Seq(Seq(S))
  <2> DEFINE Q == Seq(S)
  <2>1. \A i \in 1..N : seqs[i] \in Q
    OBVIOUS
  <2> HIDE DEF Q
  <2>2. seqs \in Seq(Q)
    BY <2>1, SeqBuilt
  <2> QED BY <2>2 DEF Q
<1> QED BY <1>1, FlattenIs

LEMMA AnswersAre ==
    ASSUME NEW list \in Answers
    PROVE  list \in Seq(BoardAgent)
<1>1. PICK listed \in SUBSET Range(Agent), up \in Parents, known \in SUBSET Range(Agent) : list = AnswerOf(listed, up, known)
  BY DEF Answers
<1>0. up \in [DOMAIN Agent -> {Missing, Unlisted, Agent[1]}]
  BY DEF Parents
<1> DEFINE all == [i \in DOMAIN Agent |-> [id |-> Agent[i], parent |-> up[i], cost |-> IF Agent[i] \in known THEN CostOf[Agent[i]] ELSE Missing]]
           places == {i \in DOMAIN Agent : Agent[i] \in listed}
<1>2. Agent \in Seq(Range(Agent)) /\ Len(Agent) \in Nat /\ DOMAIN Agent = 1..Len(Agent) /\ CostOf \in [Range(Agent) -> Nat]
  BY BoardAgents
<1>3. \A i \in 1..Len(Agent) : Agent[i] \in Range(Agent)
  BY <1>2
<1>4. ASSUME NEW i \in 1..Len(Agent)
      PROVE  [id |-> Agent[i], parent |-> up[i], cost |-> IF Agent[i] \in known THEN CostOf[Agent[i]] ELSE Missing] \in BoardAgent
  <2>1. 1 \in 1..Len(Agent)
    BY <1>2
  <2>2. up[i] \in Range(Agent) \cup {Missing, Unlisted}
    BY <1>0, <1>2, <1>3, <2>1
  <2>3. CostOf[Agent[i]] \in Nat
    BY <1>2, <1>3
  <2> QED BY <1>3, <2>2, <2>3 DEF BoardAgent
<1>5. all \in Seq(BoardAgent) /\ DOMAIN all = 1..Len(Agent)
  <2>1. \A i \in 1..Len(Agent) : all[i] \in BoardAgent
    BY <1>2, <1>4
  <2>2. all = [i \in 1..Len(Agent) |-> all[i]]
    BY <1>2
  <2> HIDE DEF all
  <2> QED BY <1>2, <2>1, <2>2, SeqBuilt
<1>6. places \in SUBSET DOMAIN all
  BY <1>2, <1>5
<1> HIDE DEF all, places
<1>7. Picked(all, places) \in Seq(BoardAgent)
  BY <1>5, <1>6, PickedIs
<1> QED BY <1>1, <1>7 DEF all, places, AnswerOf

LEMMA RankedIs == ASSUME NEW a \in Range(Agent) PROVE Ranked(a) \in Nat
<1>1. PICK i \in DOMAIN Agent : Agent[i] = a
  BY DEF Range
<1>2. Ranked(a) \in DOMAIN Agent
  BY <1>1 DEF Ranked
<1>3. DOMAIN Agent = 1..Len(Agent)
  BY BoardAgents
<1> QED BY <1>2, <1>3

LEMMA AgentRowIs ==
    ASSUME NEW id \in Range(Agent), NEW parent \in Range(Agent) \cup {Missing, Unlisted}, NEW cost \in Nat \cup {Missing}, NEW level \in {0, 1},
           NEW g \in Groups, NEW r, r = AgentRow([id |-> id, parent |-> parent, cost |-> cost], level)
    PROVE  r \in TableRow /\ [r EXCEPT !.parent = <<"model", g>>] \in TableRow
<1>1. GroupOf[id] \in Groups
  BY BoardAgents DEF Groups, Range
<1>2. Ranked(id) \in Nat
  BY RankedIs
<1>3. r = [id |-> <<"agent", id>>, parent |-> <<"agent", parent>>, level |-> level, group |-> GroupOf[id],
           name |-> Ranked(id), cost |-> cost, count |-> 0]
  BY DEF AgentRow, Row
<1>4. <<"agent", id>> \in TableIds /\ <<"agent", parent>> \in TableParents /\ <<"model", g>> \in TableParents
  BY DEF TableIds, TableParents
<1>5. r \in TableRow
  BY <1>1, <1>2, <1>3, <1>4 DEF TableRow
<1> QED BY <1>4, <1>5 DEF TableRow

LEMMA RowOfAgent ==
    ASSUME NEW a \in BoardAgent, NEW level \in {0, 1}, NEW g \in Groups
    PROVE  AgentRow(a, level) \in TableRow /\ (level = 1 => UserRow(a, g) \in TableRow)
           /\ AgentRow([a EXCEPT !.parent = Missing], level) \in TableRow
<1>1. /\ a.id \in Range(Agent) /\ a.parent \in Range(Agent) \cup {Missing, Unlisted} /\ a.cost \in Nat \cup {Missing}
      /\ a = [id |-> a.id, parent |-> a.parent, cost |-> a.cost]
      /\ [a EXCEPT !.parent = Missing] = [id |-> a.id, parent |-> Missing, cost |-> a.cost]
  BY DEF BoardAgent
<1>2. AgentRow(a, level) \in TableRow /\ [AgentRow(a, level) EXCEPT !.parent = <<"model", g>>] \in TableRow
  BY <1>1, AgentRowIs
<1>3. AgentRow([a EXCEPT !.parent = Missing], level) \in TableRow
  <2>1. Missing \in Range(Agent) \cup {Missing, Unlisted}
    OBVIOUS
  <2>2. AgentRow([id |-> a.id, parent |-> Missing, cost |-> a.cost], level) \in TableRow
    BY <1>1, <2>1, AgentRowIs
  <2> QED BY <1>1, <2>2
<1> QED BY <1>2, <1>3 DEF UserRow

\* the rows of a panel, of each kind
LEMMA AgentBlocks ==
    ASSUME agents \in Answers
    PROVE  panelAgents \in Seq(TableRow)
<1>1. agents \in Seq(BoardAgent)
  BY AnswersAre
<1>2. \A id : AgentsUnder(id) \in Seq(BoardAgent)
  <2> SUFFICES ASSUME NEW id PROVE AgentsUnder(id) \in Seq(BoardAgent)
    OBVIOUS
  <2> DEFINE places == {i \in DOMAIN agents : agents[i].parent = id}
  <2>1. places \in SUBSET DOMAIN agents
    OBVIOUS
  <2> HIDE DEF places
  <2>2. Picked(agents, places) \in Seq(BoardAgent)
    BY <1>1, <2>1, PickedIs
  <2> QED BY <2>2 DEF places, AgentsUnder
<1>4. ASSUME NEW a \in BoardAgent, NEW level \in {0, 1} PROVE AgentRow(a, level) \in TableRow
  <2>1. GroupOf[a.id] \in Groups
    BY BoardAgents DEF Groups, Range, BoardAgent
  <2> QED BY <2>1, RowOfAgent
<1>5. ASSUME NEW a \in BoardAgent PROVE AgentBlock(a) \in Seq(TableRow)
  <2> DEFINE kids == AgentsUnder(a.id)
             rest == [i \in DOMAIN kids |-> AgentRow(kids[i], 1)]
  <2>1. kids \in Seq(BoardAgent) /\ Len(kids) \in Nat /\ DOMAIN kids = 1..Len(kids)
    BY <1>2
  <2>2. <<AgentRow(a, 0)>> \in Seq(TableRow)
    <3>1. AgentRow(a, 0) \in TableRow
      BY <1>4
    <3> QED BY <3>1
  <2>3. rest \in Seq(TableRow)
    <3> HIDE DEF kids
    <3>1. \A i \in 1..Len(kids) : rest[i] \in TableRow
      BY <1>4, <2>1
    <3>2. rest = [i \in 1..Len(kids) |-> rest[i]]
      BY <2>1
    <3> HIDE DEF rest
    <3> QED BY <2>1, <3>1, <3>2, SeqBuilt
  <2>4. AgentBlock(a) = <<AgentRow(a, 0)>> \o IF <<"agent", a.id>> \in folded THEN <<>> ELSE rest
    BY DEF AgentBlock
  <2> HIDE DEF rest
  <2>5. (IF <<"agent", a.id>> \in folded THEN <<>> ELSE rest) \in Seq(TableRow)
    BY <2>3
  <2> QED BY <2>2, <2>4, <2>5
<1> DEFINE roots == AgentsUnder(Missing)
           blocks == [i \in DOMAIN roots |-> AgentBlock(roots[i])]
<1>6. roots \in Seq(BoardAgent) /\ Len(roots) \in Nat /\ DOMAIN roots = 1..Len(roots)
  BY <1>2
<1>7. panelAgents = FlattenSeq(blocks)
  BY DEF panelAgents
<1> HIDE DEF roots
<1>8. \A i \in 1..Len(roots) : blocks[i] \in Seq(TableRow)
  BY <1>5, <1>6
<1>9. blocks = [i \in 1..Len(roots) |-> blocks[i]]
  BY <1>6
<1> HIDE DEF blocks
<1>10. FlattenSeq(blocks) \in Seq(TableRow)
  BY <1>6, <1>8, <1>9, BlocksAre
<1> QED BY <1>7, <1>10

\* a sequence put together from the agents listed at some places
LEMMA PickedSeq ==
    ASSUME NEW S, NEW s \in Seq(S), NEW places \in SUBSET DOMAIN s, NEW t, t = Picked(s, places)
    PROVE  t \in Seq(S) /\ Len(t) \in Nat /\ DOMAIN t = 1..Len(t) /\ \A i \in 1..Len(t) : t[i] \in S
<1>1. Picked(s, places) \in Seq(S)
  BY PickedIs
<1>2. t \in Seq(S)
  BY <1>1
<1> QED BY <1>2

LEMMA CountedSeq ==
    ASSUME NEW N \in Nat, NEW places \in SUBSET (1..N), NEW t, t = Picked([i \in 1..N |-> i], places)
    PROVE  t \in Seq(1..N) /\ Len(t) \in Nat /\ DOMAIN t = 1..Len(t) /\ \A i \in 1..Len(t) : t[i] \in 1..N
<1> DEFINE s == [i \in 1..N |-> i]
<1>1. s = [i \in 1..N |-> s[i]] /\ \A i \in 1..N : s[i] \in 1..N
  OBVIOUS
<1>0. t = Picked(s, places)
  OBVIOUS
<1> HIDE DEF s
<1>2. s \in Seq(1..N) /\ DOMAIN s = 1..N
  BY <1>1, SeqBuilt
<1>3. places \in SUBSET DOMAIN s
  BY <1>2
<1> QED BY <1>0, <1>2, <1>3, PickedSeq

LEMMA ModelBlocks ==
    ASSUME agents \in Answers
    PROVE  panelByModel \in Seq(TableRow)
<1>1. agents \in Seq(BoardAgent)
  BY AnswersAre
<1>2. ASSUME NEW g \in Groups, NEW n \in Nat PROVE ModelBlock(g, n) \in Seq(TableRow)
  <2> DEFINE places == {i \in DOMAIN agents : GroupOf[agents[i].id] = g}
             users == Picked(agents, places)
             head == [Row("model", g, Missing, 0, g, Len(users)) EXCEPT !.name = n]
             rest == [i \in DOMAIN users |-> UserRow(users[i], g)]
  <2>1. ModelBlock(g, n) = <<head>> \o IF <<"model", g>> \notin folded THEN <<>> ELSE rest
    BY DEF ModelBlock, UsersOf
  <2>2. places \in SUBSET DOMAIN agents
    OBVIOUS
  <2> HIDE DEF places
  <2>3. users \in Seq(BoardAgent) /\ Len(users) \in Nat /\ DOMAIN users = 1..Len(users) /\ \A i \in 1..Len(users) : users[i] \in BoardAgent
    BY <1>1, <2>2, PickedSeq
  <2> HIDE DEF users
  <2>4. head \in TableRow
    <3>1. head = [id |-> <<"model", g>>, parent |-> <<"model", Missing>>, level |-> 0, group |-> g,
                  name |-> n, cost |-> Len(users), count |-> 0]
      BY DEF Row
    <3>2. <<"model", g>> \in TableIds /\ <<"model", Missing>> \in TableParents
      BY DEF TableIds, TableParents
    <3> HIDE DEF head
    <3> QED BY <2>3, <3>1, <3>2 DEF TableRow
  <2>5. rest \in Seq(TableRow)
    <3>1. ASSUME NEW i \in 1..Len(users) PROVE rest[i] \in TableRow
      <4>1. users[i] \in BoardAgent
        BY <2>3
      <4>2. UserRow(users[i], g) \in TableRow
        BY <4>1, RowOfAgent
      <4> QED BY <2>3, <4>2
    <3>2. rest = [i \in 1..Len(users) |-> rest[i]]
      BY <2>3
    <3> HIDE DEF rest
    <3> QED BY <2>3, <3>1, <3>2, SeqBuilt
  <2> HIDE DEF head, rest
  <2>6. <<head>> \in Seq(TableRow)
    BY <2>4
  <2>7. (IF <<"model", g>> \notin folded THEN <<>> ELSE rest) \in Seq(TableRow)
    BY <2>5
  <2> QED BY <2>1, <2>6, <2>7
<1> DEFINE N == Len(Agent)
           firsts == {i \in DOMAIN Agent : \A j \in 1..(i-1) : GroupOf[Agent[j]] # GroupOf[Agent[i]]}
           new == Picked([i \in DOMAIN Agent |-> i], firsts)
           blocks == [n \in DOMAIN new |-> ModelBlock(GroupOf[Agent[new[n]]], n)]
<1>3. panelByModel = FlattenSeq(blocks)
  BY DEF panelByModel
<1>4. N \in Nat /\ DOMAIN Agent = 1..N /\ \A i \in 1..N : GroupOf[Agent[i]] \in Groups
  <2>1. N \in Nat /\ DOMAIN Agent = 1..N /\ DOMAIN GroupOf = Range(Agent)
    BY BoardAgents
  <2>2. \A i \in 1..N : Agent[i] \in DOMAIN GroupOf
    BY <2>1 DEF Range
  <2> QED BY <2>1, <2>2 DEF Groups, Range
<1>5. firsts \in SUBSET (1..N)
  BY <1>4
<1> HIDE DEF firsts, N
<1>6. [i \in DOMAIN Agent |-> i] = [i \in 1..N |-> i]
  BY <1>4
<1>7. new = Picked([i \in 1..N |-> i], firsts)
  BY <1>6
<1> HIDE DEF new
<1>8. Len(new) \in Nat /\ DOMAIN new = 1..Len(new) /\ \A i \in 1..Len(new) : new[i] \in 1..N
  BY <1>4, <1>5, <1>7, CountedSeq
<1>9. ASSUME NEW n \in 1..Len(new) PROVE blocks[n] \in Seq(TableRow)
  <2>1. new[n] \in 1..N /\ n \in Nat
    BY <1>8
  <2>2. GroupOf[Agent[new[n]]] \in Groups
    BY <1>4, <2>1
  <2>3. ModelBlock(GroupOf[Agent[new[n]]], n) \in Seq(TableRow)
    BY <1>2, <2>1, <2>2
  <2> QED BY <1>8, <2>3
<1>10. blocks = [i \in 1..Len(new) |-> blocks[i]]
  BY <1>8
<1> HIDE DEF blocks
<1>11. FlattenSeq(blocks) \in Seq(TableRow)
  BY <1>8, <1>9, <1>10, BlocksAre
<1> QED BY <1>3, <1>11

LEMMA TableRowsAre ==
    ASSUME agents \in Answers, NEW rows, rows = Rows
    PROVE  rows \in Seq(TableRow)
<1>1. CASE panel.kind = "agents"
  BY <1>1, AgentBlocks DEF Rows
<1>2. CASE panel.kind = "models"
  BY <1>2, ModelBlocks DEF Rows
<1>3. CASE panel.kind \notin {"agents", "models"}
  <2> DEFINE list == [i \in DOMAIN agents |-> AgentRow([agents[i] EXCEPT !.parent = Missing], 0)]
  <2>1. Rows = list
    BY <1>3 DEF Rows
  <2>2. agents \in Seq(BoardAgent) /\ Len(agents) \in Nat /\ DOMAIN agents = 1..Len(agents) /\ \A i \in 1..Len(agents) : agents[i] \in BoardAgent
    BY AnswersAre
  <2>3. ASSUME NEW i \in 1..Len(agents) PROVE list[i] \in TableRow
    <3>1. agents[i] \in BoardAgent
      BY <2>2
    <3>2. GroupOf[agents[i].id] \in Groups
      BY <3>1, BoardAgents DEF Groups, Range, BoardAgent
    <3>3. AgentRow([agents[i] EXCEPT !.parent = Missing], 0) \in TableRow
      BY <3>1, <3>2, RowOfAgent
    <3> QED BY <2>2, <3>3
  <2>4. list = [i \in 1..Len(agents) |-> list[i]]
    BY <2>2
  <2> HIDE DEF list
  <2>5. list \in Seq(TableRow)
    BY <2>2, <2>3, <2>4, SeqBuilt
  <2> QED BY <2>1, <2>5
<1> QED BY <1>1, <1>2, <1>3

\* compare orders values, a missing one last in either direction
LessValue(x, y, asc) == IF x = Missing \/ y = Missing THEN x # Missing /\ y = Missing ELSE IF asc THEN x < y ELSE x > y

LEMMA ValuesCompare ==
    ASSUME NEW x \in Nat \cup {Missing}, NEW y \in Nat \cup {Missing}, NEW z \in Nat \cup {Missing}, NEW asc
    PROVE  /\ ~LessValue(x, x, asc)
           /\ LessValue(x, y, asc) => ~LessValue(y, x, asc)
           /\ LessValue(x, y, asc) /\ ~LessValue(z, y, asc) => LessValue(x, z, asc)
           /\ ~LessValue(y, x, asc) /\ ~LessValue(z, y, asc) => ~LessValue(z, x, asc)
           /\ ~LessValue(y, x, asc) /\ LessValue(y, z, asc) => LessValue(x, z, asc)
<1>1. Missing \notin Nat
  BY BoardAgents
<1>2. CASE asc
  BY <1>1, <1>2 DEF LessValue
<1>3. CASE ~asc
  BY <1>1, <1>3 DEF LessValue
<1> QED BY <1>2, <1>3

LEMMA BeforeOrders ==
    ASSUME NEW rows \in Seq(TableRow), NEW by
    PROVE  /\ StrictOrder(BeforePlace(rows, by), DOMAIN rows)
           /\ \A i, j \in DOMAIN rows : <<i, j>> \in BeforePlace(rows, by) => ~Before(rows[j], rows[i], by)
<1> DEFINE D == DOMAIN rows
           asc == by.dir = "asc"
           value(r) == IF by.col = "cost" THEN r.cost ELSE r.name
           w == [i \in D |-> value(rows[i])]
           B == BeforePlace(rows, by)
<1>1. D \in SUBSET Nat /\ \A i \in D : rows[i] \in TableRow
  OBVIOUS
<1>2. ASSUME NEW i \in D PROVE w[i] \in Nat \cup {Missing}
  <2>1. rows[i].cost \in Nat \cup {Missing} /\ rows[i].name \in Nat
    BY <1>1 DEF TableRow
  <2> QED BY <2>1
<1>3. ASSUME NEW i \in D, NEW j \in D PROVE Before(rows[i], rows[j], by) <=> LessValue(w[i], w[j], asc)
  BY DEF Before, LessValue
<1>4. ASSUME NEW i \in D, NEW j \in D
      PROVE  <<i, j>> \in B <=> LessValue(w[i], w[j], asc) \/ (~LessValue(w[j], w[i], asc) /\ i < j)
  <2>1. <<i, j>> \in D \X D /\ <<i, j>>[1] = i /\ <<i, j>>[2] = j
    OBVIOUS
  <2>2. <<i, j>> \in B <=> Before(rows[i], rows[j], by) \/ (~Before(rows[j], rows[i], by) /\ i < j)
    BY <2>1 DEF BeforePlace
  <2>3. (Before(rows[i], rows[j], by) <=> LessValue(w[i], w[j], asc)) /\ (Before(rows[j], rows[i], by) <=> LessValue(w[j], w[i], asc))
    BY <1>3
  <2> HIDE DEF w, B, D, asc
  <2> QED BY <2>2, <2>3
<1> HIDE DEF w, B, D, asc
<1>5. ASSUME NEW i \in D PROVE <<i, i>> \notin B
  <2>1. ~LessValue(w[i], w[i], asc)
    BY <1>2, ValuesCompare
  <2> QED BY <1>1, <1>4, <2>1
<1>6. ASSUME NEW i \in D, NEW j \in D, i # j PROVE <<i, j>> \in B \/ <<j, i>> \in B
  <2>1. i < j \/ j < i
    BY <1>1, <1>6
  <2> QED BY <1>4, <2>1
<1>7. ASSUME NEW i \in D, NEW j \in D, NEW k \in D, <<i, j>> \in B, <<j, k>> \in B PROVE <<i, k>> \in B
  <2> DEFINE x == w[i] y == w[j] z == w[k]
  <2>0. x \in Nat \cup {Missing} /\ y \in Nat \cup {Missing} /\ z \in Nat \cup {Missing}
    BY <1>2
  <2>1. /\ <<i, j>> \in B <=> LessValue(x, y, asc) \/ (~LessValue(y, x, asc) /\ i < j)
        /\ <<j, k>> \in B <=> LessValue(y, z, asc) \/ (~LessValue(z, y, asc) /\ j < k)
        /\ <<i, k>> \in B <=> LessValue(x, z, asc) \/ (~LessValue(z, x, asc) /\ i < k)
    BY <1>4
  <2> HIDE DEF x, y, z
  <2>2. LessValue(x, y, asc) => ~LessValue(y, x, asc)
    BY <2>0, ValuesCompare
  <2>3. LessValue(x, y, asc) /\ ~LessValue(z, y, asc) => LessValue(x, z, asc)
    BY <2>0, ValuesCompare
  <2>4. ~LessValue(y, x, asc) /\ ~LessValue(z, y, asc) => ~LessValue(z, x, asc)
    BY <2>0, ValuesCompare
  <2>5. ~LessValue(y, x, asc) /\ LessValue(y, z, asc) => LessValue(x, z, asc)
    BY <2>0, ValuesCompare
  <2>6. LessValue(y, z, asc) => ~LessValue(z, y, asc)
    BY <2>0, ValuesCompare
  <2>7. i \in Nat /\ j \in Nat /\ k \in Nat
    BY <1>1
  <2>8. i < j /\ j < k => i < k
    BY <2>7
  <2> QED BY <1>7, <2>1, <2>2, <2>3, <2>4, <2>5, <2>6, <2>8, Zenon
<1>8. StrictOrder(B, D)
  BY <1>5, <1>6, <1>7 DEF StrictOrder
<1>9. ASSUME NEW i \in D, NEW j \in D, <<i, j>> \in B PROVE ~Before(rows[j], rows[i], by)
  <2> DEFINE x == w[i] y == w[j]
  <2>1. x \in Nat \cup {Missing} /\ y \in Nat \cup {Missing}
    BY <1>2
  <2>2. LessValue(x, y, asc) \/ ~LessValue(y, x, asc)
    BY <1>4, <1>9
  <2>3. Before(rows[j], rows[i], by) <=> LessValue(y, x, asc)
    BY <1>3
  <2> HIDE DEF x, y
  <2>4. LessValue(x, y, asc) => ~LessValue(y, x, asc)
    BY <2>1, ValuesCompare
  <2> QED BY <2>2, <2>3, <2>4, Zenon
<1> QED BY <1>8, <1>9 DEF D, B

LEMMA StableIs ==
    ASSUME NEW rows \in Seq(TableRow), NEW by, NEW t, t = Stable(rows, by)
    PROVE  t \in Seq(TableRow) /\ DOMAIN t = DOMAIN rows
<1> DEFINE B == BeforePlace(rows, by)
<1>1. StrictOrder(B, DOMAIN rows)
  BY BeforeOrders
<1>2. t = Ordered(rows, B)
  BY DEF Stable
<1> HIDE DEF B
<1> QED BY <1>1, <1>2, SortedIs

LEMMA SortRowsAre ==
    ASSUME NEW rows \in Seq(TableRow), NEW by, NEW tree, NEW t, t = SortRows(rows, by, tree)
    PROVE  t \in Seq(TableRow)
<1>1. CASE ~tree
  <2>1. t = Stable(rows, by)
    BY <1>1 DEF SortRows
  <2> QED BY <2>1, StableIs
<1>2. CASE tree
  <2> DEFINE tops == {i \in DOMAIN rows : rows[i].level = 0}
             topRows == Picked(rows, tops)
             roots == Stable(topRows, by)
             blocks == [i \in DOMAIN roots |-> <<roots[i]>> \o RowsUnder(rows, roots[i])]
  <2>1. t = FlattenSeq(blocks)
    BY <1>2 DEF SortRows
  <2>2. tops \in SUBSET DOMAIN rows
    OBVIOUS
  <2> HIDE DEF tops
  <2>3. topRows \in Seq(TableRow)
    BY <2>2, PickedSeq
  <2> HIDE DEF topRows
  <2>4. roots \in Seq(TableRow)
    BY <2>3, StableIs
  <2> HIDE DEF roots
  <2>5. Len(roots) \in Nat /\ DOMAIN roots = 1..Len(roots)
    BY <2>4
  <2>6. ASSUME NEW i \in 1..Len(roots) PROVE blocks[i] \in Seq(TableRow)
    <3> DEFINE r == roots[i]
               under == {j \in DOMAIN rows : rows[j].level = 1 /\ rows[j].parent = r.id}
    <3>1. r \in TableRow
      BY <2>4
    <3>2. under \in SUBSET DOMAIN rows
      OBVIOUS
    <3>3. RowsUnder(rows, r) = Picked(rows, under)
      BY DEF RowsUnder
    <3> HIDE DEF under
    <3>4. RowsUnder(rows, r) \in Seq(TableRow)
      BY <3>2, <3>3, PickedSeq
    <3>5. blocks[i] = <<r>> \o RowsUnder(rows, r)
      BY <2>5
    <3> HIDE DEF r, blocks
    <3>6. <<r>> \in Seq(TableRow)
      BY <3>1
    <3> QED BY <3>4, <3>5, <3>6
  <2>7. blocks = [i \in 1..Len(roots) |-> blocks[i]]
    BY <2>5
  <2> HIDE DEF blocks
  <2> QED BY <2>1, <2>5, <2>6, <2>7, BlocksAre
<1> QED BY <1>1, <1>2

LEMMA ListIs ==
    ASSUME agents \in Answers, panel \in Panels, NEW t, t = List
    PROVE  t \in Seq(TableRow)
<1> DEFINE rows == Rows
           whole == SortRows(rows, Sorted, Tree)
<1>1. rows \in Seq(TableRow)
  BY TableRowsAre
<1> HIDE DEF rows
<1>2. whole \in Seq(TableRow)
  BY <1>1, SortRowsAre
<1>3. t = IF Limited THEN SubSeq(whole, 1, Min({panel.limit, Len(whole)})) ELSE whole
  BY DEF List, rows
<1> HIDE DEF whole
<1>4. panel.limit \in Nat
  <2>1. Limit \in Nat
    BY BoardAgents
  <2>2. \A p \in Panels : p.limit \in {0, Limit}
    BY DEF Panels, Table, ListPanel, AgentsPanel, ByModelPanel, panelByRole, panelProjects, panelPrompts,
           panelProjectPrompts, panelSkills, panelToolCalls, panelConfirms, panelErrors, panelLoops, panelChanges,
           panelTests, panelMemFiles, panelProcs, panelSelf, chartTable
  <2> QED BY <2>1, <2>2
<1>5. SubSeq(whole, 1, Min({panel.limit, Len(whole)})) \in Seq(TableRow)
  BY <1>2, <1>4, CutSeq
<1> QED BY <1>2, <1>3, <1>5

\* the rows shown: the list, or the groups of its rows with what is unfolded of them

LEMMA GroupBlockIs ==
    ASSUME NEW list \in Seq(TableRow), NEW g \in Groups, NEW t, t = GroupBlock(list, g), NEW r \in Range(t)
    PROVE  r.id \in TableIds
<1> DEFINE places == {i \in DOMAIN list : list[i].group = g}
           members == Picked(list, places)
           head == GroupRow(g, members)
           rest == IF <<"group", g>> \in folded THEN <<>> ELSE members
<1>1. t = <<head>> \o rest
  BY DEF GroupBlock
<1>2. places \in SUBSET DOMAIN list
  OBVIOUS
<1>3. head.id = <<"group", g>>
  BY DEF GroupRow, Row
<1>4. head.id \in TableIds
  <2>1. <<"group", g>> \in TableIds
    BY DEF TableIds
  <2> HIDE DEF head
  <2> QED BY <1>3, <2>1
<1> HIDE DEF places, head
<1>5. members \in Seq(TableRow)
  BY <1>2, PickedSeq
<1> HIDE DEF members
<1>6. rest \in Seq(TableRow)
  BY <1>5
<1> HIDE DEF rest
<1>7. PICK i \in DOMAIN t : r = t[i]
  BY DEF Range
<1>8. Len(rest) \in Nat /\ DOMAIN rest = 1..Len(rest) /\ DOMAIN t = 1..(Len(rest) + 1)
  BY <1>1, <1>6
<1>9. CASE i = 1
  <2>1. t[1] = head
    BY <1>1, <1>6
  <2> QED BY <1>4, <1>7, <1>9, <2>1
<1>10. CASE i # 1
  <2>1. i - 1 \in 1..Len(rest)
    BY <1>7, <1>8, <1>10
  <2>2. t[i] = rest[i-1]
    BY <1>1, <1>6, <1>7, <1>8, <1>10
  <2>3. rest[i-1] \in TableRow
    BY <1>6, <2>1
  <2> QED BY <1>7, <2>2, <2>3 DEF TableRow
<1> QED BY <1>9, <1>10

LEMMA GroupedAre ==
    ASSUME NEW list \in Seq(TableRow), list = List, NEW r \in Range(Grouped)
    PROVE  r.id \in TableIds
<1> DEFINE N == Len(list)
           firsts == {i \in DOMAIN list : \A j \in 1..(i-1) : list[j].group # list[i].group}
           new == Picked([i \in DOMAIN list |-> i], firsts)
           blocks == [n \in DOMAIN new |-> GroupBlock(list, list[new[n]].group)]
<1>1. Grouped = FlattenSeq(blocks)
  BY DEF Grouped
<1>2. N \in Nat /\ DOMAIN list = 1..N /\ \A i \in 1..N : list[i] \in TableRow
  OBVIOUS
<1>3. firsts \in SUBSET (1..N)
  BY <1>2
<1> HIDE DEF firsts, N
<1>4. [i \in DOMAIN list |-> i] = [i \in 1..N |-> i]
  BY <1>2
<1>5. new = Picked([i \in 1..N |-> i], firsts)
  BY <1>4
<1> HIDE DEF new
<1>6. Len(new) \in Nat /\ DOMAIN new = 1..Len(new) /\ \A i \in 1..Len(new) : new[i] \in 1..N
  BY <1>2, <1>3, <1>5, CountedSeq
<1> DEFINE Lines == UNION {Range(blocks[n]) : n \in 1..Len(new)}
<1>7. ASSUME NEW n \in 1..Len(new) PROVE blocks[n] \in Seq(Lines) /\ \A x \in Range(blocks[n]) : x.id \in TableIds
  <2> DEFINE g == list[new[n]].group
  <2>1. new[n] \in 1..N
    BY <1>6
  <2>2. g \in Groups
    <3>1. list[new[n]] \in TableRow
      BY <1>2, <2>1
    <3> QED BY <3>1 DEF TableRow
  <2>3. blocks[n] = GroupBlock(list, g)
    BY <1>6
  <2> HIDE DEF g
  <2>4. \A x \in Range(blocks[n]) : x.id \in TableIds
    <3> HIDE DEF blocks
    <3>1. ASSUME NEW x \in Range(blocks[n]) PROVE x.id \in TableIds
      BY <2>2, <2>3, <3>1, GroupBlockIs
    <3> QED BY <3>1
  <2>5. GroupBlock(list, g) \in Seq(Range(GroupBlock(list, g)))
    <3> DEFINE members == Picked(list, {i \in DOMAIN list : list[i].group = g})
               rest == IF <<"group", g>> \in folded THEN <<>> ELSE members
               U == TableRow \cup {GroupRow(g, members)}
               b == <<GroupRow(g, members)>> \o rest
    <3>1. GroupBlock(list, g) = b
      BY DEF GroupBlock
    <3>2. members \in Seq(TableRow)
      <4> DEFINE places == {i \in DOMAIN list : list[i].group = g}
      <4>1. places \in SUBSET DOMAIN list
        OBVIOUS
      <4> HIDE DEF places
      <4>2. Picked(list, places) \in Seq(TableRow)
        BY <4>1, PickedSeq
      <4> QED BY <4>2 DEF places
    <3> HIDE DEF members
    <3>3. rest \in Seq(U) /\ <<GroupRow(g, members)>> \in Seq(U)
      <4>1. <<>> \in Seq(U) /\ <<GroupRow(g, members)>> \in Seq(U)
        OBVIOUS
      <4>2. members \in Seq(U)
        <5>1. TableRow \subseteq U
          OBVIOUS
        <5> HIDE DEF U
        <5> QED BY <3>2, <5>1, SeqGrows
      <4> QED BY <4>1, <4>2
    <3>4. b \in Seq(U)
      <4> HIDE DEF U, rest
      <4> QED BY <3>3
    <3> HIDE DEF b, U
    <3>5. DOMAIN b = 1..Len(b) /\ Len(b) \in Nat /\ b = [i \in 1..Len(b) |-> b[i]]
      BY <3>4
    <3>6. \A i \in 1..Len(b) : b[i] \in Range(b)
      BY <3>5 DEF Range
    <3>7. b \in Seq(Range(b))
      BY <3>5, <3>6, SeqBuilt
    <3> QED BY <3>1, <3>7
  <2>6. blocks[n] \in Seq(Range(blocks[n]))
    BY <2>3, <2>5
  <2>7. Range(blocks[n]) \subseteq Lines
    OBVIOUS
  <2> HIDE DEF blocks, Lines
  <2>8. blocks[n] \in Seq(Lines)
    BY <2>6, <2>7, SeqGrows
  <2> QED BY <2>4, <2>8
<1>8. blocks = [n \in 1..Len(new) |-> blocks[n]]
  BY <1>6
<1>9. \A x \in Lines : x.id \in TableIds
  BY <1>7
<1>10. \A n \in 1..Len(new) : blocks[n] \in Seq(Lines)
  BY <1>7
<1> HIDE DEF blocks, Lines
<1>11. FlattenSeq(blocks) \in Seq(Lines)
  BY <1>6, <1>8, <1>10, BlocksAre
<1>12. r \in Lines
  <2>1. Grouped \in Seq(Lines)
    BY <1>1, <1>11
  <2>2. PICK i \in DOMAIN Grouped : r = Grouped[i]
    BY DEF Range
  <2> HIDE DEF Grouped
  <2> QED BY <2>1, <2>2
<1> QED BY <1>9, <1>12

LEMMA ShownAre ==
    ASSUME agents \in Answers, panel \in Panels, NEW r \in Range(ShownRows)
    PROVE  r.id \in TableIds
<1> DEFINE list == List
<1>1. list \in Seq(TableRow)
  BY ListIs
<1>2. ShownRows = Grouped \/ ShownRows = list
  BY DEF ShownRows
<1>3. CASE ShownRows = Grouped
  <2>1. r \in Range(Grouped) /\ list = List
    BY <1>3
  <2> HIDE DEF list
  <2> QED BY <1>1, <2>1, GroupedAre
<1>4. CASE ShownRows = list
  <2>1. r \in Range(list)
    BY <1>4
  <2> HIDE DEF list
  <2>2. PICK i \in DOMAIN list : r = list[i]
    BY <2>1 DEF Range
  <2>3. r \in TableRow
    BY <1>1, <2>2
  <2> QED BY <2>3 DEF TableRow
<1> QED BY <1>2, <1>3, <1>4

LEMMA TableSorts ==
    ASSUME NEW col \in Columns, NEW current
    PROVE  NextSort(col, current) \in [col : Columns, dir : {"asc", "desc"}]
<1>1. NextSort(col, current).dir \in {"asc", "desc"}
  BY DEF NextSort
<1> QED BY <1>1 DEF NextSort

LEMMA TableTyped ==
    ASSUME TableTypeOK, [TableNext]_tableVars
    PROVE  TableTypeOK'
<1> USE DEF TableTypeOK
<1>1. CASE UNCHANGED tableVars
  BY <1>1 DEF tableVars
<1>2. ASSUME NEW col \in Columns, SortBy(col) PROVE TableTypeOK'
  <2>1. sort' \in [col : Columns, dir : {"asc", "desc"}]
    BY <1>2, TableSorts DEF SortBy
  <2> QED BY <1>2, <2>1 DEF SortBy
<1>3. ASSUME NEW r \in Range(ShownRows), SetFold(r) PROVE TableTypeOK'
  <2>1. r.id \in {"agent", "model", "group"} \X (Range(Agent) \cup Groups)
    BY ShownAre DEF TableIds
  <2>2. folded' = folded \ {r.id} \/ folded' = folded \cup {r.id}
    BY <1>3 DEF SetFold
  <2>3. folded' \subseteq {"agent", "model", "group"} \X (Range(Agent) \cup Groups)
    BY <2>1, <2>2
  <2> QED BY <1>3, <2>3 DEF SetFold
<1>4. ASSUME NEW answer \in Answers, NewData(answer) PROVE TableTypeOK'
  BY <1>4 DEF NewData
<1>5. CASE ShowMore
  BY <1>5 DEF ShowMore
<1>6. CASE SetMode
  BY <1>6 DEF SetMode
<1> QED BY <1>1, <1>2, <1>3, <1>4, <1>5, <1>6 DEF TableNext

\* The user folds only rows that the table has, of agents, models and groups that the board knows,
\* and sorts by its columns.
THEOREM TablesTyped == TableSpec => []TableTypeOK
<1>1. TableInit => TableTypeOK
  BY DEF TableInit, TableTypeOK
<1>2. TableTypeOK /\ [TableNext]_tableVars => TableTypeOK'
  BY TableTyped
<1> QED BY <1>1, <1>2, PTL DEF TableSpec

\* An answer lists an agent once.
LEMMA AgentsApart ==
    ASSUME NEW list \in Answers
    PROVE  \A i, j \in DOMAIN list : list[i].id = list[j].id => i = j
<1>1. PICK listed \in SUBSET Range(Agent), up \in Parents, known \in SUBSET Range(Agent) : list = AnswerOf(listed, up, known)
  BY DEF Answers
<1> DEFINE all == [i \in DOMAIN Agent |-> [id |-> Agent[i], parent |-> up[i], cost |-> IF Agent[i] \in known THEN CostOf[Agent[i]] ELSE Missing]]
           places == {i \in DOMAIN Agent : Agent[i] \in listed}
           S == Range(all)
<1>2. Agent \in Seq(Range(Agent)) /\ Len(Agent) \in Nat /\ DOMAIN Agent = 1..Len(Agent) /\ IsInjective(Agent)
  BY BoardAgents
<1>3. all \in Seq(S)
  <2>1. all = [i \in 1..Len(Agent) |-> all[i]]
    BY <1>2
  <2>2. \A i \in 1..Len(Agent) : all[i] \in S
    BY <1>2 DEF Range
  <2> HIDE DEF all, S
  <2> QED BY <1>2, <2>1, <2>2, SeqBuilt
<1>4. places \in SUBSET DOMAIN all /\ \A i \in DOMAIN all : all[i].id = Agent[i] /\ i \in DOMAIN Agent
  OBVIOUS
<1>5. list = Picked(all, places)
  BY <1>1 DEF AnswerOf
<1> HIDE DEF all, places, S
<1>6. /\ \A n \in DOMAIN list : Nth(places, n) \in places /\ list[n] = all[Nth(places, n)]
      /\ \A n, m \in DOMAIN list : n < m => Nth(places, n) < Nth(places, m)
      /\ DOMAIN list \in SUBSET Nat
  <2>1. /\ Picked(all, places) \in Seq(S)
        /\ \A n \in DOMAIN Picked(all, places) : Nth(places, n) \in places /\ Picked(all, places)[n] = all[Nth(places, n)]
        /\ \A n, m \in DOMAIN Picked(all, places) : n < m => Nth(places, n) < Nth(places, m)
    BY <1>3, <1>4, PickedIs
  <2>2. DOMAIN list \in SUBSET Nat
    BY <1>5, <2>1
  <2> QED BY <1>5, <2>1, <2>2
<1>7. ASSUME NEW n \in DOMAIN list, NEW m \in DOMAIN list, list[n].id = list[m].id PROVE n = m
  <2> DEFINE i == Nth(places, n)
             j == Nth(places, m)
  <2>1. i \in places /\ j \in places /\ list[n] = all[i] /\ list[m] = all[j]
    BY <1>6
  <2>2. i \in DOMAIN Agent /\ j \in DOMAIN Agent /\ Agent[i] = Agent[j]
    BY <1>4, <1>7, <2>1
  <2>3. i = j
    BY <1>2, <2>2 DEF IsInjective
  <2>4. i \in Nat /\ n \in Nat /\ m \in Nat
    BY <1>2, <1>6, <2>2
  <2>5. ~(n < m) /\ ~(m < n)
    <3>1. ~(i < j) /\ ~(j < i)
      BY <2>3, <2>4
    <3> QED BY <1>6, <3>1
  <2> QED BY <2>4, <2>5
<1> QED BY <1>7

\* What the builders make of the agents: the roots of a tree are different rows, what is under one
\* of them is there once, and every row of a lower level has its root.
Once(rows) == \A i, j \in DOMAIN rows : rows[i].id = rows[j].id /\ rows[i].parent = rows[j].parent => i = j
RootsOnce(rows) ==
    \A i, j \in DOMAIN rows : rows[i].level = 0 /\ rows[j].level = 0 /\ rows[i].id = rows[j].id => i = j
KidsRooted(rows) ==
    \A i \in DOMAIN rows : rows[i].level = 1 => \E j \in DOMAIN rows : rows[j].level = 0 /\ rows[j].id = rows[i].parent
OfAgents(rows) == \A i \in DOMAIN rows : rows[i].id[1] = "agent" /\ rows[i].count = 0
AllRoots(rows) == \A i \in DOMAIN rows : rows[i].level = 0

\* a tree of blocks, each of a root and the rows under it
BlockOf(b, root) ==
    /\ Len(b) \in Nat \ {0} /\ b[1] = root /\ root.level = 0
    /\ \A m \in 2..Len(b) : b[m].level = 1 /\ b[m].parent = root.id
    /\ \A m, l \in 2..Len(b) : b[m].id = b[l].id => m = l
TreeOf(t) ==
    \A i \in DOMAIN t : t[i].level = 1 =>
        \E j \in 1..(i-1) : t[j].id = t[i].parent /\ t[j].level = 0 /\ \A k \in (j+1)..i : t[k].level = 1

RootsFollow(t, roots) ==
    \A p, q \in DOMAIN t : p < q /\ t[p].level = 0 /\ t[q].level = 0 =>
        \E n, k \in 1..Len(roots) : n < k /\ t[p] = roots[n] /\ t[q] = roots[k]
MadeOf(t, blocks) ==
    /\ \A p \in DOMAIN t : \E n \in 1..Len(blocks) : \E m \in 1..Len(blocks[n]) : t[p] = blocks[n][m]
    /\ \A n \in 1..Len(blocks) : \A m \in 1..Len(blocks[n]) : \E p \in DOMAIN t : t[p] = blocks[n][m]

LEMMA BlocksMakeTree ==
    ASSUME NEW S, NEW blocks \in Seq(Seq(S)), NEW roots, Len(roots) = Len(blocks),
           \A n \in 1..Len(blocks) : BlockOf(blocks[n], roots[n]),
           \A n, k \in 1..Len(blocks) : roots[n].id = roots[k].id => n = k,
           \A n, k \in 1..Len(blocks) : \A l \in 2..Len(blocks[k]) :
               ~(blocks[k][l].id = roots[n].id /\ blocks[k][l].parent = roots[n].parent),
           NEW t, t = FlattenSeq(blocks)
    PROVE  t \in Seq(S) /\ TreeOf(t) /\ Once(t) /\ RootsOnce(t) /\ RootsFollow(t, roots) /\ MadeOf(t, blocks)
<1> DEFINE N == Len(blocks)
<1>1. t \in Seq(S) /\ \E blk, plc : Numbered(blocks, t, blk, plc)
  BY FlatPlaces
<1>2. PICK blk, plc : Numbered(blocks, t, blk, plc)
  BY <1>1
<1>0. DOMAIN t \in SUBSET Nat /\ DOMAIN t = 1..Len(t) /\ Len(t) \in Nat /\ N \in Nat
  BY <1>1
<1>3. /\ \A p \in DOMAIN t : blk[p] \in 1..N /\ plc[p] \in 1..Len(blocks[blk[p]]) /\ t[p] = blocks[blk[p]][plc[p]]
      /\ \A p, q \in DOMAIN t : p < q => blk[p] < blk[q] \/ (blk[p] = blk[q] /\ plc[p] < plc[q])
      /\ \A n \in 1..N : \A m \in 1..Len(blocks[n]) : \E p \in DOMAIN t : blk[p] = n /\ plc[p] = m
  BY <1>2 DEF Numbered
<1>4. ASSUME NEW n \in 1..N
      PROVE  /\ Len(blocks[n]) \in Nat \ {0} /\ blocks[n][1] = roots[n] /\ roots[n].level = 0
             /\ \A m \in 2..Len(blocks[n]) : blocks[n][m].level = 1 /\ blocks[n][m].parent = roots[n].id
             /\ \A m, l \in 2..Len(blocks[n]) : blocks[n][m].id = blocks[n][l].id => m = l
  BY DEF BlockOf
<1> HIDE DEF N
<1>5. ASSUME NEW p \in DOMAIN t
      PROVE  /\ plc[p] \in Nat \ {0} /\ blk[p] \in Nat /\ p \in Nat
             /\ plc[p] = 1 => t[p] = roots[blk[p]] /\ t[p].level = 0
             /\ plc[p] # 1 => t[p].level = 1 /\ t[p].parent = roots[blk[p]].id /\ plc[p] \in 2..Len(blocks[blk[p]])
  <2> DEFINE n == blk[p]
             m == plc[p]
  <2>1. n \in 1..N /\ m \in 1..Len(blocks[n]) /\ t[p] = blocks[n][m]
    BY <1>3
  <2>2. Len(blocks[n]) \in Nat
    BY <1>4, <2>1
  <2>3. m \in Nat \ {0} /\ n \in Nat /\ p \in Nat /\ (m # 1 => m \in 2..Len(blocks[n]))
    BY <1>0, <2>1, <2>2
  <2>4. m = 1 => t[p] = roots[n] /\ t[p].level = 0
    BY <1>4, <2>1
  <2>5. m # 1 => t[p].level = 1 /\ t[p].parent = roots[n].id
    <3>1. \A l \in 2..Len(blocks[n]) : blocks[n][l].level = 1 /\ blocks[n][l].parent = roots[n].id
      BY <1>4, <2>1
    <3> HIDE DEF n, m
    <3> QED BY <2>1, <2>3, <3>1
  <2> QED BY <2>3, <2>4, <2>5
<1>6. ASSUME NEW i \in DOMAIN t, t[i].level = 1
      PROVE  \E j \in 1..(i-1) : t[j].id = t[i].parent /\ t[j].level = 0 /\ \A k \in (j+1)..i : t[k].level = 1
  <2> DEFINE n == blk[i]
  <2>1. plc[i] # 1 /\ t[i].parent = roots[n].id /\ n \in 1..N /\ plc[i] \in Nat \ {0} /\ i \in Nat /\ n \in Nat
    BY <1>3, <1>5, <1>6
  <2>2. 1 \in 1..Len(blocks[n])
    BY <1>4, <2>1
  <2>3. PICK j \in DOMAIN t : blk[j] = n /\ plc[j] = 1
    BY <1>3, <2>1, <2>2
  <2>4. t[j] = roots[n] /\ t[j].level = 0 /\ j \in Nat /\ j # 0
    <3>1. j # 0
      BY <1>0
    <3> QED BY <1>5, <2>3, <3>1
  <2> HIDE DEF n
  <2>5. j < i
    <3>1. ~(i < j)
      <4>1. i < j => blk[i] < blk[j] \/ (blk[i] = blk[j] /\ plc[i] < plc[j])
        BY <1>3
      <4>2. blk[i] = n
        BY DEF n
      <4> QED BY <2>1, <2>3, <4>1, <4>2
    <3>2. i # j
      BY <2>1, <2>3
    <3> QED BY <2>1, <2>4, <3>1, <3>2
  <2>6. ASSUME NEW k \in (j+1)..i PROVE t[k].level = 1
    <3>1. k \in DOMAIN t /\ j < k /\ k <= i /\ k \in Nat
      BY <1>0, <2>1, <2>4
    <3>2. blk[j] < blk[k] \/ (blk[j] = blk[k] /\ plc[j] < plc[k])
      BY <1>3, <3>1
    <3>3. k = i \/ (blk[k] < blk[i] \/ (blk[k] = blk[i] /\ plc[k] < plc[i]))
      <4>1. k = i \/ k < i
        BY <2>1, <3>1
      <4> QED BY <1>3, <3>1, <4>1
    <3>4. blk[k] \in Nat /\ plc[k] \in Nat /\ blk[i] = n /\ plc[i] \in Nat
      BY <1>5, <3>1 DEF n
    <3>5. plc[k] # 1
      <4>1. CASE k = i
        BY <2>1, <4>1
      <4>2. CASE k # i
        <5>1. blk[k] < n \/ (blk[k] = n /\ plc[k] < plc[i])
          BY <3>3, <3>4, <4>2
        <5>2. n < blk[k] \/ (n = blk[k] /\ 1 < plc[k])
          BY <2>3, <3>2
        <5> QED BY <2>1, <3>4, <5>1, <5>2
      <4> QED BY <4>1, <4>2
    <3> QED BY <1>5, <3>1, <3>5
  <2>7. j \in 1..(i-1) /\ t[j].id = t[i].parent
    <3>1. t[j].id = t[i].parent
      BY <2>1, <2>4 DEF n
    <3> QED BY <2>1, <2>4, <2>5, <3>1
  <2> QED BY <2>4, <2>6, <2>7
<1>7. ASSUME NEW p \in DOMAIN t, NEW q \in DOMAIN t, p < q, t[p].level = 0, t[q].level = 0
      PROVE  blk[p] < blk[q] /\ t[p] = roots[blk[p]] /\ t[q] = roots[blk[q]] /\ blk[p] \in 1..N /\ blk[q] \in 1..N
  <2>1. plc[p] = 1 /\ plc[q] = 1
    BY <1>5, <1>7
  <2>2. blk[p] < blk[q] \/ (blk[p] = blk[q] /\ plc[p] < plc[q])
    BY <1>3, <1>7
  <2> QED BY <1>3, <1>5, <2>1, <2>2
<1>8. ASSUME NEW p \in DOMAIN t, NEW q \in DOMAIN t, blk[p] = blk[q], plc[p] = plc[q] PROVE p = q
  <2>1. p \in Nat /\ q \in Nat /\ plc[p] \in Nat /\ blk[p] \in Nat
    BY <1>5
  <2>2. ~(p < q) /\ ~(q < p)
    BY <1>3, <1>8, <2>1
  <2> QED BY <2>1, <2>2
<1>9. ASSUME NEW p \in DOMAIN t, NEW q \in DOMAIN t, t[p].id = t[q].id, t[p].parent = t[q].parent PROVE p = q
  <2>0. blk[p] \in 1..N /\ blk[q] \in 1..N
    BY <1>3
  <2>1. CASE plc[p] = 1 /\ plc[q] = 1
    <3>1. roots[blk[p]].id = roots[blk[q]].id
      BY <1>5, <1>9, <2>1
    <3>2. blk[p] = blk[q]
      BY <2>0, <3>1 DEF N
    <3> QED BY <1>8, <2>1, <3>2
  <2>2. CASE plc[p] # 1 /\ plc[q] # 1
    <3>1. roots[blk[p]].id = roots[blk[q]].id
      BY <1>5, <1>9, <2>2
    <3>2. blk[p] = blk[q]
      BY <2>0, <3>1 DEF N
    <3>3. plc[p] \in 2..Len(blocks[blk[p]]) /\ plc[q] \in 2..Len(blocks[blk[p]])
      BY <1>5, <2>2, <3>2
    <3>4. t[p] = blocks[blk[p]][plc[p]] /\ t[q] = blocks[blk[p]][plc[q]]
      BY <1>3, <3>2
    <3>5. plc[p] = plc[q]
      <4>1. \A m, l \in 2..Len(blocks[blk[p]]) : blocks[blk[p]][m].id = blocks[blk[p]][l].id => m = l
        BY <1>4, <2>0
      <4> QED BY <1>9, <3>3, <3>4, <4>1
    <3> QED BY <1>8, <3>2, <3>5
  <2>3. CASE plc[p] = 1 /\ plc[q] # 1
    <3>1. t[p] = roots[blk[p]] /\ plc[q] \in 2..Len(blocks[blk[q]]) /\ t[q] = blocks[blk[q]][plc[q]]
      BY <1>3, <1>5, <2>3
    <3> QED BY <1>9, <2>0, <3>1 DEF N
  <2>4. CASE plc[p] # 1 /\ plc[q] = 1
    <3>1. t[q] = roots[blk[q]] /\ plc[p] \in 2..Len(blocks[blk[p]]) /\ t[p] = blocks[blk[p]][plc[p]]
      BY <1>3, <1>5, <2>4
    <3>2. ~(blocks[blk[p]][plc[p]].id = roots[blk[q]].id /\ blocks[blk[p]][plc[p]].parent = roots[blk[q]].parent)
      BY <2>0, <3>1 DEF N
    <3> QED BY <1>9, <3>1, <3>2
  <2> QED BY <2>1, <2>2, <2>3, <2>4
<1>10. ASSUME NEW p \in DOMAIN t, NEW q \in DOMAIN t, t[p].level = 0, t[q].level = 0, t[p].id = t[q].id PROVE p = q
  <2>1. plc[p] = 1 /\ plc[q] = 1
    BY <1>5, <1>10
  <2>2. roots[blk[p]].id = roots[blk[q]].id /\ blk[p] \in 1..N /\ blk[q] \in 1..N
    BY <1>3, <1>5, <1>10, <2>1
  <2>3. blk[p] = blk[q]
    BY <2>2 DEF N
  <2> QED BY <1>8, <2>1, <2>3
<1>11. TreeOf(t) /\ Once(t) /\ RootsOnce(t)
  BY <1>6, <1>9, <1>10 DEF TreeOf, Once, RootsOnce
<1>12. RootsFollow(t, roots)
  <2> SUFFICES ASSUME NEW p \in DOMAIN t, NEW q \in DOMAIN t, p < q, t[p].level = 0, t[q].level = 0
               PROVE  \E n, k \in 1..Len(roots) : n < k /\ t[p] = roots[n] /\ t[q] = roots[k]
    BY DEF RootsFollow
  <2>1. blk[p] < blk[q] /\ t[p] = roots[blk[p]] /\ t[q] = roots[blk[q]] /\ blk[p] \in 1..N /\ blk[q] \in 1..N
    BY <1>7
  <2> QED BY <2>1 DEF N
<1>13. MadeOf(t, blocks)
  <2>1. \A p \in DOMAIN t : \E n \in 1..N : \E m \in 1..Len(blocks[n]) : t[p] = blocks[n][m]
    BY <1>3
  <2>2. ASSUME NEW n \in 1..N, NEW m \in 1..Len(blocks[n]) PROVE \E p \in DOMAIN t : t[p] = blocks[n][m]
    <3>1. PICK p \in DOMAIN t : blk[p] = n /\ plc[p] = m
      BY <1>3
    <3>2. t[p] = blocks[blk[p]][plc[p]]
      BY <1>3
    <3> QED BY <3>1, <3>2
  <2> QED BY <2>1, <2>2 DEF MadeOf, N
<1> QED BY <1>1, <1>11, <1>12, <1>13

SortedBy(t, by) == \A n, m \in DOMAIN t : n < m => ~Before(t[m], t[n], by)

LEMMA StableSorts ==
    ASSUME NEW rows \in Seq(TableRow), NEW by, NEW t, t = Stable(rows, by)
    PROVE  t \in Seq(TableRow) /\ SortedBy(t, by) /\ \E at : Takes(t, rows, DOMAIN rows, at)
<1> DEFINE B == BeforePlace(rows, by)
           D == DOMAIN rows
<1>1. StrictOrder(B, D) /\ \A i, j \in D : <<i, j>> \in B => ~Before(rows[j], rows[i], by)
  BY BeforeOrders
<1>2. t = Ordered(rows, B)
  BY DEF Stable
<1> HIDE DEF B
<1>3. /\ t \in Seq(TableRow)
      /\ \A n \in DOMAIN t : AtPlace(B, D, n) \in D /\ t[n] = rows[AtPlace(B, D, n)]
      /\ \A i \in D : \E n \in DOMAIN t : AtPlace(B, D, n) = i
      /\ \A n, m \in DOMAIN t : n < m => <<AtPlace(B, D, n), AtPlace(B, D, m)>> \in B
      /\ \A n, m \in DOMAIN t : AtPlace(B, D, n) = AtPlace(B, D, m) => n = m
  BY <1>1, <1>2, SortedIs
<1> DEFINE at == [n \in DOMAIN t |-> AtPlace(B, D, n)]
<1>4. \A n \in DOMAIN t : at[n] = AtPlace(B, D, n)
  OBVIOUS
<1> HIDE DEF at, D
<1>5. Takes(t, rows, D, at)
  <2>1. \A n \in DOMAIN t : at[n] \in D /\ t[n] = rows[at[n]]
    BY <1>3, <1>4
  <2>2. ASSUME NEW i \in D PROVE \E n \in DOMAIN t : at[n] = i
    <3>1. PICK n \in DOMAIN t : AtPlace(B, D, n) = i
      BY <1>3
    <3>2. at[n] = AtPlace(B, D, n)
      BY <1>4
    <3> QED BY <3>1, <3>2
  <2>3. ASSUME NEW n \in DOMAIN t, NEW m \in DOMAIN t, at[n] = at[m] PROVE n = m
    <3>1. AtPlace(B, D, n) = AtPlace(B, D, m)
      BY <1>4, <2>3
    <3> QED BY <1>3, <3>1
  <2> QED BY <2>1, <2>2, <2>3 DEF Takes
<1>6. ASSUME NEW n \in DOMAIN t, NEW m \in DOMAIN t, n < m PROVE ~Before(t[m], t[n], by)
  <2>0. at[n] = AtPlace(B, D, n) /\ at[m] = AtPlace(B, D, m)
    BY <1>4
  <2>1. <<at[n], at[m]>> \in B /\ at[n] \in D /\ at[m] \in D /\ t[n] = rows[at[n]] /\ t[m] = rows[at[m]]
    BY <1>3, <1>6, <2>0
  <2> QED BY <1>1, <2>1
<1>7. SortedBy(t, by)
  BY <1>6 DEF SortedBy
<1> QED BY <1>3, <1>5, <1>7 DEF D

RootsSorted(t, by) == \A p, q \in DOMAIN t : p < q /\ t[p].level = 0 /\ t[q].level = 0 => ~Before(t[q], t[p], by)

\* Sorting keeps every row, and those of a lower level stay under theirs.
LEMMA SortRowsKeep ==
    ASSUME NEW rows \in Seq(TableRow), NEW by, NEW tree \in BOOLEAN, NEW t, t = SortRows(rows, by, tree),
           Once(rows), tree => RootsOnce(rows) /\ KidsRooted(rows), ~tree => AllRoots(rows)
    PROVE  /\ t \in Seq(TableRow) /\ Once(t) /\ TreeOf(t) /\ RootsSorted(t, by)
           /\ \A p \in DOMAIN t : \E i \in DOMAIN rows : t[p] = rows[i]
           /\ \A i \in DOMAIN rows : \E p \in DOMAIN t : t[p] = rows[i]
<1>1. CASE ~tree
  <2>1. t = Stable(rows, by)
    BY <1>1 DEF SortRows
  <2>2. t \in Seq(TableRow) /\ SortedBy(t, by) /\ \E at : Takes(t, rows, DOMAIN rows, at)
    BY <2>1, StableSorts
  <2>3. PICK at : Takes(t, rows, DOMAIN rows, at)
    BY <2>2
  <2>4. /\ \A n \in DOMAIN t : at[n] \in DOMAIN rows /\ t[n] = rows[at[n]]
        /\ \A n, m \in DOMAIN t : at[n] = at[m] => n = m
        /\ \A i \in DOMAIN rows : \E n \in DOMAIN t : at[n] = i
    BY <2>3 DEF Takes
  <2>5. Once(t)
    <3> SUFFICES ASSUME NEW i \in DOMAIN t, NEW j \in DOMAIN t, t[i].id = t[j].id, t[i].parent = t[j].parent PROVE i = j
      BY DEF Once
    <3>1. at[i] = at[j]
      BY <2>4 DEF Once
    <3> QED BY <2>4, <3>1
  <2>6. \A n \in DOMAIN t : t[n].level = 0
    BY <1>1, <2>4 DEF AllRoots
  <2>7. TreeOf(t)
    BY <2>6 DEF TreeOf
  <2>8. RootsSorted(t, by)
    BY <2>2 DEF RootsSorted, SortedBy
  <2>9. \A p \in DOMAIN t : \E i \in DOMAIN rows : t[p] = rows[i]
    BY <2>4
  <2>10. \A i \in DOMAIN rows : \E p \in DOMAIN t : t[p] = rows[i]
    BY <2>4
  <2> QED BY <2>2, <2>5, <2>7, <2>8, <2>9, <2>10
<1>2. CASE tree
  <2> DEFINE tops == {i \in DOMAIN rows : rows[i].level = 0}
             topRows == Picked(rows, tops)
             roots == Stable(topRows, by)
             blocks == [i \in DOMAIN roots |-> <<roots[i]>> \o RowsUnder(rows, roots[i])]
             under(r) == {j \in DOMAIN rows : rows[j].level = 1 /\ rows[j].parent = r.id}
  <2>1. t = FlattenSeq(blocks)
    BY <1>2 DEF SortRows
  <2>2. tops \in SUBSET DOMAIN rows /\ \A i \in DOMAIN rows : i \in tops <=> rows[i].level = 0
    OBVIOUS
  <2>3. \A r : RowsUnder(rows, r) = Picked(rows, under(r)) /\ under(r) \in SUBSET DOMAIN rows
               /\ \A j \in under(r) : rows[j].level = 1 /\ rows[j].parent = r.id
    BY DEF RowsUnder
  <2>4. ASSUME NEW r, NEW j \in DOMAIN rows, rows[j].level = 1, rows[j].parent = r.id PROVE j \in under(r)
    BY <2>4
  <2> HIDE DEF tops, under
  <2>5. topRows \in Seq(TableRow) /\ \E a : Takes(topRows, rows, tops, a)
    BY <2>2, PickedTakes
  <2>6. PICK a : Takes(topRows, rows, tops, a)
    BY <2>5
  <2> HIDE DEF topRows
  <2>7. roots \in Seq(TableRow) /\ SortedBy(roots, by) /\ \E b : Takes(roots, topRows, DOMAIN topRows, b)
    BY <2>5, StableSorts
  <2>8. PICK b : Takes(roots, topRows, DOMAIN topRows, b)
    BY <2>7
  <2> HIDE DEF roots
  <2>0. Len(roots) \in Nat /\ DOMAIN roots = 1..Len(roots) /\ \A n \in 1..Len(roots) : roots[n] \in TableRow
    BY <2>7
  <2>9. ASSUME NEW n \in 1..Len(roots) PROVE \E i \in tops : a[b[n]] = i /\ b[n] \in DOMAIN topRows /\ roots[n] = rows[i]
    <3>1. b[n] \in DOMAIN topRows /\ roots[n] = topRows[b[n]]
      BY <2>0, <2>8 DEF Takes
    <3>2. a[b[n]] \in tops /\ topRows[b[n]] = rows[a[b[n]]]
      BY <2>6, <3>1 DEF Takes
    <3> QED BY <3>1, <3>2
  <2>10. ASSUME NEW n \in 1..Len(roots), NEW k \in 1..Len(roots), roots[n].id = roots[k].id PROVE n = k
    <3>1. PICK i \in tops : a[b[n]] = i /\ b[n] \in DOMAIN topRows /\ roots[n] = rows[i]
      BY <2>9
    <3>2. PICK j \in tops : a[b[k]] = j /\ b[k] \in DOMAIN topRows /\ roots[k] = rows[j]
      BY <2>9
    <3>3. i = j
      BY <1>2, <2>2, <2>10, <3>1, <3>2 DEF RootsOnce
    <3>4. b[n] = b[k]
      BY <2>6, <3>1, <3>2, <3>3 DEF Takes
    <3> QED BY <2>0, <2>8, <3>4 DEF Takes
  <2>11. ASSUME NEW i \in tops PROVE \E n \in 1..Len(roots) : roots[n] = rows[i]
    <3>1. PICK j \in DOMAIN topRows : a[j] = i /\ topRows[j] = rows[a[j]]
      BY <2>6 DEF Takes
    <3>2. PICK n \in DOMAIN roots : b[n] = j /\ roots[n] = topRows[b[n]]
      BY <2>8 DEF Takes
    <3> QED BY <2>0, <3>1, <3>2
  <2>12. ASSUME NEW n \in 1..Len(roots)
         PROVE  /\ blocks[n] \in Seq(TableRow) /\ BlockOf(blocks[n], roots[n])
                /\ \A m \in 2..Len(blocks[n]) : \E j \in under(roots[n]) : blocks[n][m] = rows[j]
                /\ \A j \in under(roots[n]) : \E m \in 1..Len(blocks[n]) : blocks[n][m] = rows[j]
    <3> DEFINE r == roots[n]
               U == under(r)
               rest == Picked(rows, U)
               w == blocks[n]
    <3>1. U \in SUBSET DOMAIN rows /\ \A j \in U : rows[j].level = 1 /\ rows[j].parent = r.id
      BY <2>3
    <3>2. w = <<r>> \o rest
      BY <2>0, <2>3
    <3>3. r \in TableRow /\ r.level = 0
      BY <2>0, <2>2, <2>9
    <3> HIDE DEF U, r, w
    <3>4. rest \in Seq(TableRow) /\ \E c : Takes(rest, rows, U, c)
      BY <3>1, PickedTakes
    <3>5. PICK c : Takes(rest, rows, U, c)
      BY <3>4
    <3> HIDE DEF rest
    <3>6. /\ w \in Seq(TableRow) /\ Len(rest) \in Nat /\ Len(w) = Len(rest) + 1 /\ w[1] = r
          /\ \A m \in 2..Len(w) : m - 1 \in 1..Len(rest) /\ w[m] = rest[m-1]
          /\ \A m \in 1..Len(rest) : m + 1 \in 2..Len(w) /\ w[m+1] = rest[m]
      BY <3>2, <3>3, <3>4, HeadAnd
    <3>7. DOMAIN rest = 1..Len(rest)
      BY <3>4
    <3>8. ASSUME NEW m \in 2..Len(w) PROVE c[m-1] \in U /\ w[m] = rows[c[m-1]] /\ m - 1 \in DOMAIN rest /\ m \in Nat
      <4>1. m - 1 \in DOMAIN rest /\ w[m] = rest[m-1]
        BY <3>6, <3>7
      <4> QED BY <3>5, <3>6, <4>1 DEF Takes
    <3>9. ASSUME NEW m \in 2..Len(w), NEW l \in 2..Len(w), w[m].id = w[l].id PROVE m = l
      <4>1. c[m-1] \in U /\ w[m] = rows[c[m-1]] /\ m - 1 \in DOMAIN rest /\ m \in Nat
        BY <3>8
      <4>2. c[l-1] \in U /\ w[l] = rows[c[l-1]] /\ l - 1 \in DOMAIN rest /\ l \in Nat
        BY <3>8
      <4>3. c[m-1] \in DOMAIN rows /\ c[l-1] \in DOMAIN rows /\ rows[c[m-1]].parent = rows[c[l-1]].parent
        BY <3>1, <4>1, <4>2
      <4>4. c[m-1] = c[l-1]
        BY <3>9, <4>1, <4>2, <4>3 DEF Once
      <4>5. m - 1 = l - 1
        BY <3>5, <4>1, <4>2, <4>4 DEF Takes
      <4> QED BY <4>1, <4>2, <4>5
    <3>10. \A m \in 2..Len(w) : w[m].level = 1 /\ w[m].parent = r.id
      BY <3>1, <3>8
    <3>11. BlockOf(w, r)
      <4>1. Len(w) \in Nat \ {0}
        BY <3>6
      <4>2. w[1] = r /\ r.level = 0
        BY <3>3, <3>6
      <4>3. \A m, l \in 2..Len(w) : w[m].id = w[l].id => m = l
        BY <3>9
      <4> QED BY <3>10, <4>1, <4>2, <4>3 DEF BlockOf
    <3>12. \A m \in 2..Len(w) : \E j \in U : w[m] = rows[j]
      BY <3>8
    <3>13. ASSUME NEW j \in U PROVE \E m \in 1..Len(w) : w[m] = rows[j]
      <4>1. PICK m \in DOMAIN rest : c[m] = j /\ rest[m] = rows[c[m]]
        BY <3>5 DEF Takes
      <4>2. m + 1 \in 2..Len(w) /\ w[m+1] = rest[m]
        BY <3>6, <3>7, <4>1
      <4>3. m + 1 \in 1..Len(w)
        BY <3>6, <4>2
      <4> QED BY <4>1, <4>2, <4>3
    <3> QED BY <3>6, <3>11, <3>12, <3>13 DEF w, r, U
  <2>13. blocks \in Seq(Seq(TableRow)) /\ Len(blocks) = Len(roots)
    <3> DEFINE Q == Seq(TableRow)
    <3>1. \A n \in 1..Len(roots) : blocks[n] \in Q
      BY <2>12
    <3>2. blocks = [n \in 1..Len(roots) |-> blocks[n]]
      BY <2>0
    <3> HIDE DEF blocks, Q
    <3>3. blocks \in Seq(Q) /\ Len(blocks) = Len(roots)
      BY <2>0, <3>1, <3>2, SeqBuilt
    <3> QED BY <3>3 DEF Q
  <2> HIDE DEF blocks
  <2>14. ASSUME NEW n \in 1..Len(blocks), NEW k \in 1..Len(blocks), NEW l \in 2..Len(blocks[k])
         PROVE  ~(blocks[k][l].id = roots[n].id /\ blocks[k][l].parent = roots[n].parent)
    <3>1. n \in 1..Len(roots) /\ k \in 1..Len(roots)
      BY <2>13
    <3>2. PICK j \in under(roots[k]) : blocks[k][l] = rows[j]
      BY <2>12, <3>1
    <3>3. j \in DOMAIN rows /\ rows[j].level = 1
      BY <2>3
    <3>4. PICK i \in tops : roots[n] = rows[i]
      BY <2>9, <3>1
    <3>5. i \in DOMAIN rows /\ rows[i].level = 0
      BY <2>2
    <3>6. i # j
      BY <3>3, <3>5
    <3> QED BY <3>2, <3>3, <3>4, <3>5, <3>6 DEF Once
  <2>15. t \in Seq(TableRow) /\ TreeOf(t) /\ Once(t) /\ RootsFollow(t, roots) /\ MadeOf(t, blocks)
    <3>1. \A n \in 1..Len(blocks) : BlockOf(blocks[n], roots[n])
      BY <2>12, <2>13
    <3>2. \A n, k \in 1..Len(blocks) : roots[n].id = roots[k].id => n = k
      BY <2>10, <2>13
    <3>3. \A n, k \in 1..Len(blocks) : \A l \in 2..Len(blocks[k]) :
               ~(blocks[k][l].id = roots[n].id /\ blocks[k][l].parent = roots[n].parent)
      BY <2>14
    <3>4. Len(roots) = Len(blocks)
      BY <2>13
    <3> QED BY <2>1, <2>13, <3>1, <3>2, <3>3, <3>4, BlocksMakeTree
  <2>16. RootsSorted(t, by)
    <3> SUFFICES ASSUME NEW p \in DOMAIN t, NEW q \in DOMAIN t, p < q, t[p].level = 0, t[q].level = 0
                 PROVE  ~Before(t[q], t[p], by)
      BY DEF RootsSorted
    <3>1. PICK n \in 1..Len(roots), k \in 1..Len(roots) : n < k /\ t[p] = roots[n] /\ t[q] = roots[k]
      BY <2>15 DEF RootsFollow
    <3> QED BY <2>0, <2>7, <3>1 DEF SortedBy
  <2>17. ASSUME NEW p \in DOMAIN t PROVE \E i \in DOMAIN rows : t[p] = rows[i]
    <3>1. PICK n \in 1..Len(blocks) : \E m \in 1..Len(blocks[n]) : t[p] = blocks[n][m]
      BY <2>15 DEF MadeOf
    <3>2. PICK m \in 1..Len(blocks[n]) : t[p] = blocks[n][m]
      BY <3>1
    <3>3. n \in 1..Len(roots) /\ BlockOf(blocks[n], roots[n])
      BY <2>12, <2>13
    <3>4. CASE m = 1
      <4>1. t[p] = roots[n]
        BY <3>2, <3>3, <3>4 DEF BlockOf
      <4> QED BY <2>2, <2>9, <3>3, <4>1
    <3>5. CASE m # 1
      <4>1. Len(blocks[n]) \in Nat
        BY <3>3 DEF BlockOf
      <4>2. m \in 2..Len(blocks[n])
        BY <3>5, <4>1
      <4>3. PICK j \in under(roots[n]) : blocks[n][m] = rows[j]
        BY <2>12, <3>3, <4>2
      <4> QED BY <2>3, <3>2, <4>3
    <3> QED BY <3>4, <3>5
  <2>18. ASSUME NEW i \in DOMAIN rows PROVE \E p \in DOMAIN t : t[p] = rows[i]
    <3>1. rows[i].level \in {0, 1}
      <4>1. rows[i] \in TableRow
        OBVIOUS
      <4> QED BY <4>1 DEF TableRow
    <3>2. CASE rows[i].level = 0
      <4>1. i \in tops
        BY <2>2, <3>2
      <4>2. PICK n \in 1..Len(roots) : roots[n] = rows[i]
        BY <2>11, <4>1
      <4>3. n \in 1..Len(blocks) /\ blocks[n][1] = roots[n] /\ 1 \in 1..Len(blocks[n])
        BY <2>12, <2>13 DEF BlockOf
      <4>4. \E p \in DOMAIN t : t[p] = blocks[n][1]
        BY <2>15, <4>3 DEF MadeOf
      <4> QED BY <4>2, <4>3, <4>4
    <3>3. CASE rows[i].level = 1
      <4>1. PICK j \in DOMAIN rows : rows[j].level = 0 /\ rows[j].id = rows[i].parent
        BY <1>2, <3>3 DEF KidsRooted
      <4>2. j \in tops
        BY <2>2, <4>1
      <4>3. PICK n \in 1..Len(roots) : roots[n] = rows[j]
        BY <2>11, <4>2
      <4>4. i \in under(roots[n])
        BY <2>4, <3>3, <4>1, <4>3
      <4>5. PICK m \in 1..Len(blocks[n]) : blocks[n][m] = rows[i]
        BY <2>12, <4>4
      <4>6. n \in 1..Len(blocks)
        BY <2>13
      <4>7. \E p \in DOMAIN t : t[p] = blocks[n][m]
        BY <2>15, <4>6 DEF MadeOf
      <4> QED BY <4>5, <4>7
    <3> QED BY <3>1, <3>2, <3>3
  <2> QED BY <2>15, <2>16, <2>17, <2>18
<1> QED BY <1>1, <1>2

UnderRoot(kids, root) ==
    /\ \A i \in 1..Len(kids) : kids[i].level = 1 /\ kids[i].parent = root.id
    /\ \A i, j \in 1..Len(kids) : kids[i].id = kids[j].id => i = j

LEMMA KidsBlock ==
    ASSUME NEW root \in TableRow, root.level = 0, NEW kids \in Seq(TableRow), UnderRoot(kids, root),
           NEW w, w = <<root>> \o kids
    PROVE  w \in Seq(TableRow) /\ BlockOf(w, root) /\ \A m \in 2..Len(w) : \E i \in 1..Len(kids) : w[m] = kids[i]
<1>1. /\ w \in Seq(TableRow) /\ Len(kids) \in Nat /\ Len(w) = Len(kids) + 1 /\ w[1] = root
      /\ \A m \in 2..Len(w) : m - 1 \in 1..Len(kids) /\ w[m] = kids[m-1]
  BY HeadAnd
<1>0. /\ \A i \in 1..Len(kids) : kids[i].level = 1 /\ kids[i].parent = root.id
      /\ \A i, j \in 1..Len(kids) : kids[i].id = kids[j].id => i = j
  BY DEF UnderRoot
<1>2. \A m \in 2..Len(w) : w[m].level = 1 /\ w[m].parent = root.id
  BY <1>0, <1>1
<1>3. ASSUME NEW m \in 2..Len(w), NEW l \in 2..Len(w), w[m].id = w[l].id PROVE m = l
  <2> DEFINE i == m - 1
             j == l - 1
  <2>1. i \in 1..Len(kids) /\ j \in 1..Len(kids) /\ kids[i].id = kids[j].id
    BY <1>1, <1>3
  <2>2. m \in Nat /\ l \in Nat /\ m = i + 1 /\ l = j + 1
    BY <1>1
  <2> HIDE DEF i, j
  <2>3. i = j
    BY <1>0, <2>1
  <2> QED BY <2>2, <2>3
<1>4. Len(w) \in Nat \ {0}
  BY <1>1
<1>5. \A m, l \in 2..Len(w) : w[m].id = w[l].id => m = l
  BY <1>3
<1>6. BlockOf(w, root)
  BY <1>1, <1>2, <1>4, <1>5 DEF BlockOf
<1>7. \A m \in 2..Len(w) : \E i \in 1..Len(kids) : w[m] = kids[i]
  BY <1>1
<1> QED BY <1>1, <1>6, <1>7

LEMMA AgentRowHas ==
    ASSUME NEW a, NEW level, NEW r, r = AgentRow(a, level)
    PROVE  r.id = <<"agent", a.id>> /\ r.parent = <<"agent", a.parent>> /\ r.level = level /\ r.count = 0 /\ r.group = GroupOf[a.id]
BY DEF AgentRow, Row

LEMMA AgentIn ==
    ASSUME NEW a \in BoardAgent
    PROVE  a.id \in Range(Agent) /\ a.id # Missing /\ a.id # Unlisted /\ GroupOf[a.id] \in Groups
<1>1. a.id \in Range(Agent)
  BY DEF BoardAgent
<1>2. a.id # Missing /\ a.id # Unlisted
  BY <1>1, BoardAgents
<1>3. GroupOf[a.id] \in Groups
  BY <1>1, BoardAgents DEF Groups, Range
<1> QED BY <1>1, <1>2, <1>3

\* the agents at some places of the answer, each once
LEMMA SomeAgents ==
    ASSUME agents \in Answers, NEW P \in SUBSET DOMAIN agents, NEW t, t = Picked(agents, P)
    PROVE  /\ t \in Seq(BoardAgent) /\ Len(t) \in Nat /\ DOMAIN t = 1..Len(t) /\ \A i \in 1..Len(t) : t[i] \in BoardAgent
           /\ \A i, j \in 1..Len(t) : t[i].id = t[j].id => i = j
           /\ \A i \in 1..Len(t) : \E k \in P : t[i] = agents[k]
           /\ \A k \in P : \E i \in 1..Len(t) : t[i] = agents[k]
<1>1. agents \in Seq(BoardAgent)
  BY AnswersAre
<1>2. t \in Seq(BoardAgent) /\ \E at : Takes(t, agents, P, at)
  BY <1>1, PickedTakes
<1>3. PICK at : Takes(t, agents, P, at)
  BY <1>2
<1>4. Len(t) \in Nat /\ DOMAIN t = 1..Len(t) /\ \A i \in 1..Len(t) : t[i] \in BoardAgent
  BY <1>2
<1>5. ASSUME NEW i \in 1..Len(t), NEW j \in 1..Len(t), t[i].id = t[j].id PROVE i = j
  <2>1. at[i] \in DOMAIN agents /\ at[j] \in DOMAIN agents /\ t[i] = agents[at[i]] /\ t[j] = agents[at[j]]
    BY <1>3, <1>4 DEF Takes
  <2>2. at[i] = at[j]
    BY <1>5, <2>1, AgentsApart
  <2> QED BY <1>3, <1>4, <2>2 DEF Takes
<1>6. \A i \in 1..Len(t) : \E k \in P : t[i] = agents[k]
  BY <1>3, <1>4 DEF Takes
<1>7. ASSUME NEW k \in P PROVE \E i \in 1..Len(t) : t[i] = agents[k]
  <2>1. PICK i \in DOMAIN t : at[i] = k /\ t[i] = agents[at[i]]
    BY <1>3 DEF Takes
  <2> QED BY <1>4, <2>1
<1> QED BY <1>2, <1>4, <1>5, <1>6, <1>7

LEMMA TreeRooted ==
    ASSUME NEW t \in Seq(TableRow), TreeOf(t)
    PROVE  KidsRooted(t)
<1>1. Len(t) \in Nat /\ DOMAIN t = 1..Len(t)
  OBVIOUS
<1>2. ASSUME NEW i \in DOMAIN t, t[i].level = 1 PROVE \E j \in DOMAIN t : t[j].level = 0 /\ t[j].id = t[i].parent
  <2>1. PICK j \in 1..(i-1) : t[j].id = t[i].parent /\ t[j].level = 0
    BY <1>2 DEF TreeOf
  <2>2. j \in DOMAIN t
    BY <1>1
  <2> QED BY <2>1, <2>2
<1> QED BY <1>2 DEF KidsRooted

\* panelAgents: the agents with no parent, each with its own
LEMMA AgentsWell ==
    ASSUME agents \in Answers, NEW rows, rows = panelAgents
    PROVE  rows \in Seq(TableRow) /\ Once(rows) /\ RootsOnce(rows) /\ KidsRooted(rows) /\ OfAgents(rows)
<1> DEFINE tops == {i \in DOMAIN agents : agents[i].parent = Missing}
           heads == Picked(agents, tops)
           blocks == [i \in DOMAIN heads |-> AgentBlock(heads[i])]
           roots == [i \in DOMAIN heads |-> AgentRow(heads[i], 0)]
<1>1. rows = FlattenSeq(blocks)
  BY DEF panelAgents, AgentsUnder
<1>2. tops \in SUBSET DOMAIN agents /\ \A i \in tops : agents[i].parent = Missing
  OBVIOUS
<1> HIDE DEF tops
<1>3. /\ heads \in Seq(BoardAgent) /\ Len(heads) \in Nat /\ DOMAIN heads = 1..Len(heads) /\ \A i \in 1..Len(heads) : heads[i] \in BoardAgent
      /\ \A i, j \in 1..Len(heads) : heads[i].id = heads[j].id => i = j
      /\ \A i \in 1..Len(heads) : \E k \in tops : heads[i] = agents[k]
  BY <1>2, SomeAgents
<1> HIDE DEF heads
<1> DEFINE N == Len(heads)
<1>4. \A i \in 1..N : blocks[i] = AgentBlock(heads[i]) /\ roots[i] = AgentRow(heads[i], 0)
  BY <1>3
<1>5. blocks = [i \in 1..N |-> blocks[i]] /\ roots = [i \in 1..N |-> roots[i]]
  BY <1>3
<1> HIDE DEF blocks, roots
<1>6. ASSUME NEW n \in 1..N
      PROVE  /\ roots[n] \in TableRow /\ roots[n].id = <<"agent", heads[n].id>> /\ roots[n].parent = <<"agent", Missing>>
             /\ roots[n].level = 0 /\ roots[n].count = 0
  <2>1. heads[n] \in BoardAgent /\ heads[n].parent = Missing
    BY <1>2, <1>3
  <2>2. GroupOf[heads[n].id] \in Groups
    BY <2>1, AgentIn
  <2>3. roots[n] \in TableRow
    BY <1>4, <2>1, <2>2, RowOfAgent
  <2>4. /\ roots[n].id = <<"agent", heads[n].id>> /\ roots[n].parent = <<"agent", heads[n].parent>>
        /\ roots[n].level = 0 /\ roots[n].count = 0
    BY <1>4, AgentRowHas
  <2> QED BY <2>1, <2>3, <2>4
<1>7. ASSUME NEW n \in 1..N
      PROVE  /\ blocks[n] \in Seq(TableRow) /\ BlockOf(blocks[n], roots[n])
             /\ \A m \in 2..Len(blocks[n]) : blocks[n][m].parent = <<"agent", heads[n].id>> /\ blocks[n][m].count = 0 /\ blocks[n][m].id[1] = "agent"
  <2> DEFINE a == heads[n]
             under == {i \in DOMAIN agents : agents[i].parent = a.id}
             kids == Picked(agents, under)
             all == [i \in DOMAIN kids |-> AgentRow(kids[i], 1)]
             rest == IF <<"agent", a.id>> \in folded THEN <<>> ELSE all
             w == blocks[n]
  <2>1. w = <<roots[n]>> \o rest
    BY <1>4 DEF AgentBlock, AgentsUnder
  <2>2. under \in SUBSET DOMAIN agents /\ \A i \in under : agents[i].parent = a.id
    OBVIOUS
  <2> HIDE DEF under
  <2>3. /\ kids \in Seq(BoardAgent) /\ Len(kids) \in Nat /\ DOMAIN kids = 1..Len(kids) /\ \A i \in 1..Len(kids) : kids[i] \in BoardAgent
        /\ \A i, j \in 1..Len(kids) : kids[i].id = kids[j].id => i = j
        /\ \A i \in 1..Len(kids) : \E k \in under : kids[i] = agents[k]
    BY <2>2, SomeAgents
  <2> HIDE DEF kids
  <2>4. \A i \in 1..Len(kids) : all[i] = AgentRow(kids[i], 1)
    BY <2>3
  <2>5. all = [i \in 1..Len(kids) |-> all[i]]
    BY <2>3
  <2> HIDE DEF all, w
  <2>6. ASSUME NEW i \in 1..Len(kids)
        PROVE  /\ all[i] \in TableRow /\ all[i].id = <<"agent", kids[i].id>> /\ all[i].parent = <<"agent", a.id>>
               /\ all[i].level = 1 /\ all[i].count = 0
    <3>1. kids[i] \in BoardAgent /\ kids[i].parent = a.id
      BY <2>2, <2>3
    <3>2. GroupOf[kids[i].id] \in Groups
      BY <3>1, AgentIn
    <3>3. all[i] \in TableRow
      BY <2>4, <3>1, <3>2, RowOfAgent
    <3>4. /\ all[i].id = <<"agent", kids[i].id>> /\ all[i].parent = <<"agent", kids[i].parent>>
          /\ all[i].level = 1 /\ all[i].count = 0
      BY <2>4, AgentRowHas
    <3> QED BY <3>1, <3>3, <3>4
  <2>7. all \in Seq(TableRow) /\ Len(all) = Len(kids)
    BY <2>3, <2>5, <2>6, SeqBuilt
  <2>8. rest \in Seq(TableRow) /\ \A i \in 1..Len(rest) : i \in 1..Len(kids) /\ rest[i] = all[i]
    BY <2>7
  <2> HIDE DEF rest
  <2>9. roots[n] \in TableRow /\ roots[n].level = 0 /\ roots[n].id = <<"agent", a.id>>
    BY <1>6
  <2> HIDE DEF a
  <2>10. \A i \in 1..Len(rest) : rest[i].level = 1 /\ rest[i].parent = roots[n].id
    BY <2>6, <2>8, <2>9
  <2>11. ASSUME NEW i \in 1..Len(rest), NEW j \in 1..Len(rest), rest[i].id = rest[j].id PROVE i = j
    <3>1. i \in 1..Len(kids) /\ j \in 1..Len(kids) /\ rest[i] = all[i] /\ rest[j] = all[j]
      BY <2>8
    <3>2. <<"agent", kids[i].id>> = <<"agent", kids[j].id>>
      BY <2>6, <2>11, <3>1
    <3>3. kids[i].id = kids[j].id
      BY <3>2
    <3> QED BY <2>3, <3>1, <3>3
  <2>12. \A i, j \in 1..Len(rest) : rest[i].id = rest[j].id => i = j
    BY <2>11
  <2>13. w \in Seq(TableRow) /\ BlockOf(w, roots[n]) /\ \A m \in 2..Len(w) : \E i \in 1..Len(rest) : w[m] = rest[i]
    <3>1. rest \in Seq(TableRow)
      BY <2>8
    <3>2. roots[n] \in TableRow
      BY <2>9
    <3>3. roots[n].level = 0
      BY <2>9
    <3>4. UnderRoot(rest, roots[n])
      BY <2>10, <2>12 DEF UnderRoot
    <3> HIDE DEF N
    <3>5. w \in Seq(TableRow) /\ BlockOf(w, roots[n])
      BY <2>1, <3>1, <3>2, <3>3, <3>4, KidsBlock
    <3>6. \A m \in 2..Len(w) : \E i \in 1..Len(rest) : w[m] = rest[i]
      BY <2>1, <3>1, <3>2, <3>3, <3>4, KidsBlock
    <3> QED BY <3>5, <3>6
  <2>14. ASSUME NEW m \in 2..Len(w) PROVE w[m].parent = <<"agent", a.id>> /\ w[m].count = 0 /\ w[m].id[1] = "agent"
    <3>1. PICK i \in 1..Len(rest) : w[m] = rest[i]
      BY <2>13
    <3>2. i \in 1..Len(kids) /\ rest[i] = all[i]
      BY <2>8
    <3>3. all[i].id = <<"agent", kids[i].id>> /\ all[i].parent = <<"agent", a.id>> /\ all[i].count = 0
      BY <2>6, <3>2
    <3>4. w[m] = all[i]
      BY <3>1, <3>2
    <3> QED BY <3>3, <3>4
  <2> QED BY <2>13, <2>14 DEF w, a
<1>8. blocks \in Seq(Seq(TableRow)) /\ Len(blocks) = N /\ Len(roots) = N
  <2> DEFINE Q == Seq(TableRow)
  <2>1. \A n \in 1..N : blocks[n] \in Q
    BY <1>7
  <2> HIDE DEF Q
  <2>2. blocks \in Seq(Q) /\ Len(blocks) = N
    BY <1>3, <1>5, <2>1, SeqBuilt
  <2>3. \A n \in 1..N : roots[n] \in TableRow
    BY <1>6
  <2>4. Len(roots) = N
    BY <1>3, <1>5, <2>3, SeqBuilt
  <2> QED BY <2>2, <2>4 DEF Q
<1>9. ASSUME NEW n \in 1..N, NEW k \in 1..N, roots[n].id = roots[k].id PROVE n = k
  <2>1. <<"agent", heads[n].id>> = <<"agent", heads[k].id>>
    BY <1>6, <1>9
  <2>2. heads[n].id = heads[k].id
    BY <2>1
  <2> QED BY <1>3, <2>2
<1>10. ASSUME NEW n \in 1..N, NEW k \in 1..N, NEW l \in 2..Len(blocks[k])
       PROVE  ~(blocks[k][l].id = roots[n].id /\ blocks[k][l].parent = roots[n].parent)
  <2>1. blocks[k][l].parent = <<"agent", heads[k].id>> /\ roots[n].parent = <<"agent", Missing>>
    BY <1>6, <1>7
  <2>2. heads[k].id # Missing
    BY <1>3, AgentIn
  <2>3. <<"agent", heads[k].id>> # <<"agent", Missing>>
    BY <2>2
  <2> QED BY <2>1, <2>3
<1>11. rows \in Seq(TableRow) /\ TreeOf(rows) /\ Once(rows) /\ RootsOnce(rows) /\ MadeOf(rows, blocks)
  <2>1. Len(roots) = Len(blocks)
    BY <1>8
  <2>2. \A n \in 1..Len(blocks) : BlockOf(blocks[n], roots[n])
    BY <1>7, <1>8
  <2>3. \A n, k \in 1..Len(blocks) : roots[n].id = roots[k].id => n = k
    BY <1>8, <1>9
  <2>4. \A n, k \in 1..Len(blocks) : \A l \in 2..Len(blocks[k]) :
               ~(blocks[k][l].id = roots[n].id /\ blocks[k][l].parent = roots[n].parent)
    BY <1>8, <1>10
  <2> QED BY <1>1, <1>8, <2>1, <2>2, <2>3, <2>4, BlocksMakeTree
<1>12. ASSUME NEW p \in DOMAIN rows PROVE rows[p].id[1] = "agent" /\ rows[p].count = 0
  <2>0. PICK n \in 1..Len(blocks) : \E m \in 1..Len(blocks[n]) : rows[p] = blocks[n][m]
    BY <1>11 DEF MadeOf
  <2>1. n \in 1..N /\ \E m \in 1..Len(blocks[n]) : rows[p] = blocks[n][m]
    BY <1>8, <2>0
  <2>2. PICK m \in 1..Len(blocks[n]) : rows[p] = blocks[n][m]
    BY <2>1
  <2>3. CASE m = 1
    <3>1. rows[p] = roots[n]
      BY <1>7, <2>1, <2>2, <2>3 DEF BlockOf
    <3> QED BY <1>6, <2>1, <3>1
  <2>4. CASE m # 1
    <3>1. m \in 2..Len(blocks[n])
      <4>1. Len(blocks[n]) \in Nat
        BY <1>7, <2>1 DEF BlockOf
      <4> QED BY <2>4, <4>1
    <3> QED BY <1>7, <2>1, <2>2, <3>1
  <2> QED BY <2>3, <2>4
<1> QED BY <1>11, <1>12, TreeRooted DEF OfAgents

\* panelByModel: the models, each with the agents that used it
LEMMA ModelsWell ==
    ASSUME agents \in Answers, NEW rows, rows = panelByModel
    PROVE  rows \in Seq(TableRow) /\ Once(rows) /\ RootsOnce(rows) /\ KidsRooted(rows)
<1> DEFINE N == Len(Agent)
           G(i) == GroupOf[Agent[i]]
           firsts == {i \in DOMAIN Agent : \A j \in 1..(i-1) : GroupOf[Agent[j]] # GroupOf[Agent[i]]}
           new == Picked([i \in DOMAIN Agent |-> i], firsts)
           blocks == [n \in DOMAIN new |-> ModelBlock(GroupOf[Agent[new[n]]], n)]
           head(n) == [Row("model", G(new[n]), Missing, 0, G(new[n]), Len(UsersOf(G(new[n])))) EXCEPT !.name = n]
           roots == [n \in DOMAIN new |-> head(n)]
<1>1. rows = FlattenSeq(blocks)
  BY DEF panelByModel
<1>2. N \in Nat /\ DOMAIN Agent = 1..N /\ \A i \in 1..N : G(i) \in Groups
  <2>1. N \in Nat /\ DOMAIN Agent = 1..N /\ DOMAIN GroupOf = Range(Agent)
    BY BoardAgents
  <2>2. \A i \in 1..N : Agent[i] \in DOMAIN GroupOf
    BY <2>1 DEF Range
  <2> QED BY <2>1, <2>2 DEF Groups, Range
<1>3. firsts \in SUBSET (1..N) /\ \A i \in firsts : \A j \in 1..(i-1) : G(j) # G(i)
  BY <1>2
<1> HIDE DEF firsts, N
<1>4. /\ new \in Seq(1..N) /\ Len(new) \in Nat /\ DOMAIN new = 1..Len(new)
      /\ \A n \in 1..Len(new) : new[n] \in firsts
      /\ \A n, k \in 1..Len(new) : new[n] = new[k] => n = k
  <2> DEFINE s == [i \in 1..N |-> i]
  <2>1. [i \in DOMAIN Agent |-> i] = s
    BY <1>2
  <2>2. new = Picked(s, firsts)
    BY <2>1
  <2>3. s = [i \in 1..N |-> s[i]] /\ \A i \in 1..N : s[i] = i /\ s[i] \in 1..N
    OBVIOUS
  <2> HIDE DEF s, new
  <2>4. s \in Seq(1..N) /\ DOMAIN s = 1..N
    BY <1>2, <2>3, SeqBuilt
  <2>5. firsts \in SUBSET DOMAIN s
    BY <1>3, <2>4
  <2>6. new \in Seq(1..N) /\ \E at : Takes(new, s, firsts, at)
    BY <2>2, <2>4, <2>5, PickedTakes
  <2>7. PICK at : Takes(new, s, firsts, at)
    BY <2>6
  <2>8. \A n \in DOMAIN new : at[n] \in firsts /\ new[n] = s[at[n]]
    BY <2>7 DEF Takes
  <2>9. \A n \in DOMAIN new : new[n] = at[n] /\ new[n] \in firsts
    BY <1>3, <2>3, <2>8
  <2>10. \A n, k \in DOMAIN new : new[n] = new[k] => n = k
    BY <2>7, <2>9 DEF Takes
  <2>11. Len(new) \in Nat /\ DOMAIN new = 1..Len(new)
    BY <2>6
  <2> QED BY <2>6, <2>9, <2>10, <2>11
<1> HIDE DEF new, G
<1> DEFINE M == Len(new)
<1>5. ASSUME NEW n \in 1..M, NEW k \in 1..M, G(new[n]) = G(new[k]) PROVE n = k
  <2>0. \A i \in firsts : i \in Nat /\ i # 0
    BY <1>2, <1>3
  <2>1. new[n] \in firsts /\ new[k] \in firsts /\ new[n] \in Nat /\ new[k] \in Nat /\ new[n] # 0 /\ new[k] # 0
    BY <1>4, <2>0
  <2>2. ~(new[n] < new[k])
    <3>1. new[n] < new[k] => new[n] \in 1..(new[k] - 1)
      BY <2>1
    <3> QED BY <1>3, <1>5, <2>1, <3>1
  <2>3. ~(new[k] < new[n])
    <3>1. new[k] < new[n] => new[k] \in 1..(new[n] - 1)
      BY <2>1
    <3> QED BY <1>3, <1>5, <2>1, <3>1
  <2>4. new[n] = new[k]
    BY <2>1, <2>2, <2>3
  <2> QED BY <1>4, <2>4
<1>6. \A n \in 1..M : G(new[n]) \in Groups /\ n \in Nat
  BY <1>2, <1>3, <1>4
<1>7. \A n \in 1..M : blocks[n] = ModelBlock(G(new[n]), n) /\ roots[n] = head(n)
  BY <1>4 DEF G
<1>8. blocks = [n \in 1..M |-> blocks[n]] /\ roots = [n \in 1..M |-> roots[n]]
  BY <1>4
<1> HIDE DEF blocks, roots
<1>9. ASSUME NEW n \in 1..M
      PROVE  /\ roots[n] \in TableRow /\ roots[n].id = <<"model", G(new[n])>> /\ roots[n].level = 0
             /\ blocks[n] \in Seq(TableRow) /\ BlockOf(blocks[n], roots[n])
             /\ \A m \in 2..Len(blocks[n]) : blocks[n][m].id[1] = "agent"
  <2> DEFINE g == G(new[n])
             places == {i \in DOMAIN agents : GroupOf[agents[i].id] = g}
             users == Picked(agents, places)
             all == [i \in DOMAIN users |-> UserRow(users[i], g)]
             rest == IF <<"model", g>> \notin folded THEN <<>> ELSE all
             w == blocks[n]
  <2>1. w = <<roots[n]>> \o rest
    BY <1>7 DEF ModelBlock, UsersOf
  <2>2. places \in SUBSET DOMAIN agents
    OBVIOUS
  <2>3. UsersOf(g) = users
    BY DEF UsersOf
  <2> HIDE DEF places
  <2>4. /\ users \in Seq(BoardAgent) /\ Len(users) \in Nat /\ DOMAIN users = 1..Len(users) /\ \A i \in 1..Len(users) : users[i] \in BoardAgent
        /\ \A i, j \in 1..Len(users) : users[i].id = users[j].id => i = j
    BY <2>2, SomeAgents
  <2> HIDE DEF users
  <2>5. g \in Groups /\ n \in Nat
    BY <1>6
  <2>6. \A i \in 1..Len(users) : all[i] = UserRow(users[i], g)
    BY <2>4
  <2>7. all = [i \in 1..Len(users) |-> all[i]]
    BY <2>4
  <2>8. roots[n] = [id |-> <<"model", g>>, parent |-> <<"model", Missing>>, level |-> 0, group |-> g,
                    name |-> n, cost |-> Len(users), count |-> 0]
    BY <1>7, <2>3 DEF Row
  <2> HIDE DEF all, w, g
  <2>9. roots[n] \in TableRow
    <3>1. <<"model", g>> \in TableIds /\ <<"model", Missing>> \in TableParents
      BY <2>5 DEF TableIds, TableParents
    <3> QED BY <2>4, <2>5, <2>8, <3>1 DEF TableRow
  <2>10. roots[n].id = <<"model", g>> /\ roots[n].level = 0
    BY <2>8
  <2>11. ASSUME NEW i \in 1..Len(users)
         PROVE  /\ all[i] \in TableRow /\ all[i].id = <<"agent", users[i].id>> /\ all[i].parent = <<"model", g>>
                /\ all[i].level = 1
    <3>1. users[i] \in BoardAgent
      BY <2>4
    <3>2. all[i] \in TableRow
      BY <2>5, <2>6, <3>1, RowOfAgent
    <3>3. all[i].id = <<"agent", users[i].id>> /\ all[i].parent = <<"model", g>> /\ all[i].level = 1
      BY <2>6 DEF UserRow, AgentRow, Row
    <3> QED BY <3>2, <3>3
  <2>12. all \in Seq(TableRow) /\ Len(all) = Len(users)
    BY <2>4, <2>7, <2>11, SeqBuilt
  <2>13. rest \in Seq(TableRow) /\ \A i \in 1..Len(rest) : i \in 1..Len(users) /\ rest[i] = all[i]
    BY <2>12
  <2> HIDE DEF rest
  <2>14. \A i \in 1..Len(rest) : rest[i].level = 1 /\ rest[i].parent = roots[n].id
    BY <2>10, <2>11, <2>13
  <2>15. ASSUME NEW i \in 1..Len(rest), NEW j \in 1..Len(rest), rest[i].id = rest[j].id PROVE i = j
    <3>1. i \in 1..Len(users) /\ j \in 1..Len(users) /\ rest[i] = all[i] /\ rest[j] = all[j]
      BY <2>13
    <3>2. <<"agent", users[i].id>> = <<"agent", users[j].id>>
      BY <2>11, <2>15, <3>1
    <3>3. users[i].id = users[j].id
      BY <3>2
    <3> QED BY <2>4, <3>1, <3>3
  <2>16. UnderRoot(rest, roots[n])
    BY <2>14, <2>15 DEF UnderRoot
  <2>17. rest \in Seq(TableRow)
    BY <2>13
  <2>18. roots[n].level = 0
    BY <2>10
  <2> HIDE DEF M
  <2>19. w \in Seq(TableRow) /\ BlockOf(w, roots[n])
    BY <2>1, <2>9, <2>16, <2>17, <2>18, KidsBlock
  <2>20. \A m \in 2..Len(w) : \E i \in 1..Len(rest) : w[m] = rest[i]
    BY <2>1, <2>9, <2>16, <2>17, <2>18, KidsBlock
  <2>21. ASSUME NEW m \in 2..Len(w) PROVE w[m].id[1] = "agent"
    <3>1. PICK i \in 1..Len(rest) : w[m] = rest[i]
      BY <2>20
    <3>2. i \in 1..Len(users) /\ rest[i] = all[i]
      BY <2>13
    <3>3. all[i].id = <<"agent", users[i].id>>
      BY <2>11, <3>2
    <3>4. w[m] = all[i]
      BY <3>1, <3>2
    <3> QED BY <3>3, <3>4
  <2> QED BY <2>9, <2>10, <2>19, <2>21 DEF w, g
<1>10. blocks \in Seq(Seq(TableRow)) /\ Len(blocks) = M /\ Len(roots) = M
  <2> DEFINE Q == Seq(TableRow)
  <2>1. \A n \in 1..M : blocks[n] \in Q
    BY <1>9
  <2> HIDE DEF Q
  <2>2. blocks \in Seq(Q) /\ Len(blocks) = M
    BY <1>4, <1>8, <2>1, SeqBuilt
  <2>3. \A n \in 1..M : roots[n] \in TableRow
    BY <1>9
  <2>4. Len(roots) = M
    BY <1>4, <1>8, <2>3, SeqBuilt
  <2> QED BY <2>2, <2>4 DEF Q
<1>11. ASSUME NEW n \in 1..M, NEW k \in 1..M, roots[n].id = roots[k].id PROVE n = k
  <2>1. <<"model", G(new[n])>> = <<"model", G(new[k])>>
    BY <1>9, <1>11
  <2>2. G(new[n]) = G(new[k])
    BY <2>1
  <2> QED BY <1>5, <2>2
<1>12. ASSUME NEW n \in 1..M, NEW k \in 1..M, NEW l \in 2..Len(blocks[k])
       PROVE  ~(blocks[k][l].id = roots[n].id /\ blocks[k][l].parent = roots[n].parent)
  <2>1. blocks[k][l].id[1] = "agent"
    BY <1>9
  <2>2. roots[n].id[1] = "model"
    BY <1>9
  <2> QED BY <2>1, <2>2
<1>13. rows \in Seq(TableRow) /\ TreeOf(rows) /\ Once(rows) /\ RootsOnce(rows)
  <2>1. Len(roots) = Len(blocks)
    BY <1>10
  <2>2. \A n \in 1..Len(blocks) : BlockOf(blocks[n], roots[n])
    BY <1>9, <1>10
  <2>3. \A n, k \in 1..Len(blocks) : roots[n].id = roots[k].id => n = k
    BY <1>10, <1>11
  <2>4. \A n, k \in 1..Len(blocks) : \A l \in 2..Len(blocks[k]) :
               ~(blocks[k][l].id = roots[n].id /\ blocks[k][l].parent = roots[n].parent)
    BY <1>10, <1>12
  <2> QED BY <1>1, <1>10, <2>1, <2>2, <2>3, <2>4, BlocksMakeTree
<1> QED BY <1>13, TreeRooted

PanelKinds == {"agents", "models", "list"}

LEMMA RowsWell ==
    ASSUME agents \in Answers, panel \in Panels, NEW rows, rows = Rows
    PROVE  /\ rows \in Seq(TableRow) /\ Once(rows) /\ panel.kind \in PanelKinds
           /\ Tree => RootsOnce(rows) /\ KidsRooted(rows)
           /\ ~Tree => AllRoots(rows)
           /\ panel.kind = "agents" => OfAgents(rows)
<1>0. panel.kind \in PanelKinds
  <2>1. \A p \in Panels : p.kind \in PanelKinds
    BY DEF PanelKinds, Panels, Table, ListPanel, AgentsPanel, ByModelPanel, panelByRole, panelProjects, panelPrompts,
           panelProjectPrompts, panelSkills, panelToolCalls, panelConfirms, panelErrors, panelLoops, panelChanges,
           panelTests, panelMemFiles, panelProcs, panelSelf, chartTable
  <2> QED BY <2>1
<1>1. CASE panel.kind = "agents"
  <2>1. rows = panelAgents /\ Tree
    BY <1>1 DEF Rows, Tree
  <2> QED BY <1>0, <2>1, AgentsWell
<1>2. CASE panel.kind = "models"
  <2>1. rows = panelByModel /\ Tree /\ panel.kind # "agents"
    BY <1>2 DEF Rows, Tree
  <2> QED BY <1>0, <2>1, ModelsWell
<1>3. CASE panel.kind = "list"
  <2> DEFINE list == [i \in DOMAIN agents |-> AgentRow([agents[i] EXCEPT !.parent = Missing], 0)]
  <2>1. rows = list /\ ~Tree /\ panel.kind # "agents"
    BY <1>3 DEF Rows, Tree
  <2>2. rows \in Seq(TableRow)
    BY TableRowsAre
  <2>3. agents \in Seq(BoardAgent)
    BY AnswersAre
  <2>4. \A i \in DOMAIN list : i \in DOMAIN agents /\ list[i].id = <<"agent", agents[i].id>> /\ list[i].level = 0
    <3> SUFFICES ASSUME NEW i \in DOMAIN agents PROVE list[i].id = <<"agent", agents[i].id>> /\ list[i].level = 0
      OBVIOUS
    <3>1. agents[i] \in BoardAgent
      BY <2>3
    <3>2. [agents[i] EXCEPT !.parent = Missing].id = agents[i].id
      BY <3>1 DEF BoardAgent
    <3> DEFINE a == [agents[i] EXCEPT !.parent = Missing]
               r == list[i]
    <3>3. r = AgentRow(a, 0) /\ a.id = agents[i].id
      BY <3>2
    <3> HIDE DEF a, r
    <3>4. r.id = <<"agent", a.id>> /\ r.level = 0
      BY <3>3, AgentRowHas
    <3>5. r.id = <<"agent", agents[i].id>> /\ r.level = 0
      BY <3>3, <3>4
    <3> QED BY <3>5 DEF r
  <2> HIDE DEF list
  <2>5. Once(list)
    <3> SUFFICES ASSUME NEW i \in DOMAIN list, NEW j \in DOMAIN list, list[i].id = list[j].id PROVE i = j
      BY DEF Once
    <3>1. <<"agent", agents[i].id>> = <<"agent", agents[j].id>> /\ i \in DOMAIN agents /\ j \in DOMAIN agents
      BY <2>4
    <3>2. agents[i].id = agents[j].id
      BY <3>1
    <3> QED BY <3>1, <3>2, AgentsApart
  <2>6. AllRoots(list)
    BY <2>4 DEF AllRoots
  <2> QED BY <1>0, <2>1, <2>2, <2>5, <2>6
<1> QED BY <1>0, <1>1, <1>2, <1>3 DEF PanelKinds

\* The list has the rows that the panel builds, in the order chosen, unless it is cut.
LEMMA ListWell ==
    ASSUME agents \in Answers, panel \in Panels, NEW t, t = List
    PROVE  /\ t \in Seq(TableRow) /\ Once(t) /\ TreeOf(t) /\ RootsSorted(t, Sorted)
           /\ Limited \/ \A r \in Range(Rows) : r \in Range(t)
           /\ panel.kind = "agents" => OfAgents(t)
<1> DEFINE rows == Rows
           whole == SortRows(rows, Sorted, Tree)
<1>1. /\ rows \in Seq(TableRow) /\ Once(rows)
      /\ Tree => RootsOnce(rows) /\ KidsRooted(rows)
      /\ ~Tree => AllRoots(rows)
      /\ panel.kind = "agents" => OfAgents(rows)
  BY RowsWell
<1> DEFINE by == Sorted
           tree == Tree
<1>2. tree \in BOOLEAN /\ (tree => RootsOnce(rows) /\ KidsRooted(rows)) /\ (~tree => AllRoots(rows))
  BY <1>1 DEF Tree
<1>15. whole = SortRows(rows, by, tree)
  OBVIOUS
<1> HIDE DEF rows, whole, by, tree
<1>3. /\ whole \in Seq(TableRow) /\ Once(whole) /\ TreeOf(whole) /\ RootsSorted(whole, Sorted)
      /\ \A p \in DOMAIN whole : \E i \in DOMAIN rows : whole[p] = rows[i]
      /\ \A i \in DOMAIN rows : \E p \in DOMAIN whole : whole[p] = rows[i]
  <2>0. rows \in Seq(TableRow) /\ Once(rows)
    BY <1>1
  <2>1. whole \in Seq(TableRow) /\ Once(whole) /\ TreeOf(whole) /\ RootsSorted(whole, by)
    BY <1>2, <1>15, <2>0, SortRowsKeep
  <2>2. \A p \in DOMAIN whole : \E i \in DOMAIN rows : whole[p] = rows[i]
    BY <1>2, <1>15, <2>0, SortRowsKeep
  <2>3. \A i \in DOMAIN rows : \E p \in DOMAIN whole : whole[p] = rows[i]
    BY <1>2, <1>15, <2>0, SortRowsKeep
  <2> QED BY <2>1, <2>2, <2>3 DEF by
<1>4. t = IF Limited THEN SubSeq(whole, 1, Min({panel.limit, Len(whole)})) ELSE whole
  BY DEF List, rows, whole, by, tree
<1>5. panel.limit \in Nat
  <2>1. Limit \in Nat
    BY BoardAgents
  <2>2. \A p \in Panels : p.limit \in {0, Limit}
    BY DEF Panels, Table, ListPanel, AgentsPanel, ByModelPanel, panelByRole, panelProjects, panelPrompts,
           panelProjectPrompts, panelSkills, panelToolCalls, panelConfirms, panelErrors, panelLoops, panelChanges,
           panelTests, panelMemFiles, panelProcs, panelSelf, chartTable
  <2> QED BY <2>1, <2>2
<1> DEFINE cut == SubSeq(whole, 1, Min({panel.limit, Len(whole)}))
<1>6. cut \in Seq(TableRow) /\ \A i \in DOMAIN cut : i \in DOMAIN whole /\ cut[i] = whole[i]
  BY <1>3, <1>5, CutSeq
<1>7. t = cut \/ t = whole
  BY <1>4
<1> HIDE DEF cut
<1>8. t \in Seq(TableRow) /\ \A i \in DOMAIN t : i \in DOMAIN whole /\ t[i] = whole[i]
  BY <1>3, <1>6, <1>7
<1>9. Len(t) \in Nat /\ DOMAIN t = 1..Len(t)
  BY <1>8
<1>10. Once(t)
  BY <1>3, <1>8 DEF Once
<1>11. RootsSorted(t, Sorted)
  <2> SUFFICES ASSUME NEW p \in DOMAIN t, NEW q \in DOMAIN t, p < q, t[p].level = 0, t[q].level = 0
               PROVE  ~Before(t[q], t[p], Sorted)
    BY DEF RootsSorted
  <2>1. p \in DOMAIN whole /\ q \in DOMAIN whole /\ t[p] = whole[p] /\ t[q] = whole[q]
    BY <1>8
  <2> QED BY <1>3, <2>1 DEF RootsSorted
<1>12. TreeOf(t)
  <2> SUFFICES ASSUME NEW i \in DOMAIN t, t[i].level = 1
               PROVE  \E j \in 1..(i-1) : t[j].id = t[i].parent /\ t[j].level = 0 /\ \A k \in (j+1)..i : t[k].level = 1
    BY DEF TreeOf
  <2>1. i \in DOMAIN whole /\ t[i] = whole[i]
    BY <1>8
  <2>2. PICK j \in 1..(i-1) : whole[j].id = whole[i].parent /\ whole[j].level = 0 /\ \A k \in (j+1)..i : whole[k].level = 1
    BY <1>3, <2>1 DEF TreeOf
  <2>3. j \in DOMAIN t /\ \A k \in (j+1)..i : k \in DOMAIN t
    BY <1>9
  <2>4. t[j] = whole[j] /\ \A k \in (j+1)..i : t[k] = whole[k]
    BY <1>8, <2>3
  <2> QED BY <2>1, <2>2, <2>4
<1>13. Limited \/ \A r \in Range(rows) : r \in Range(t)
  <2> SUFFICES ASSUME ~Limited, NEW r \in Range(rows) PROVE r \in Range(t)
    OBVIOUS
  <2>1. t = whole
    BY <1>4
  <2>2. PICK i \in DOMAIN rows : r = rows[i]
    BY DEF Range
  <2>3. PICK p \in DOMAIN whole : whole[p] = rows[i]
    BY <1>3
  <2> QED BY <2>1, <2>2, <2>3 DEF Range
<1>14. panel.kind = "agents" => OfAgents(t)
  <2> SUFFICES ASSUME panel.kind = "agents", NEW i \in DOMAIN t PROVE t[i].id[1] = "agent" /\ t[i].count = 0
    BY DEF OfAgents
  <2>1. PICK j \in DOMAIN rows : t[i] = rows[j]
    BY <1>3, <1>8
  <2> QED BY <1>1, <2>1 DEF OfAgents
<1> QED BY <1>8, <1>10, <1>11, <1>12, <1>13, <1>14 DEF rows

TopsOf(list, g) == {k \in DOMAIN list : list[k].level = 0 /\ list[k].group = g}

\* t shows a group: its row, which counts the agents with no parent, and unless it is folded its rows
ShowsGroup(t, list, g) ==
    /\ Len(t) \in Nat \ {0} /\ t[1].id = <<"group", g>> /\ t[1].count = Cardinality(TopsOf(list, g))
    /\ \A m \in 2..Len(t) : \E k \in DOMAIN list : t[m] = list[k] /\ list[k].group = g
    /\ \A m, l \in 2..Len(t) : t[m] = t[l] => m = l
    /\ <<"group", g>> \notin folded => \A k \in DOMAIN list : list[k].group = g => \E m \in 2..Len(t) : t[m] = list[k]

LEMMA TopsAre ==
    ASSUME NEW list \in Seq(TableRow), NEW g
    PROVE  IsFiniteSet(TopsOf(list, g)) /\ TopsOf(list, g) \in SUBSET DOMAIN list
<1>1. Len(list) \in Nat /\ DOMAIN list = 1..Len(list)
  OBVIOUS
<1>2. IsFiniteSet(DOMAIN list)
  BY <1>1, FS_Interval
<1>3. TopsOf(list, g) \in SUBSET DOMAIN list
  BY DEF TopsOf
<1> QED BY <1>2, <1>3, FS_Subset

LEMMA GroupShown ==
    ASSUME NEW list \in Seq(TableRow), Once(list), NEW g, NEW t, t = GroupBlock(list, g)
    PROVE  ShowsGroup(t, list, g) /\ \E U : t \in Seq(U)
<1> DEFINE places == {i \in DOMAIN list : list[i].group = g}
           members == Picked(list, places)
           head == GroupRow(g, members)
           rest == IF <<"group", g>> \in folded THEN <<>> ELSE members
           U == TableRow \cup {head}
           tops == {i \in DOMAIN members : members[i].level = 0}
<1>1. t = <<head>> \o rest
  BY DEF GroupBlock
<1>2. places \in SUBSET DOMAIN list /\ \A i \in DOMAIN list : i \in places <=> list[i].group = g
  OBVIOUS
<1>3. head.id = <<"group", g>> /\ head.count = Cardinality(tops)
  BY DEF GroupRow, Row
<1> HIDE DEF places, head
<1>4. members \in Seq(TableRow) /\ \E at : Takes(members, list, places, at)
  BY <1>2, PickedTakes
<1>5. PICK at : Takes(members, list, places, at)
  BY <1>4
<1> HIDE DEF members
<1>6. /\ \A n \in DOMAIN members : at[n] \in places /\ members[n] = list[at[n]]
      /\ \A n, m \in DOMAIN members : at[n] = at[m] => n = m
      /\ \A i \in places : \E n \in DOMAIN members : at[n] = i
  BY <1>5 DEF Takes
<1>7. members \in Seq(TableRow) /\ Len(members) \in Nat /\ DOMAIN members = 1..Len(members)
  BY <1>4
<1>8. Cardinality(TopsOf(list, g)) = Cardinality(tops)
  <2>1. IsFiniteSet(tops)
    <3>1. IsFiniteSet(DOMAIN members)
      BY <1>7, FS_Interval
    <3>2. tops \in SUBSET DOMAIN members
      OBVIOUS
    <3> QED BY <3>1, <3>2, FS_Subset
  <2>2. \A n \in tops : at[n] \in TopsOf(list, g)
    BY <1>2, <1>6 DEF TopsOf
  <2>3. \A n, m \in tops : at[n] = at[m] => n = m
    BY <1>6
  <2>4. ASSUME NEW i \in TopsOf(list, g) PROVE \E n \in tops : at[n] = i
    <3>1. i \in places /\ list[i].level = 0
      BY <1>2 DEF TopsOf
    <3>2. PICK n \in DOMAIN members : at[n] = i
      BY <1>6, <3>1
    <3> QED BY <1>6, <3>1, <3>2
  <2> HIDE DEF tops
  <2> QED BY <2>1, <2>2, <2>3, <2>4, SameMany
<1> HIDE DEF tops
<1>9. rest \in Seq(U) /\ (rest = <<>> \/ rest = members)
  <2>1. TableRow \subseteq U
    OBVIOUS
  <2>2. <<>> \in Seq(U)
    OBVIOUS
  <2> HIDE DEF U
  <2>3. members \in Seq(U)
    BY <1>7, <2>1, SeqGrows
  <2> QED BY <2>2, <2>3
<1>10. <<"group", g>> \notin folded => rest = members
  OBVIOUS
<1>11. head \in U
  OBVIOUS
<1> HIDE DEF rest, U
<1>12. /\ t \in Seq(U) /\ Len(rest) \in Nat /\ Len(t) = Len(rest) + 1 /\ t[1] = head
       /\ \A m \in 2..Len(t) : m - 1 \in 1..Len(rest) /\ t[m] = rest[m-1]
       /\ \A m \in 1..Len(rest) : m + 1 \in 2..Len(t) /\ t[m+1] = rest[m]
  BY <1>1, <1>9, <1>11, HeadAnd
<1>13. \A i \in 1..Len(rest) : i \in DOMAIN members /\ rest[i] = members[i]
  <2>1. rest = <<>> => Len(rest) = 0
    OBVIOUS
  <2> QED BY <1>7, <1>9, <2>1
<1>14. ASSUME NEW m \in 2..Len(t) PROVE \E k \in DOMAIN list : t[m] = list[k] /\ list[k].group = g
  <2> DEFINE i == m - 1
  <2>1. i \in 1..Len(rest) /\ t[m] = rest[i]
    BY <1>12
  <2> HIDE DEF i
  <2>2. i \in DOMAIN members /\ rest[i] = members[i]
    BY <1>13, <2>1
  <2>3. at[i] \in places /\ members[i] = list[at[i]]
    BY <1>6, <2>2
  <2> QED BY <1>2, <2>1, <2>2, <2>3
<1>15. ASSUME NEW m \in 2..Len(t), NEW l \in 2..Len(t), t[m] = t[l] PROVE m = l
  <2> DEFINE i == m - 1
             j == l - 1
  <2>1. i \in 1..Len(rest) /\ t[m] = rest[i] /\ j \in 1..Len(rest) /\ t[l] = rest[j]
    BY <1>12
  <2>0. m = i + 1 /\ l = j + 1
    BY <1>12
  <2> HIDE DEF i, j
  <2>2. i \in DOMAIN members /\ rest[i] = members[i] /\ j \in DOMAIN members /\ rest[j] = members[j]
    BY <1>13, <2>1
  <2>3. at[i] \in DOMAIN list /\ at[j] \in DOMAIN list /\ list[at[i]] = list[at[j]]
    BY <1>2, <1>6, <1>15, <2>1, <2>2
  <2>4. at[i] = at[j]
    BY <2>3 DEF Once
  <2>5. i = j
    BY <1>6, <2>2, <2>4
  <2> QED BY <2>0, <2>5
<1>16. ASSUME <<"group", g>> \notin folded, NEW k \in DOMAIN list, list[k].group = g PROVE \E m \in 2..Len(t) : t[m] = list[k]
  <2>1. k \in places
    BY <1>2, <1>16
  <2>2. PICK n \in DOMAIN members : at[n] = k
    BY <1>6, <2>1
  <2>3. members[n] = list[k] /\ n \in 1..Len(rest) /\ rest[n] = members[n]
    BY <1>6, <1>7, <1>10, <1>16, <2>2
  <2> QED BY <1>12, <2>3
<1>17. Len(t) \in Nat \ {0} /\ t[1].id = <<"group", g>> /\ t[1].count = Cardinality(TopsOf(list, g))
  BY <1>3, <1>8, <1>12
<1>18. ShowsGroup(t, list, g)
  <2>1. \A m \in 2..Len(t) : \E k \in DOMAIN list : t[m] = list[k] /\ list[k].group = g
    BY <1>14
  <2>2. \A m, l \in 2..Len(t) : t[m] = t[l] => m = l
    BY <1>15
  <2>3. <<"group", g>> \notin folded => \A k \in DOMAIN list : list[k].group = g => \E m \in 2..Len(t) : t[m] = list[k]
    BY <1>16
  <2> QED BY <1>17, <2>1, <2>2, <2>3 DEF ShowsGroup
<1> QED BY <1>12, <1>18

\* every row of the list is there, or its group is folded
AllShown(t, list) ==
    \A k \in DOMAIN list : (\E p \in DOMAIN t : t[p].id = list[k].id) \/ <<"group", list[k].group>> \in folded

\* The rows in groups: none is there twice, those of the list are there or folded with their group,
\* and the groups count the rows of the list that have no parent.
LEMMA GroupedWell ==
    ASSUME NEW list \in Seq(TableRow), list = List, Once(list), OfAgents(list), NEW t, t = Grouped
    PROVE  /\ Once(t) /\ AllShown(t, list)
           /\ LET counts == [i \in DOMAIN t |-> t[i].count]
              IN  SumFunctionOnSet(counts, DOMAIN t) = Cardinality({i \in DOMAIN list : list[i].level = 0})
<1> DEFINE N == Len(list)
           G == [i \in 1..N |-> list[i].group]
           firsts == {i \in DOMAIN list : \A j \in 1..(i-1) : list[j].group # list[i].group}
           new == Picked([i \in DOMAIN list |-> i], firsts)
           M == Len(new)
           g(n) == G[new[n]]
           blocks == [n \in DOMAIN new |-> GroupBlock(list, list[new[n]].group)]
<1>1. t = FlattenSeq(blocks)
  BY DEF Grouped
<1>0. N \in Nat /\ DOMAIN list = 1..N /\ \A i \in 1..N : G[i] = list[i].group
  OBVIOUS
<1>18. firsts \in SUBSET (1..N) /\ \A i \in 1..N : i \in firsts <=> \A j \in 1..(i-1) : list[j].group # list[i].group
  BY <1>0
<1> HIDE DEF firsts, G, N
<1>19. ASSUME NEW i \in 1..N PROVE i \in firsts <=> \A j \in 1..(i-1) : G[j] # G[i]
  <2>1. \A j \in 1..(i-1) : j \in 1..N
    BY <1>0
  <2>2. G[i] = list[i].group /\ \A j \in 1..(i-1) : G[j] = list[j].group
    BY <1>0, <2>1
  <2> QED BY <1>18, <2>2
<1>20. FirstPlaces(firsts, G, N)
  BY <1>19 DEF FirstPlaces
<1>21. new = Picked(UpTo(N), firsts)
  <2>1. [i \in DOMAIN list |-> i] = UpTo(N)
    BY <1>0 DEF UpTo
  <2> QED BY <2>1
<1> HIDE DEF new
<1>2. /\ DOMAIN new = 1..M /\ M \in Nat /\ \A n \in 1..M : new[n] \in 1..N
      /\ \A n, k \in 1..M : g(n) = g(k) => n = k
      /\ \A i \in 1..N : \E n \in 1..M : g(n) = G[i]
  <2>1. EachOnce(new, G, N)
    BY <1>0, <1>18, <1>20, <1>21, FirstOfEach
  <2> QED BY <2>1 DEF EachOnce
<1>3. blocks = [n \in 1..M |-> blocks[n]] /\ \A n \in 1..M : blocks[n] = GroupBlock(list, g(n))
  BY <1>0, <1>2
<1> HIDE DEF blocks, M, g
<1>4. ASSUME NEW n \in 1..M PROVE ShowsGroup(blocks[n], list, g(n)) /\ \E U : blocks[n] \in Seq(U)
  BY <1>3, GroupShown
<1> DEFINE S == UNION {Range(blocks[n]) : n \in 1..M}
<1>5. blocks \in Seq(Seq(S)) /\ Len(blocks) = M
  <2>1. ASSUME NEW n \in 1..M PROVE blocks[n] \in Seq(S)
    <3> DEFINE b == blocks[n]
    <3>1. PICK U : b \in Seq(U)
      BY <1>4
    <3>2. \A x \in Range(b) : x \in S
      OBVIOUS
    <3> HIDE DEF b, S
    <3>3. Len(b) \in Nat /\ b = [i \in 1..Len(b) |-> b[i]] /\ DOMAIN b = 1..Len(b)
      BY <3>1
    <3>4. \A i \in 1..Len(b) : b[i] \in S
      BY <3>2, <3>3 DEF Range
    <3>5. b \in Seq(S)
      BY <3>3, <3>4, SeqBuilt
    <3> QED BY <3>5 DEF b
  <2> DEFINE Q == Seq(S)
  <2>2. \A n \in 1..M : blocks[n] \in Q
    BY <2>1
  <2> HIDE DEF Q, S
  <2>3. blocks \in Seq(Q) /\ Len(blocks) = M
    BY <1>2, <1>3, <2>2, SeqBuilt
  <2> QED BY <2>3 DEF Q
<1> HIDE DEF S
<1>6. t \in Seq(S) /\ \E blk, plc : Numbered(blocks, t, blk, plc)
  BY <1>1, <1>5, FlatPlaces
<1>7. PICK blk, plc : Numbered(blocks, t, blk, plc)
  BY <1>6
<1>8. /\ \A p \in DOMAIN t : blk[p] \in 1..M /\ plc[p] \in 1..Len(blocks[blk[p]]) /\ t[p] = blocks[blk[p]][plc[p]]
      /\ \A p, q \in DOMAIN t : p < q => blk[p] < blk[q] \/ (blk[p] = blk[q] /\ plc[p] < plc[q])
      /\ \A n \in 1..M : \A m \in 1..Len(blocks[n]) : \E p \in DOMAIN t : blk[p] = n /\ plc[p] = m
  BY <1>5, <1>7 DEF Numbered
<1>9. DOMAIN t \in SUBSET Nat /\ IsFiniteSet(DOMAIN t)
  <2>1. Len(t) \in Nat /\ DOMAIN t = 1..Len(t)
    BY <1>6
  <2> QED BY <2>1, FS_Interval
<1>10. ASSUME NEW n \in 1..M
       PROVE  /\ Len(blocks[n]) \in Nat \ {0} /\ 1 \in 1..Len(blocks[n]) /\ blocks[n][1].id = <<"group", g(n)>>
              /\ blocks[n][1].count = Cardinality(TopsOf(list, g(n)))
              /\ \A m \in 2..Len(blocks[n]) : \E k \in DOMAIN list : blocks[n][m] = list[k] /\ list[k].group = g(n)
              /\ \A m, l \in 2..Len(blocks[n]) : blocks[n][m] = blocks[n][l] => m = l
              /\ <<"group", g(n)>> \notin folded =>
                    \A k \in DOMAIN list : list[k].group = g(n) => \E m \in 2..Len(blocks[n]) : blocks[n][m] = list[k]
  <2> DEFINE b == blocks[n]
             h == g(n)
  <2>1. ShowsGroup(b, list, h)
    BY <1>4
  <2> HIDE DEF b, h
  <2>2. Len(b) \in Nat \ {0} /\ b[1].id = <<"group", h>> /\ b[1].count = Cardinality(TopsOf(list, h))
    BY <2>1 DEF ShowsGroup
  <2>3. 1 \in 1..Len(b)
    BY <2>2
  <2>4. \A m \in 2..Len(b) : \E k \in DOMAIN list : b[m] = list[k] /\ list[k].group = h
    BY <2>1 DEF ShowsGroup
  <2>5. \A m, l \in 2..Len(b) : b[m] = b[l] => m = l
    BY <2>1 DEF ShowsGroup
  <2>6. <<"group", h>> \notin folded => \A k \in DOMAIN list : list[k].group = h => \E m \in 2..Len(b) : b[m] = list[k]
    BY <2>1 DEF ShowsGroup
  <2> QED BY <2>2, <2>3, <2>4, <2>5, <2>6 DEF b, h
<1>23. ASSUME NEW n \in 1..M
       PROVE  blocks[n][1].id = <<"group", g(n)>> /\ blocks[n][1].count = Cardinality(TopsOf(list, g(n)))
  BY <1>10
<1>11. ASSUME NEW p \in DOMAIN t
       PROVE  /\ blk[p] \in Nat /\ plc[p] \in Nat /\ p \in Nat
              /\ plc[p] = 1 => t[p].id = <<"group", g(blk[p])>> /\ t[p].count = Cardinality(TopsOf(list, g(blk[p])))
              /\ plc[p] # 1 => /\ t[p].id[1] = "agent" /\ t[p].count = 0 /\ plc[p] \in 2..Len(blocks[blk[p]])
                               /\ \E k \in DOMAIN list : t[p] = list[k] /\ list[k].group = g(blk[p])
  <2> DEFINE n == blk[p]
             m == plc[p]
  <2>1. n \in 1..M /\ m \in 1..Len(blocks[n]) /\ t[p] = blocks[n][m]
    BY <1>8
  <2>2. Len(blocks[n]) \in Nat
    BY <1>10, <2>1
  <2> HIDE DEF n, m
  <2>3. n \in Nat /\ m \in Nat /\ p \in Nat
    BY <1>9, <2>1, <2>2
  <2>4. m = 1 => t[p].id = <<"group", g(n)>> /\ t[p].count = Cardinality(TopsOf(list, g(n)))
    BY <1>23, <2>1
  <2>5. ASSUME m # 1 PROVE /\ t[p].id[1] = "agent" /\ t[p].count = 0 /\ m \in 2..Len(blocks[n])
                           /\ \E k \in DOMAIN list : t[p] = list[k] /\ list[k].group = g(n)
    <3>1. m \in 2..Len(blocks[n])
      BY <2>1, <2>2, <2>5
    <3>2. PICK k \in DOMAIN list : blocks[n][m] = list[k] /\ list[k].group = g(n)
      BY <1>10, <2>1, <3>1
    <3>3. list[k].id[1] = "agent" /\ list[k].count = 0
      BY DEF OfAgents
    <3> QED BY <2>1, <3>1, <3>2, <3>3
  <2> QED BY <2>3, <2>4, <2>5 DEF n, m
<1>12. ASSUME NEW p \in DOMAIN t, NEW q \in DOMAIN t, blk[p] = blk[q], plc[p] = plc[q] PROVE p = q
  <2>1. p \in Nat /\ q \in Nat /\ blk[p] \in Nat /\ plc[p] \in Nat
    BY <1>11
  <2>2. ~(p < q) /\ ~(q < p)
    BY <1>8, <1>12, <2>1
  <2> QED BY <2>1, <2>2
<1>13. Once(t)
  <2> SUFFICES ASSUME NEW p \in DOMAIN t, NEW q \in DOMAIN t, t[p].id = t[q].id, t[p].parent = t[q].parent PROVE p = q
    BY DEF Once
  <2>1. blk[p] \in 1..M /\ blk[q] \in 1..M
    BY <1>8
  <2>2. CASE plc[p] = 1 /\ plc[q] = 1
    <3>1. <<"group", g(blk[p])>> = <<"group", g(blk[q])>>
      BY <1>11, <2>2
    <3>2. g(blk[p]) = g(blk[q])
      BY <3>1
    <3>3. blk[p] = blk[q]
      BY <1>2, <2>1, <3>2
    <3> QED BY <1>12, <2>2, <3>3
  <2>3. CASE plc[p] # 1 /\ plc[q] # 1
    <3>1. PICK k \in DOMAIN list : t[p] = list[k] /\ list[k].group = g(blk[p])
      BY <1>11, <2>3
    <3>2. PICK l \in DOMAIN list : t[q] = list[l] /\ list[l].group = g(blk[q])
      BY <1>11, <2>3
    <3>3. k = l
      BY <3>1, <3>2 DEF Once
    <3>4. g(blk[p]) = g(blk[q]) /\ t[p] = t[q]
      BY <3>1, <3>2, <3>3
    <3>5. blk[p] = blk[q]
      BY <1>2, <2>1, <3>4
    <3>6. /\ plc[p] \in 2..Len(blocks[blk[p]]) /\ plc[q] \in 2..Len(blocks[blk[p]])
          /\ blocks[blk[p]][plc[p]] = blocks[blk[p]][plc[q]]
      <4>1. plc[p] \in 2..Len(blocks[blk[p]]) /\ plc[q] \in 2..Len(blocks[blk[q]])
        BY <1>11, <2>3
      <4>2. t[p] = blocks[blk[p]][plc[p]] /\ t[q] = blocks[blk[q]][plc[q]]
        BY <1>8
      <4> QED BY <3>4, <3>5, <4>1, <4>2
    <3>7. plc[p] = plc[q]
      BY <1>10, <2>1, <3>6
    <3> QED BY <1>12, <3>5, <3>7
  <2>4. CASE (plc[p] = 1 /\ plc[q] # 1) \/ (plc[p] # 1 /\ plc[q] = 1)
    <3>1. CASE plc[p] = 1 /\ plc[q] # 1
      <4>1. t[p].id[1] = "group" /\ t[q].id[1] = "agent"
        BY <1>11, <3>1
      <4> QED BY <4>1
    <3>2. CASE plc[p] # 1 /\ plc[q] = 1
      <4>1. t[q].id[1] = "group" /\ t[p].id[1] = "agent"
        BY <1>11, <3>2
      <4> QED BY <4>1
    <3> QED BY <2>4, <3>1, <3>2
  <2> QED BY <2>2, <2>3, <2>4
<1>14. ASSUME NEW k \in DOMAIN list, <<"group", list[k].group>> \notin folded PROVE \E p \in DOMAIN t : t[p].id = list[k].id
  <2>1. PICK n \in 1..M : g(n) = list[k].group
    BY <1>0, <1>2
  <2>2. PICK m \in 2..Len(blocks[n]) : blocks[n][m] = list[k]
    BY <1>10, <1>14, <2>1
  <2>3. m \in 1..Len(blocks[n])
    BY <1>10
  <2>4. PICK p \in DOMAIN t : blk[p] = n /\ plc[p] = m
    BY <1>8, <2>3
  <2>5. t[p] = blocks[n][m]
    BY <1>8, <2>4
  <2> QED BY <2>2, <2>5
<1>24. AllShown(t, list)
  BY <1>14 DEF AllShown
<1> DEFINE D == DOMAIN t
           counts == [i \in D |-> t[i].count]
           A == [p \in D |-> IF plc[p] = 1 THEN TopsOf(list, g(blk[p])) ELSE {}]
           all == UNION {A[p] : p \in D}
           roots == {i \in DOMAIN list : list[i].level = 0}
<1>15. \A p \in D : A[p] = (IF plc[p] = 1 THEN TopsOf(list, g(blk[p])) ELSE {}) /\ counts[p] = t[p].count
  OBVIOUS
<1>16. all = roots
  <2>1. ASSUME NEW i \in all PROVE i \in roots
    <3>1. PICK p \in D : i \in A[p]
      OBVIOUS
    <3>2. i \in TopsOf(list, g(blk[p]))
      BY <1>15, <3>1
    <3> QED BY <3>2 DEF TopsOf
  <2>2. ASSUME NEW i \in roots PROVE i \in all
    <3>1. PICK n \in 1..M : g(n) = list[i].group
      BY <1>0, <1>2
    <3>2. PICK p \in D : blk[p] = n /\ plc[p] = 1
      BY <1>8, <1>10
    <3>3. i \in TopsOf(list, g(n))
      BY <3>1 DEF TopsOf
    <3>4. i \in A[p]
      BY <1>15, <3>2, <3>3
    <3> QED BY <3>4
  <2> QED BY <2>1, <2>2
<1>17. SumFunctionOnSet(counts, D) = Cardinality(all)
  <2> HIDE DEF counts, A, D
  <2>1. ASSUME NEW p \in D PROVE IsFiniteSet(A[p]) /\ counts[p] = Cardinality(A[p])
    <3>0. p \in DOMAIN t
      BY DEF D
    <3>1. CASE plc[p] = 1
      <4>1. IsFiniteSet(TopsOf(list, g(blk[p])))
        BY TopsAre
      <4> QED BY <1>11, <1>15, <3>0, <3>1, <4>1
    <3>2. CASE plc[p] # 1
      <4>1. A[p] = {} /\ counts[p] = 0
        BY <1>11, <1>15, <3>0, <3>2
      <4> QED BY <4>1, FS_EmptySet
    <3> QED BY <3>1, <3>2
  <2>2. Disjoint(A, D)
    <3> SUFFICES ASSUME NEW p \in D, NEW q \in D, p # q, NEW i \in A[p] \cap A[q] PROVE FALSE
      BY DEF Disjoint
    <3>1. /\ plc[p] = 1 /\ plc[q] = 1 /\ i \in TopsOf(list, g(blk[p])) /\ i \in TopsOf(list, g(blk[q]))
      BY <1>15
    <3>2. g(blk[p]) = g(blk[q])
      BY <3>1 DEF TopsOf
    <3>3. p \in DOMAIN t /\ q \in DOMAIN t
      BY DEF D
    <3>4. blk[p] \in 1..M /\ blk[q] \in 1..M
      BY <1>8, <3>3
    <3>5. blk[p] = blk[q]
      BY <1>2, <3>2, <3>4
    <3> QED BY <1>12, <3>1, <3>3, <3>5
  <2>3. IsFiniteSet(D) /\ \A x \in D : IsFiniteSet(A[x]) /\ counts[x] = Cardinality(A[x])
    BY <1>9, <2>1 DEF D
  <2> QED BY <2>2, <2>3, SumCounts
<1>22. SumFunctionOnSet(counts, D) = Cardinality(roots)
  BY <1>16, <1>17
<1> QED BY <1>13, <1>24, <1>22

\* what a table shows, from its list and its groups
LEMMA ShownHold ==
    ASSUME TableTypeOK
    PROVE  TablesHold
<1> DEFINE list == List
           shown == ShownRows
<1>0. agents \in Answers /\ panel \in Panels /\ mode \in {"none", "group"}
  BY DEF TableTypeOK
<1>1. /\ list \in Seq(TableRow) /\ Once(list) /\ TreeOf(list) /\ RootsSorted(list, Sorted)
      /\ Limited \/ \A r \in Range(Rows) : r \in Range(list)
      /\ panel.kind = "agents" => OfAgents(list)
  BY <1>0, ListWell
<1>2. list = List /\ shown = ShownRows /\ shown = IF panel.kind = "agents" /\ mode = "group" THEN Grouped ELSE list
  BY DEF ShownRows
<1> HIDE DEF list, shown
<1>3. CASE panel.kind = "agents" /\ mode = "group"
  <2>1. shown = Grouped /\ OfAgents(list) /\ mode # "none"
    BY <1>1, <1>2, <1>3
  <2>2. Once(shown)
    BY <1>1, <1>2, <2>1, GroupedWell
  <2>3. AllShown(shown, list)
    BY <1>1, <1>2, <2>1, GroupedWell
  <2>4. LET counts == [i \in DOMAIN shown |-> shown[i].count]
        IN  SumFunctionOnSet(counts, DOMAIN shown) = Cardinality({i \in DOMAIN list : list[i].level = 0})
    BY <1>1, <1>2, <2>1, GroupedWell
  <2>5. KidsUnderRoots(shown)
    BY <2>1, <2>2 DEF KidsUnderRoots, Once
  <2>6. RootsInOrder(shown)
    BY <2>1 DEF RootsInOrder
  <2>7. NothingLost(shown)
    <3> SUFFICES ASSUME ~Limited, NEW r \in Range(Rows)
                 PROVE  (\E s \in Range(shown) : s.id = r.id) \/ (mode = "group" /\ <<"group", r.group>> \in folded)
      BY DEF NothingLost
    <3>1. PICK k \in DOMAIN list : r = list[k]
      BY <1>1 DEF Range
    <3>2. CASE <<"group", list[k].group>> \in folded
      BY <1>3, <3>1, <3>2
    <3>3. CASE <<"group", list[k].group>> \notin folded
      <4>1. PICK p \in DOMAIN shown : shown[p].id = list[k].id
        BY <2>3, <3>3 DEF AllShown
      <4>2. shown[p] \in Range(shown)
        BY DEF Range
      <4> QED BY <3>1, <4>1, <4>2
    <3> QED BY <3>2, <3>3
  <2>8. GroupsAddUp(shown)
    BY <1>2, <2>4 DEF GroupsAddUp
  <2> QED BY <1>2, <2>5, <2>6, <2>7, <2>8 DEF TablesHold
<1>4. CASE ~(panel.kind = "agents" /\ mode = "group")
  <2>1. shown = list
    BY <1>2, <1>4
  <2>2. KidsUnderRoots(shown)
    BY <1>1, <2>1 DEF KidsUnderRoots, Once, TreeOf
  <2>3. RootsInOrder(shown)
    BY <1>1, <2>1 DEF RootsInOrder, RootsSorted
  <2>4. NothingLost(shown)
    BY <1>1, <2>1 DEF NothingLost
  <2>5. GroupsAddUp(shown)
    BY <1>4 DEF GroupsAddUp
  <2> QED BY <1>2, <2>2, <2>3, <2>4, <2>5 DEF TablesHold
<1> QED BY <1>3, <1>4

\* Whatever the agents, their parents and their models, whatever column, direction, limit, folds and
\* groups the user chose, and whenever the board's data comes again: no row of a table is there twice
\* or away from the row it belongs to, the roots are in the order asked for, no row is lost unless it
\* is folded or the table offers the rest, and the groups count every agent listed.
THEOREM TablesKeepRows == TableSpec => []TablesHold
<1>1. TableTypeOK => TablesHold
  BY ShownHold
<1>2. TableSpec => []TableTypeOK
  BY TablesTyped
<1> QED BY <1>1, <1>2, PTL

(* The rows of a table ---------------------------------------------------- *)

LEMMA FilterIs ==
    ASSUME NEW S, NEW d \in Seq(S), NEW q
    PROVE  /\ FilterRows(d, q) \in Seq(S)
           /\ ToSet(FilterRows(d, q)) = {r \in ToSet(d) : q = NoQuery \/ r.id \in q}
           /\ IsInjective(d) => IsInjective(FilterRows(d, q))
<1>1. CASE q = NoQuery
  BY <1>1 DEF FilterRows, ToSet
<1>2. CASE q # NoQuery
  <2> DEFINE P == {i \in DOMAIN d : d[i].id \in q}
  <2>0. P \in SUBSET DOMAIN d /\ FilterRows(d, q) = Picked(d, P)
    BY <1>2 DEF FilterRows
  <2>3. \A i \in DOMAIN d : i \in P <=> d[i].id \in q
    OBVIOUS
  <2> HIDE DEF P
  <2> DEFINE t == Picked(d, P) nth(n) == Nth(P, n)
  <2>1. FilterRows(d, q) = t
    BY <2>0
  <2>2. /\ t \in Seq(S)
        /\ \A n \in DOMAIN t : nth(n) \in P /\ t[n] = d[nth(n)]
        /\ \A i \in P : \E n \in DOMAIN t : nth(n) = i
        /\ \A n, m \in DOMAIN t : n < m => nth(n) < nth(m)
    BY <2>0, PickedIs
  <2>4. \A i \in P : i \in DOMAIN d /\ i \in Nat
    BY <2>0
  <2> HIDE DEF t, nth
  <2>5. ToSet(t) = {r \in ToSet(d) : q = NoQuery \/ r.id \in q}
    <3>1. ASSUME NEW r \in ToSet(t) PROVE r \in ToSet(d) /\ r.id \in q
      BY <2>2, <2>3, <2>4 DEF ToSet
    <3>2. ASSUME NEW r \in ToSet(d), r.id \in q PROVE r \in ToSet(t)
      <4>1. PICK i \in DOMAIN d : r = d[i]
        BY DEF ToSet
      <4>2. i \in P
        BY <2>3, <3>2, <4>1
      <4> QED BY <2>2, <4>1, <4>2 DEF ToSet
    <3> QED BY <1>2, <3>1, <3>2
  <2>6. ASSUME IsInjective(d), NEW n \in DOMAIN t, NEW m \in DOMAIN t, t[n] = t[m] PROVE n = m
    <3>1. nth(n) = nth(m) /\ nth(n) \in Nat
      BY <2>2, <2>4, <2>6 DEF IsInjective
    <3>2. n \in Nat /\ m \in Nat
      BY <2>2
    <3> QED BY <2>2, <3>1, <3>2
  <2> QED BY <2>1, <2>2, <2>5, <2>6 DEF IsInjective
<1> QED BY <1>1, <1>2

LEMMA RowOrderIs ==
    ASSUME NEW S, NEW d \in Seq(S), NEW s, s.desc \in BOOLEAN, \A i \in DOMAIN d : d[i].value[s.column] \in Nat
    PROVE  StrictOrder(RowOrder(d, s), DOMAIN d)
<1>1. ASSUME NEW i \in DOMAIN d, NEW j \in DOMAIN d PROVE <<i, j>> \in RowOrder(d, s) <=> SortsBefore(d, s, i, j)
  <2>1. <<i, j>> \in (DOMAIN d) \X (DOMAIN d) /\ <<i, j>>[1] = i /\ <<i, j>>[2] = j
    OBVIOUS
  <2> QED BY <2>1 DEF RowOrder
<1>2. DOMAIN d \subseteq Nat
  OBVIOUS
<1>3. \A i \in DOMAIN d : ~SortsBefore(d, s, i, i)
  BY <1>2 DEF SortsBefore
<1>4. \A i, j \in DOMAIN d : i # j => SortsBefore(d, s, i, j) \/ SortsBefore(d, s, j, i)
  BY <1>2 DEF SortsBefore
<1>5. \A i, j, k \in DOMAIN d : SortsBefore(d, s, i, j) /\ SortsBefore(d, s, j, k) => SortsBefore(d, s, i, k)
  BY <1>2 DEF SortsBefore
<1> QED BY <1>1, <1>3, <1>4, <1>5 DEF StrictOrder

LEMMA RowsTyped ==
    ASSUME NEW d \in DataSets
    PROVE  d \in Seq(ToSet(d)) /\ \A r \in ToSet(d) : r.value \in [DataColumns -> Nat]
<1>1. d \in Seq(ToSet(d)) /\ \A i \in DOMAIN d : d[i].value \in [DataColumns -> Nat]
  BY TableData
<1> QED BY <1>1 DEF ToSet

\* what table-core lists of any data, under any text and in any order
LEMMA ListedAre ==
    ASSUME NEW d \in DataSets, NEW q, NEW s \in Orderings, NEW t, t = SortedRows(FilterRows(d, q), s)
    PROVE  /\ t \in Seq(ToSet(d))
           /\ ToSet(t) = {r \in ToSet(d) : q = NoQuery \/ r.id \in q}
           /\ IsInjective(d) => IsInjective(t)
           /\ s # NoColumn => \A i, j \in DOMAIN t : i < j =>
                IF s.desc THEN t[i].value[s.column] >= t[j].value[s.column]
                ELSE t[i].value[s.column] <= t[j].value[s.column]
<1> DEFINE f == FilterRows(d, q)
<1>1. d \in Seq(ToSet(d)) /\ \A r \in ToSet(d) : r.value \in [DataColumns -> Nat]
  BY RowsTyped
<1>2. f \in Seq(ToSet(d)) /\ ToSet(f) = {r \in ToSet(d) : q = NoQuery \/ r.id \in q} /\ (IsInjective(d) => IsInjective(f))
  BY <1>1, FilterIs
<1> HIDE DEF f
<1>3. CASE s = NoColumn
  <2>1. t = f
    BY <1>3 DEF SortedRows, f
  <2> QED BY <1>2, <1>3, <2>1
<1>4. CASE s # NoColumn
  <2> DEFINE D == DOMAIN f B == RowOrder(f, s) nth(n) == AtPlace(B, D, n)
  <2>1. s.column \in DataColumns /\ s.desc \in BOOLEAN
    BY <1>4 DEF Orderings
  <2>2. \A i \in D : f[i] \in ToSet(d)
    BY <1>2
  <2>3. \A i \in D : f[i].value[s.column] \in Nat
    BY <1>1, <2>1, <2>2
  <2>4. StrictOrder(B, D)
    BY <1>2, <2>1, <2>3, RowOrderIs
  <2>5. t = Ordered(f, B)
    BY <1>4 DEF SortedRows, f
  <2>6. /\ t \in Seq(ToSet(d)) /\ DOMAIN t = D
        /\ \A n \in DOMAIN t : nth(n) \in D /\ t[n] = f[nth(n)]
        /\ \A i \in D : \E n \in DOMAIN t : nth(n) = i
        /\ \A n, m \in DOMAIN t : n < m => <<nth(n), nth(m)>> \in B
        /\ \A n, m \in DOMAIN t : nth(n) = nth(m) => n = m
    BY <1>2, <2>4, <2>5, SortedIs
  <2> HIDE DEF D, nth
  <2>7. \A n \in DOMAIN t : t[n] = f[nth(n)] /\ nth(n) \in D
    BY <2>6
  <2>8. ToSet(t) = ToSet(f)
    <3>1. \A n \in DOMAIN t : t[n] \in ToSet(f)
      BY <2>7 DEF ToSet, D
    <3>2. \A i \in DOMAIN f : f[i] \in ToSet(t)
      BY <2>6, <2>7 DEF ToSet, D
    <3> QED BY <3>1, <3>2 DEF ToSet
  <2>9. IsInjective(d) => IsInjective(t)
    BY <1>2, <2>6, <2>7 DEF IsInjective, D
  <2>10. ASSUME NEW i \in DOMAIN t, NEW j \in DOMAIN t, i < j
         PROVE  IF s.desc THEN t[i].value[s.column] >= t[j].value[s.column]
                ELSE t[i].value[s.column] <= t[j].value[s.column]
    <3> DEFINE x == f[nth(i)].value[s.column] y == f[nth(j)].value[s.column]
    <3>1. <<nth(i), nth(j)>> \in B /\ nth(i) \in D /\ nth(j) \in D
      BY <2>6, <2>10
    <3>2. <<nth(i), nth(j)>>[1] = nth(i) /\ <<nth(i), nth(j)>>[2] = nth(j)
      OBVIOUS
    <3>3. SortsBefore(f, s, nth(i), nth(j))
      BY <3>1, <3>2 DEF RowOrder
    <3>4. x \in Nat /\ y \in Nat
      BY <2>3, <3>1
    <3>5. IF s.desc THEN x >= y ELSE x <= y
      BY <3>3, <3>4 DEF SortsBefore
    <3> QED BY <2>7, <3>5
  <2> QED BY <1>2, <2>6, <2>8, <2>9, <2>10
<1> QED BY <1>3, <1>4

\* What holds of the table between the steps: the widths that are kept are those of the screen.
GridInv ==
    /\ GridTypeOK
    /\ \A c \in DOMAIN sizing : sizing[c] \in Nat
    /\ persisted = [sorting |-> sorting, sizing |-> sizing]

LEMMA TableRowsTyped == ASSUME GridTypeOK PROVE TableRows \in Seq(ToSet(allRows)) /\ Len(TableRows) \in Nat
<1>1. allRows \in DataSets /\ sorting \in Orderings
  BY DEF GridTypeOK
<1>2. TableRows = SortedRows(FilterRows(allRows, tableQuery), sorting)
  BY DEF TableRows
<1>3. TableRows \in Seq(ToSet(allRows))
  BY <1>1, <1>2, ListedAre
<1> QED BY <1>3

LEMMA MoveCounts == ASSUME GridMove, gridMoves \in 0..MaxTableMoves PROVE gridMoves' \in 0..MaxTableMoves
BY TableData DEF GridMove

LEMMA KeyKeeps == ASSUME GridInv, NEW step \in Int, PressRowKey(step) PROVE GridInv'
<1> DEFINE n == Len(TableRows) lower == Min({n, focusIdx + step})
<1>1. GridTypeOK
  BY DEF GridInv
<1>2. n \in Int /\ focusIdx \in Int
  BY <1>1, TableRowsTyped DEF GridTypeOK
<1>3. focusIdx + step \in Int
  BY <1>2
<1> HIDE DEF n
<1>4. lower = IF n <= focusIdx + step THEN n ELSE focusIdx + step
  BY <1>2, <1>3, SmallerIs
<1>5. lower \in Int
  BY <1>2, <1>3, <1>4
<1>6. focusIdx' = Max({1, lower})
  BY DEF PressRowKey, n
<1> HIDE DEF lower
<1>7. Max({1, lower}) = IF 1 >= lower THEN 1 ELSE lower
  BY <1>5, LargerIs
<1>8. focusIdx' \in Nat
  BY <1>5, <1>6, <1>7
<1>9. gridMoves' \in 0..MaxTableMoves
  BY <1>1, MoveCounts DEF PressRowKey, GridTypeOK
<1> QED BY <1>8, <1>9 DEF GridInv, GridTypeOK, PressRowKey

LEMMA DragWidens == ASSUME GridInv, NEW by \in Drags, DragColumn(by) PROVE GridInv'
<1> DEFINE w == drag.width + by m == Max({MinColumnWidth, w})
<1>1. by \in Int /\ MinColumnWidth \in Nat
  BY TableData
<1>2. drag.column \in DataColumns /\ drag.width \in Nat
  BY DEF GridInv, GridTypeOK, DragColumn
<1>3. w \in Int
  BY <1>1, <1>2
<1>4. m = IF MinColumnWidth >= w THEN MinColumnWidth ELSE w
  BY <1>1, <1>3, LargerIs
<1>5. m \in Nat /\ m >= MinColumnWidth
  BY <1>1, <1>3, <1>4
<1>6. sizing' = [c \in DOMAIN sizing \cup {drag.column} |-> IF c = drag.column THEN m ELSE sizing[c]]
  BY DEF DragColumn
<1> HIDE DEF m
<1>7. /\ DOMAIN sizing' \subseteq DataColumns
      /\ \A c \in DOMAIN sizing' : sizing'[c] \in Nat /\ sizing'[c] >= MinColumnWidth
  <2>1. DOMAIN sizing \subseteq DataColumns /\ \A c \in DOMAIN sizing : sizing[c] \in Nat /\ sizing[c] >= MinColumnWidth
    BY DEF GridInv, GridTypeOK
  <2> QED BY <1>2, <1>5, <1>6, <2>1
<1>8. gridMoves' \in 0..MaxTableMoves
  BY MoveCounts DEF DragColumn, GridInv, GridTypeOK
<1>9. GridTypeOK'
  BY <1>7, <1>8 DEF GridInv, GridTypeOK, DragColumn
<1>10. persisted' = [sorting |-> sorting, sizing |-> sizing]'
  BY DEF DragColumn
<1> QED BY <1>7, <1>9, <1>10 DEF GridInv

LEMMA ReopenKeeps == ASSUME GridInv, Reopen PROVE GridInv'
<1>1. sorting' = sorting /\ sizing' = sizing /\ persisted' = persisted
  BY DEF GridInv, Reopen
<1>2. gridMoves' \in 0..MaxTableMoves
  BY MoveCounts DEF Reopen, GridInv, GridTypeOK
<1>3. GridTypeOK'
  BY <1>1, <1>2 DEF GridInv, GridTypeOK, Reopen
<1> QED BY <1>1, <1>3 DEF GridInv

LEMMA SortKeeps == ASSUME GridInv, NEW c \in DataColumns, ToggleSorting(c) PROVE GridInv'
<1>1. sorting' \in Orderings
  <2>1. [column |-> c, desc |-> FALSE] \in Orderings /\ [column |-> c, desc |-> TRUE] \in Orderings /\ NoColumn \in Orderings
    BY DEF Orderings
  <2> QED BY <2>1 DEF ToggleSorting
<1>2. gridMoves' \in 0..MaxTableMoves
  BY MoveCounts DEF ToggleSorting, GridInv, GridTypeOK
<1>3. GridTypeOK'
  BY <1>1, <1>2 DEF GridInv, GridTypeOK, ToggleSorting
<1>4. persisted' = [sorting |-> sorting, sizing |-> sizing]'
  BY DEF ToggleSorting
<1> QED BY <1>3, <1>4 DEF GridInv, ToggleSorting

LEMMA GrabKeeps == ASSUME GridInv, NEW c \in DataColumns, StartResize(c) PROVE GridInv'
<1>1. WidthOf(c) \in Nat
  BY TableData DEF WidthOf, GridInv
<1>2. drag'.column = c /\ drag'.width = WidthOf(c)
  BY DEF StartResize
<1>3. gridMoves' \in 0..MaxTableMoves
  BY MoveCounts DEF StartResize, GridInv, GridTypeOK
<1>4. GridTypeOK'
  BY <1>1, <1>2, <1>3 DEF GridInv, GridTypeOK, StartResize
<1> QED BY <1>4 DEF GridInv, StartResize

LEMMA FocusKeeps == ASSUME GridInv, NEW i \in DOMAIN TableRows, FocusRow(i) \/ ToggleExpanded(i) PROVE GridInv'
<1>1. i \in Nat
  BY TableRowsTyped DEF GridInv
<1>2. gridMoves' \in 0..MaxTableMoves
  BY MoveCounts DEF FocusRow, ToggleExpanded, GridInv, GridTypeOK
<1> QED BY <1>1, <1>2 DEF GridInv, GridTypeOK, FocusRow, ToggleExpanded

LEMMA RowsComeIn ==
    ASSUME GridInv, (\E d \in DataSets : NewRows(d)) \/ (\E q \in QueryHits \cup {NoQuery} : TypeQuery(q)) \/ EndResize
    PROVE  GridInv'
<1>1. gridMoves' \in 0..MaxTableMoves
  BY MoveCounts DEF NewRows, TypeQuery, EndResize, GridInv, GridTypeOK
<1> QED BY <1>1 DEF GridInv, GridTypeOK, NewRows, TypeQuery, EndResize

LEMMA GridStarts == ASSUME GridInit PROVE GridInv
<1>1. DOMAIN sizing = {}
  BY DEF GridInit
<1>2. sorting \in Orderings
  BY DEF GridInit, Orderings
<1> QED BY <1>1, <1>2, TableData DEF GridInit, GridInv, GridTypeOK

LEMMA GridStep == ASSUME GridInv, [GridNext]_gridVars PROVE GridInv'
<1>1. CASE UNCHANGED gridVars
  BY <1>1 DEF GridInv, GridTypeOK, gridVars
<1>2. ASSUME NEW d \in DataSets, NewRows(d) PROVE GridInv'
  BY <1>2, RowsComeIn
<1>3. ASSUME NEW q \in QueryHits \cup {NoQuery}, TypeQuery(q) PROVE GridInv'
  BY <1>3, RowsComeIn
<1>4. ASSUME NEW c \in DataColumns, ToggleSorting(c) PROVE GridInv'
  BY <1>4, SortKeeps
<1>5. ASSUME NEW c \in DataColumns, StartResize(c) PROVE GridInv'
  BY <1>5, GrabKeeps
<1>6. ASSUME NEW i, ToggleExpanded(i) \/ FocusRow(i) PROVE GridInv'
  <2>1. i \in DOMAIN TableRows
    BY <1>6 DEF ToggleExpanded, FocusRow
  <2> QED BY <1>6, <2>1, FocusKeeps
<1>7. ASSUME PressRowKey(1) \/ PressRowKey(-1) PROVE GridInv'
  <2>1. 1 \in Int /\ -1 \in Int
    OBVIOUS
  <2>2. CASE PressRowKey(1)
    BY <2>1, <2>2, KeyKeeps
  <2>3. CASE PressRowKey(-1)
    BY <2>1, <2>3, KeyKeeps
  <2> QED BY <1>7, <2>2, <2>3
<1>8. ASSUME NEW by \in Drags, DragColumn(by) PROVE GridInv'
  BY <1>8, DragWidens
<1>9. ASSUME EndResize PROVE GridInv'
  BY <1>9, RowsComeIn
<1>10. ASSUME Reopen PROVE GridInv'
  BY <1>10, ReopenKeeps
<1> QED BY <1>1, <1>2, <1>3, <1>4, <1>5, <1>6, <1>7, <1>8, <1>9, <1>10 DEF GridNext

LEMMA GridInvHolds == GridSpec => []GridInv
<1>1. GridInit => GridInv
  BY GridStarts
<1>2. GridInv /\ [GridNext]_gridVars => GridInv'
  BY GridStep
<1> QED BY <1>1, <1>2, PTL DEF GridSpec

\* The state of the data table has its type: a width is never below the least one (DataTable.js).
THEOREM GridTyped == GridSpec => []GridTypeOK
<1>1. GridInv => GridTypeOK
  BY DEF GridInv
<1> QED BY <1>1, GridInvHolds, PTL

\* Whatever comes in, is typed or clicked, the table lists the rows that the text is found in, each once and
\* in the order chosen, and what a reload would show is what is on the screen (DataTable.js).
THEOREM RowsStayInOrder == GridSpec => []RowsInOrder
<1>1. ASSUME GridInv PROVE RowsInOrder
  <2>1. allRows \in DataSets /\ sorting \in Orderings
    BY <1>1 DEF GridInv, GridTypeOK
  <2> DEFINE t == TableRows
  <2>2. t = SortedRows(FilterRows(allRows, tableQuery), sorting)
    BY DEF TableRows
  <2> HIDE DEF t
  <2>3. /\ ToSet(t) = {r \in ToSet(allRows) : tableQuery = NoQuery \/ r.id \in tableQuery}
        /\ IsInjective(allRows) => IsInjective(t)
        /\ sorting # NoColumn => \A i, j \in DOMAIN t : i < j =>
             IF sorting.desc THEN t[i].value[sorting.column] >= t[j].value[sorting.column]
             ELSE t[i].value[sorting.column] <= t[j].value[sorting.column]
    BY <2>1, <2>2, ListedAre
  <2>4. persisted = [sorting |-> sorting, sizing |-> sizing]
    BY <1>1 DEF GridInv
  <2> QED BY <2>3, <2>4 DEF RowsInOrder, t
<1> QED BY <1>1, GridInvHolds, PTL

LEMMA ExpandedChanges ==
    ASSUME [GridNext]_gridVars
    PROVE  expanded' = expanded \/ Reopen \/ \E i \in DOMAIN TableRows : ToggleExpanded(i)
<1>1. ASSUME NEW i, ToggleExpanded(i) PROVE i \in DOMAIN TableRows
  BY <1>1 DEF ToggleExpanded
<1> QED BY <1>1 DEF GridNext, gridVars, NewRows, TypeQuery, ToggleSorting, StartResize, FocusRow, PressRowKey, DragColumn, EndResize

\* A row is unfolded exactly while its key is kept, whichever place it has.
LEMMA UnfoldedByKey == \A id : id \in UnfoldedRows <=> id \in expanded /\ \E i \in DOMAIN TableRows : TableRows[i].id = id
BY DEF UnfoldedRows, IsExpanded, RowKey

\* A row that stays on the screen stays folded or unfolded through every new answer, text and order (DataTable.js).
THEOREM RowsFoldByKey == GridSpec => [][FoldsByRow]_gridVars
<1>1. ASSUME [GridNext]_gridVars PROVE [FoldsByRow]_gridVars
  <2> SUFFICES ASSUME NEW i \in DOMAIN TableRows, NEW id, id = TableRows[i].id,
                      id \in {r.id : r \in ToSet(TableRows')}, ~ToggleExpanded(i), ~Reopen
               PROVE  id \in UnfoldedRows <=> id \in UnfoldedRows'
    BY DEF FoldsByRow
  <2>1. id \in UnfoldedRows <=> id \in expanded
    BY UnfoldedByKey
  <2>2. id \in UnfoldedRows' <=> id \in expanded'
    <3>1. \E j \in DOMAIN TableRows' : TableRows'[j].id = id
      BY DEF ToSet
    <3>2. \A x : x \in UnfoldedRows' <=> x \in expanded' /\ \E j \in DOMAIN TableRows' : TableRows'[j].id = x
      BY DEF UnfoldedRows, IsExpanded, RowKey
    <3> QED BY <3>1, <3>2
  <2>3. CASE expanded' = expanded
    BY <2>1, <2>2, <2>3
  <2>4. ASSUME NEW j \in DOMAIN TableRows, ToggleExpanded(j) PROVE id \in expanded <=> id \in expanded'
    <3>1. TableRows[j].id # id
      <4>1. TableRows[j].id = id => ToggleExpanded(i)
        BY <2>4 DEF ToggleExpanded, RowKey
      <4> QED BY <4>1
    <3> QED BY <2>4, <3>1 DEF ToggleExpanded, RowKey
  <2> QED BY <1>1, <2>1, <2>2, <2>3, <2>4, ExpandedChanges
<1> QED BY <1>1, PTL DEF GridSpec

(* The flow of a session --------------------------------------------------- *)

LEMMA PickedLess ==
    ASSUME NEW S, NEW s \in Seq(S), NEW P \in SUBSET DOMAIN s
    PROVE  Len(Picked(s, P)) <= Len(s) /\ (P # DOMAIN s => Len(Picked(s, P)) < Len(s))
<1> DEFINE D == DOMAIN s
<1>1. D = 1..Len(s) /\ Len(s) \in Nat
  OBVIOUS
<1>2. IsFiniteSet(D) /\ Cardinality(D) = Len(s)
  <2>1. 1 \in Int /\ Len(s) \in Int /\ (1 > Len(s) <=> Len(s) = 0) /\ Len(s) - 1 + 1 = Len(s)
    BY <1>1
  <2> QED BY <1>1, <2>1, FS_Interval
<1>3. Len(Picked(s, P)) = Cardinality(P) /\ Cardinality(P) \in Nat
  BY PickedIs, PlacesFinite
<1>4. P \in SUBSET D
  OBVIOUS
<1> HIDE DEF D
<1>5. Cardinality(P) <= Cardinality(D) /\ (P # D => Cardinality(P) # Cardinality(D))
  BY <1>2, <1>4, FS_Subset, Zenon
<1>6. Cardinality(P) <= Len(s) /\ (P # D => Cardinality(P) < Len(s))
  BY <1>1, <1>2, <1>3, <1>5
<1> QED BY <1>3, <1>6 DEF D

Turn == [prompted : BOOLEAN, actions : Seq(Nat), uses : Nat, responses : Seq(Nat), input : Nat, output : Nat, calls : Nat]

LEMMA FlowIs ==
    ASSUME NEW f \in Flows
    PROVE  f \in Seq(Events) /\ Len(f) \in Nat /\ DOMAIN f = 1..Len(f) /\ \A i \in 1..Len(f) : f[i] \in Events
BY FlowData

LEMMA RecordTyped ==
    ASSUME NEW t \in Turn, NEW e \in Events, NEW i \in Nat
    PROVE  /\ Record(t, e, i) \in Turn /\ Record(t, e, i).actions = Append(t.actions, i)
           /\ Record(t, e, i).prompted = t.prompted
<1> DEFINE called == [t EXCEPT !.input = @ + e.input, !.output = @ + e.output, !.calls = @ + 1]
           base == IF e.type = "api_call" THEN called ELSE t
           uses == IF e.type \in {"tool_use", "hook"} THEN base.uses + 1 ELSE base.uses
           responses == IF e.type = "api_response" THEN Append(base.responses, i) ELSE base.responses
           new == Append(base.actions, i)
<1>1. e.input \in Nat /\ e.output \in Nat
  BY DEF Events
<1>2. called \in Turn /\ called.actions = t.actions /\ called.prompted = t.prompted
  <2>1. t.input + e.input \in Nat /\ t.output + e.output \in Nat /\ t.calls + 1 \in Nat
    BY <1>1 DEF Turn
  <2> DEFINE a == t.input + e.input
             b == t.output + e.output
             c == t.calls + 1
  <2>2. called = [t EXCEPT !.input = a, !.output = b, !.calls = c]
    OBVIOUS
  <2>3. a \in Nat /\ b \in Nat /\ c \in Nat
    BY <2>1
  <2> HIDE DEF called, a, b, c
  <2>4. called \in Turn
    BY <2>2, <2>3 DEF Turn
  <2>5. called.actions = t.actions /\ called.prompted = t.prompted
    BY <2>2 DEF Turn
  <2> QED BY <2>4, <2>5
<1>3. base \in Turn /\ base.actions = t.actions /\ base.prompted = t.prompted
  BY <1>2
<1>4. Record(t, e, i) = [base EXCEPT !.actions = new, !.uses = uses, !.responses = responses]
  BY DEF Record
<1> HIDE DEF called, base
<1>5. uses \in Nat
  BY <1>3 DEF Turn
<1>6. base.responses \in Seq(Nat) /\ base.actions \in Seq(Nat)
  BY <1>3 DEF Turn
<1>7. responses \in Seq(Nat) /\ new \in Seq(Nat)
  BY <1>6
<1> HIDE DEF uses, responses
<1>8. Record(t, e, i) \in Turn
  <2> HIDE DEF new
  <2> QED BY <1>3, <1>4, <1>5, <1>7 DEF Turn
<1>9. Record(t, e, i).actions = new /\ Record(t, e, i).prompted = base.prompted
  <2> HIDE DEF new
  <2> QED BY <1>3, <1>4, <1>5, <1>7 DEF Turn
<1> QED BY <1>3, <1>8, <1>9

\* what one event does to the turns: a new one, an action more in the last one, or nothing
LEMMA TakeIs ==
    ASSUME NEW turns \in Seq(Turn), NEW f \in Seq(Events), NEW i \in 1..Len(f), NEW new, new = Take(turns, f, i)
    PROVE  \/ f[i].type = "user_message" /\ \E t \in Turn : new = Append(turns, t) /\ t.prompted /\ t.actions = <<>>
           \/ /\ f[i].type \in ActionKinds /\ turns # <<>>
              /\ \E t \in Turn : /\ new = [turns EXCEPT ![Len(turns)] = t] /\ t.prompted = turns[Len(turns)].prompted
                                 /\ t.actions = Append(turns[Len(turns)].actions, i)
           \/ /\ f[i].type \in ActionKinds \ {"api_response"} /\ turns = <<>>
              /\ \E t \in Turn : new = <<t>> /\ ~t.prompted /\ t.actions = <<i>>
           \/ /\ new = turns /\ f[i].type # "user_message"
              /\ f[i].type \in ActionKinds => turns = <<>> /\ f[i].type = "api_response"
<1>1. f[i] \in Events /\ i \in Nat
  OBVIOUS
<1>2. CASE f[i].type = "user_message"
  <2>1. new = Append(turns, NewTurn(f[i]))
    BY <1>2 DEF Take, ActionKinds
  <2>2. NewTurn(f[i]) \in Turn /\ NewTurn(f[i]).prompted /\ NewTurn(f[i]).actions = <<>>
    <3>1. f[i].tools \in Nat /\ f[i].input \in Nat /\ f[i].output \in Nat
      BY <1>1 DEF Events
    <3>2. <<>> \in Seq(Nat)
      OBVIOUS
    <3> QED BY <1>2, <3>1, <3>2 DEF NewTurn, Turn
  <2> QED BY <1>2, <2>1, <2>2
<1>3. CASE f[i].type \in ActionKinds /\ turns # <<>>
  <2> DEFINE last == turns[Len(turns)]
  <2>1. new = [turns EXCEPT ![Len(turns)] = Record(last, f[i], i)]
    BY <1>3 DEF Take, ActionKinds
  <2>2. last \in Turn
    BY <1>3
  <2> HIDE DEF last
  <2>3. Record(last, f[i], i) \in Turn /\ Record(last, f[i], i).actions = Append(last.actions, i) /\ Record(last, f[i], i).prompted = last.prompted
    BY <1>1, <2>2, RecordTyped
  <2> QED BY <1>3, <2>1, <2>3 DEF last
<1>4. CASE f[i].type \in ActionKinds \ {"api_response"} /\ turns = <<>>
  <2>1. new = <<Record(EmptyTurn, f[i], i)>>
    BY <1>4 DEF Take, ActionKinds
  <2>2. EmptyTurn \in Turn /\ EmptyTurn.actions = <<>> /\ ~EmptyTurn.prompted
    BY DEF EmptyTurn, Turn
  <2>3. Record(EmptyTurn, f[i], i) \in Turn /\ Record(EmptyTurn, f[i], i).actions = Append(EmptyTurn.actions, i)
        /\ Record(EmptyTurn, f[i], i).prompted = EmptyTurn.prompted
    BY <1>1, <2>2, RecordTyped
  <2>4. Append(EmptyTurn.actions, i) = <<i>>
    BY <2>2
  <2> QED BY <1>4, <2>1, <2>2, <2>3, <2>4
<1>5. CASE /\ f[i].type # "user_message" /\ ~(f[i].type \in ActionKinds /\ turns # <<>>)
           /\ ~(f[i].type \in ActionKinds \ {"api_response"} /\ turns = <<>>)
  <2>1. new = turns
    BY <1>5 DEF Take
  <2> QED BY <1>5, <2>1
<1> QED BY <1>2, <1>3, <1>4, <1>5

LEMMA TakeTyped ==
    ASSUME NEW turns \in Seq(Turn), NEW f \in Seq(Events), NEW i \in 1..Len(f)
    PROVE  Take(turns, f, i) \in Seq(Turn) /\ Len(Take(turns, f, i)) <= Len(turns) + 1
<1> DEFINE new == Take(turns, f, i)
<1>1. new = Take(turns, f, i)
  OBVIOUS
<1> HIDE DEF new
<1>2. ASSUME NEW t \in Turn, new = Append(turns, t) PROVE new \in Seq(Turn) /\ Len(new) <= Len(turns) + 1
  BY <1>2
<1>3. ASSUME NEW t \in Turn, turns # <<>>, new = [turns EXCEPT ![Len(turns)] = t]
      PROVE  new \in Seq(Turn) /\ Len(new) <= Len(turns) + 1
  BY <1>3
<1>4. ASSUME NEW t \in Turn, turns = <<>>, new = <<t>> PROVE new \in Seq(Turn) /\ Len(new) <= Len(turns) + 1
  BY <1>4
<1>5. ASSUME new = turns PROVE new \in Seq(Turn) /\ Len(new) <= Len(turns) + 1
  BY <1>5
<1>6. \/ \E t \in Turn : new = Append(turns, t)
      \/ turns # <<>> /\ \E t \in Turn : new = [turns EXCEPT ![Len(turns)] = t]
      \/ turns = <<>> /\ \E t \in Turn : new = <<t>>
      \/ new = turns
  BY <1>1, TakeIs
<1>7. new \in Seq(Turn) /\ Len(new) <= Len(turns) + 1
  BY <1>2, <1>3, <1>4, <1>5, <1>6
<1> QED BY <1>1, <1>7

TurnsUpto(f) == CHOOSE g : g = [n \in 0..Len(f) |-> IF n = 0 THEN <<>> ELSE Take(g[n-1], f, n)]

LEMMA TurnsRun ==
    ASSUME NEW f \in Seq(Events), NEW g, g = TurnsUpto(f)
    PROVE  /\ Normalize(f) = g[Len(f)] /\ g[0] = <<>>
           /\ \A n \in 0..Len(f) : g[n] \in Seq(Turn) /\ Len(g[n]) <= n
           /\ \A n \in 1..Len(f) : g[n] = Take(g[n-1], f, n)
<1> DEFINE N == Len(f)
           S == Seq(Turn)
           step == [x \in S \X (1..N) |-> Take(x[1], f, x[2])]
<1>1. N \in Nat
  OBVIOUS
<1>2. <<>> \in S
  OBVIOUS
<1>3. step \in [S \X (1..N) -> S]
  <2>1. ASSUME NEW x \in S \X (1..N) PROVE Take(x[1], f, x[2]) \in S
    <3>1. x[1] \in S /\ x[2] \in 1..N
      OBVIOUS
    <3> QED BY <3>1, TakeTyped
  <2> QED BY <2>1
<1>4. PICK h \in [0..N -> S] : Accumulated(h, <<>>, step, N)
  <2> HIDE DEF S, N, step
  <2> QED BY <1>1, <1>2, <1>3, Accumulates
<1>5. \A n \in 0..N : h[n] = IF n = 0 THEN <<>> ELSE step[<<h[n-1], n>>]
  BY <1>4 DEF Accumulated
<1>6. ASSUME NEW n \in 1..N PROVE step[<<h[n-1], n>>] = Take(h[n-1], f, n)
  <2>1. n - 1 \in 0..N
    BY <1>1
  <2>2. <<h[n-1], n>> \in S \X (1..N)
    BY <1>4, <2>1
  <2> QED BY <2>2
<1> HIDE DEF step
<1>7. h = [n \in 0..N |-> IF n = 0 THEN <<>> ELSE Take(h[n-1], f, n)]
  <2>1. h = [n \in 0..N |-> h[n]]
    BY <1>4
  <2>2. ASSUME NEW n \in 0..N PROVE h[n] = IF n = 0 THEN <<>> ELSE Take(h[n-1], f, n)
    <3>1. CASE n = 0
      BY <1>5, <3>1
    <3>2. CASE n # 0
      <4>1. n \in 1..N
        BY <1>1, <3>2
      <4> QED BY <1>5, <1>6, <3>2, <4>1
    <3> QED BY <3>1, <3>2
  <2> QED BY <2>1, <2>2
<1>8. g = [n \in 0..N |-> IF n = 0 THEN <<>> ELSE Take(g[n-1], f, n)]
  BY <1>7 DEF TurnsUpto
<1>9. \A n \in 0..N : g[n] = IF n = 0 THEN <<>> ELSE Take(g[n-1], f, n)
  BY <1>8
<1>10. g[0] = <<>> /\ \A n \in 1..N : g[n] = Take(g[n-1], f, n)
  BY <1>1, <1>9
<1>11. \A n \in 0..N : g[n] \in S /\ Len(g[n]) <= n
  <2> DEFINE T == {n \in 0..N : g[n] \in S /\ Len(g[n]) <= n}
  <2>1. 0 \in T
    <3>1. 0 \in 0..N
      BY <1>1
    <3>2. g[0] \in S /\ Len(g[0]) = 0
      BY <1>2, <1>10
    <3> QED BY <3>1, <3>2
  <2>2. ASSUME NEW n \in 1..N, n - 1 \in T PROVE n \in T
    <3> DEFINE old == g[n-1]
    <3>1. old \in Seq(Turn) /\ Len(old) <= n - 1 /\ g[n] = Take(old, f, n)
      BY <1>10, <2>2
    <3> HIDE DEF old
    <3>2. g[n] \in Seq(Turn) /\ Len(g[n]) <= Len(old) + 1
      BY <3>1, TakeTyped
    <3> DEFINE a == Len(old)
               b == Len(g[n])
    <3>3. a \in Nat /\ b \in Nat
      BY <3>1, <3>2
    <3>4. a <= n - 1 /\ b <= a + 1
      BY <3>1, <3>2
    <3> HIDE DEF a, b
    <3>5. b <= n /\ n \in 0..N
      BY <1>1, <3>3, <3>4
    <3> USE DEF b
    <3> QED BY <3>2, <3>5
  <2> HIDE DEF T
  <2>3. \A n \in 1..N : n - 1 \in T => n \in T
    BY <2>2
  <2>4. \A n \in 0..N : n \in T
    BY <1>1, <2>1, <2>3, CountsUp
  <2> QED BY <2>4 DEF T
<1>12. Normalize(f) = g[N]
  BY DEF Normalize, TurnsUpto
<1> QED BY <1>10, <1>11, <1>12

LEMMA TurnsAre ==
    ASSUME flow \in Flows, NEW turns, turns = Normalize(flow)
    PROVE  turns \in Seq(Turn) /\ Len(turns) \in Nat /\ Len(turns) <= Len(flow) /\ DOMAIN turns = 1..Len(turns)
<1> DEFINE g == TurnsUpto(flow)
<1>1. flow \in Seq(Events) /\ Len(flow) \in Nat
  BY FlowIs
<1>2. turns = g[Len(flow)] /\ \A n \in 0..Len(flow) : g[n] \in Seq(Turn) /\ Len(g[n]) <= n
  <2>1. g = TurnsUpto(flow)
    OBVIOUS
  <2> HIDE DEF g
  <2> QED BY <1>1, <2>1, TurnsRun
<1> HIDE DEF g
<1>3. Len(flow) \in 0..Len(flow)
  BY <1>1
<1>4. turns \in Seq(Turn) /\ Len(turns) <= Len(flow)
  BY <1>2, <1>3
<1> QED BY <1>4

\* a finite set of numbers has a greatest one: the one that comes last
LEMMA FiniteHasMax ==
    ASSUME NEW D, D \subseteq Nat, IsFiniteSet(D), D # {}
    PROVE  Max(D) \in D /\ \A k \in D : k <= Max(D)
<1> DEFINE B == {p \in D \X D : p[1] < p[2]}
           c == Cardinality(D)
<1>1. \A i, k \in D : <<i, k>> \in B <=> i < k
  OBVIOUS
<1>2. \A i \in D : i \in Nat
  OBVIOUS
<1> HIDE DEF B
<1>3. StrictOrder(B, D)
  <2>1. \A i \in D : <<i, i>> \notin B
    BY <1>1, <1>2
  <2>2. \A i, j \in D : i # j => <<i, j>> \in B \/ <<j, i>> \in B
    BY <1>1, <1>2
  <2>3. \A i, j, k \in D : <<i, j>> \in B /\ <<j, k>> \in B => <<i, k>> \in B
    BY <1>1, <1>2
  <2> QED BY <2>1, <2>2, <2>3 DEF StrictOrder
<1>4. c \in Nat /\ c # 0
  BY FS_CardinalityType, FS_EmptySet
<1>5. c \in 1..c
  BY <1>4
<1>6. PICK m \in D : PlaceUnder(B, D, m) = c
  BY <1>3, <1>5, AtPlaceIs
<1>7. ASSUME NEW k \in D PROVE k <= m
  <2>1. ~(<<m, k>> \in B)
    <3>1. SUFFICES ASSUME <<m, k>> \in B PROVE FALSE
      OBVIOUS
    <3>2. PlaceUnder(B, D, m) < PlaceUnder(B, D, k)
      BY <1>3, <3>1, PlaceGrows
    <3>3. PlaceUnder(B, D, k) \in 1..c
      BY <1>3, PlaceCounts
    <3> HIDE DEF c
    <3> QED BY <1>4, <1>6, <3>2, <3>3
  <2> QED BY <1>1, <1>2, <2>1
<1>8. \A y \in D : m >= y
  BY <1>2, <1>7
<1>9. Max(D) \in D /\ \A y \in D : Max(D) >= y
  BY <1>8 DEF Max
<1> QED BY <1>2, <1>9

LEMMA LongestIs ==
    ASSUME NEW f \in Flows
    PROVE  Longest \in Nat /\ Len(f) <= Longest
<1> DEFINE lens == {Len(g) : g \in Flows} of == [g \in Flows |-> Len(g)]
<1>1. lens \subseteq Nat /\ lens # {} /\ Len(f) \in lens
  BY FlowIs
<1>2. of \in Surjection(Flows, lens)
  BY DEF Surjection
<1> HIDE DEF of
<1>3. IsFiniteSet(lens)
  <2> HIDE DEF lens
  <2> QED BY <1>2, FlowData, FS_Surjection
<1>4. Longest = Max(lens)
  BY DEF Longest
<1> HIDE DEF lens
<1>5. Max(lens) \in lens /\ \A k \in lens : k <= Max(lens)
  BY <1>1, <1>3, FiniteHasMax
<1> QED BY <1>1, <1>4, <1>5

\* the rows of the timeline: events of the flow, each with its own kind
RowsIn(f) == {r \in [id : DOMAIN f, type : EventTypes, cum : Nat] : r.type = f[r.id].type}

SumUpto(f) == CHOOSE g : g = [n \in 0..Len(f) |-> IF n = 0 THEN 0 ELSE g[n-1] + RowCost(f[n])]

LEMMA SumsCost ==
    ASSUME NEW f \in Seq(Events), NEW g, g = SumUpto(f)
    PROVE  /\ g[0] = 0 /\ \A n \in 0..Len(f) : g[n] \in Nat
           /\ \A n \in 1..Len(f) : g[n] = g[n-1] + RowCost(f[n]) /\ RowCost(f[n]) \in Nat
<1> DEFINE N == Len(f)
           step == [x \in Nat \X (1..N) |-> x[1] + RowCost(f[x[2]])]
<1>1. N \in Nat
  OBVIOUS
<1>2. ASSUME NEW n \in 1..N PROVE RowCost(f[n]) \in Nat
  <2>1. f[n] \in Events
    OBVIOUS
  <2>2. f[n].output \in Nat
    BY <2>1 DEF Events
  <2> QED BY <2>2 DEF RowCost
<1>3. step \in [Nat \X (1..N) -> Nat]
  <2>1. ASSUME NEW x \in Nat \X (1..N) PROVE x[1] + RowCost(f[x[2]]) \in Nat
    <3>1. x[1] \in Nat /\ x[2] \in 1..N
      OBVIOUS
    <3>2. RowCost(f[x[2]]) \in Nat
      BY <1>2, <3>1
    <3> QED BY <3>1, <3>2
  <2> QED BY <2>1
<1>4. PICK h \in [0..N -> Nat] : Accumulated(h, 0, step, N)
  <2>1. 0 \in Nat
    OBVIOUS
  <2> HIDE DEF N, step
  <2> QED BY <1>1, <2>1, <1>3, Accumulates
<1>5. \A n \in 0..N : h[n] = IF n = 0 THEN 0 ELSE step[<<h[n-1], n>>]
  BY <1>4 DEF Accumulated
<1>6. ASSUME NEW n \in 1..N PROVE step[<<h[n-1], n>>] = h[n-1] + RowCost(f[n])
  <2>1. n - 1 \in 0..N
    BY <1>1
  <2>2. <<h[n-1], n>> \in Nat \X (1..N)
    BY <1>4, <2>1
  <2> QED BY <2>2
<1> HIDE DEF step
<1>7. h = [n \in 0..N |-> IF n = 0 THEN 0 ELSE h[n-1] + RowCost(f[n])]
  <2>1. h = [n \in 0..N |-> h[n]]
    BY <1>4
  <2>2. ASSUME NEW n \in 0..N PROVE h[n] = IF n = 0 THEN 0 ELSE h[n-1] + RowCost(f[n])
    <3>1. CASE n = 0
      BY <1>5, <3>1
    <3>2. CASE n # 0
      <4>1. n \in 1..N
        BY <1>1, <3>2
      <4> QED BY <1>5, <1>6, <3>2, <4>1
    <3> QED BY <3>1, <3>2
  <2> QED BY <2>1, <2>2
<1>8. g = [n \in 0..N |-> IF n = 0 THEN 0 ELSE g[n-1] + RowCost(f[n])]
  BY <1>7 DEF SumUpto
<1>9. \A n \in 0..N : g[n] = IF n = 0 THEN 0 ELSE g[n-1] + RowCost(f[n])
  BY <1>8
<1>10. g[0] = 0 /\ \A n \in 1..N : g[n] = g[n-1] + RowCost(f[n])
  BY <1>1, <1>9
<1>11. \A n \in 0..N : g[n] \in Nat
  <2> DEFINE T == {n \in 0..N : g[n] \in Nat}
  <2>1. 0 \in T
    BY <1>1, <1>10
  <2>2. ASSUME NEW n \in 1..N, n - 1 \in T PROVE n \in T
    <3>1. g[n-1] \in Nat /\ RowCost(f[n]) \in Nat /\ n \in 0..N
      BY <1>1, <1>2, <2>2
    <3>2. g[n] = g[n-1] + RowCost(f[n])
      BY <1>10
    <3> QED BY <3>1, <3>2
  <2> HIDE DEF T
  <2>3. \A n \in 1..N : n - 1 \in T => n \in T
    BY <2>2
  <2>4. \A n \in 0..N : n \in T
    BY <1>1, <2>1, <2>3, CountsUp
  <2> QED BY <2>4 DEF T
<1> QED BY <1>2, <1>10, <1>11

LEMMA RowsAre ==
    ASSUME NEW f \in Seq(Events)
    PROVE  TurnsToEvents(f) \in Seq(RowsIn(f))
<1> DEFINE g == SumUpto(f)
           each == [i \in 1..Len(f) |-> [id |-> i, type |-> f[i].type, cum |-> g[i]]]
           places == {i \in DOMAIN f : f[i].type \in RowTypes}
<1>1. TurnsToEvents(f) = Picked(each, places)
  BY DEF TurnsToEvents, SumUpto
<1>2. \A n \in 0..Len(f) : g[n] \in Nat
  <2>1. g = SumUpto(f)
    OBVIOUS
  <2> HIDE DEF g
  <2> QED BY <2>1, SumsCost
<1> HIDE DEF g
<1>3. ASSUME NEW i \in 1..Len(f) PROVE [id |-> i, type |-> f[i].type, cum |-> g[i]] \in RowsIn(f)
  <2>1. f[i] \in Events /\ i \in DOMAIN f /\ i \in 0..Len(f)
    OBVIOUS
  <2>2. f[i].type \in EventTypes /\ g[i] \in Nat
    BY <1>2, <2>1 DEF Events
  <2> QED BY <2>1, <2>2 DEF RowsIn
<1>4. each \in Seq(RowsIn(f)) /\ DOMAIN each = 1..Len(f)
  <2>1. Len(f) \in Nat
    OBVIOUS
  <2> QED BY <1>3, <2>1, SeqBuilt
<1>5. places \in SUBSET DOMAIN each
  BY <1>4
<1> HIDE DEF each, places
<1> QED BY <1>1, <1>4, <1>5, PickedIs

LEMMA EventsLeftAre ==
    ASSUME flow \in Flows, NEW rows, rows = FilteredEvents
    PROVE  /\ rows \in Seq(RowsIn(flow))
           /\ \A i \in DOMAIN rows : rows[i].id \in DOMAIN flow /\ rows[i].id \in 1..Longest
           /\ \A i \in DOMAIN rows : find = NoEvent \/ flow[rows[i].id].type \in find
<1> DEFINE S == RowsIn(flow)
           own == TurnsToEvents(flow)
           places == {i \in DOMAIN own : find = NoEvent \/ own[i].type \in find}
<1>1. flow \in Seq(Events) /\ Len(flow) \in Nat /\ DOMAIN flow = 1..Len(flow) /\ Longest \in Nat /\ Len(flow) <= Longest
  BY FlowIs, LongestIs
<1>2. own \in Seq(S)
  <2> HIDE DEF S
  <2> QED BY <1>1, RowsAre DEF S
<1>3. rows = Picked(own, places)
  BY DEF FilteredEvents
<1>4. places \in SUBSET DOMAIN own
  OBVIOUS
<1> HIDE DEF own, S
<1>5. \A i \in places : find = NoEvent \/ own[i].type \in find
  OBVIOUS
<1> HIDE DEF places
<1>6. /\ rows \in Seq(S)
      /\ \A n \in DOMAIN rows : Nth(places, n) \in places /\ rows[n] = own[Nth(places, n)]
  BY <1>2, <1>3, <1>4, PickedIs
<1>7. ASSUME NEW i \in DOMAIN rows
      PROVE  /\ rows[i].id \in DOMAIN flow /\ rows[i].id \in 1..Longest
             /\ find = NoEvent \/ flow[rows[i].id].type \in find
  <2>1. rows[i] \in S
    BY <1>6
  <2>2. rows[i].id \in DOMAIN flow /\ rows[i].type = flow[rows[i].id].type
    BY <2>1 DEF S, RowsIn
  <2>3. rows[i].id \in 1..Longest
    BY <1>1, <2>2
  <2>4. find = NoEvent \/ rows[i].type \in find
    BY <1>5, <1>6
  <2> QED BY <2>2, <2>3, <2>4
<1> QED BY <1>6, <1>7 DEF S

\* the turns that are listed are some of all of them
LEMMA TurnsListed ==
    ASSUME flow \in Flows
    PROVE  /\ DOMAIN Turns \subseteq DOMAIN Normalize(flow)
           /\ DOMAIN Normalize(flow) \subseteq 1..Longest
<1> DEFINE all == Normalize(flow)
           places == {n \in DOMAIN all : all[n].prompted \/ all[n].actions # <<>> \/ all[n].uses > 0}
<1>1. all \in Seq(Turn) /\ Len(all) \in Nat /\ Len(all) <= Len(flow) /\ DOMAIN all = 1..Len(all)
  <2>1. all = Normalize(flow)
    OBVIOUS
  <2> HIDE DEF all
  <2> QED BY <2>1, TurnsAre
<1>2. Turns = Picked(all, places) /\ places \in SUBSET DOMAIN all
  BY DEF Turns
<1>3. Longest \in Nat /\ Len(flow) <= Longest /\ Len(flow) \in Nat
  BY FlowIs, LongestIs
<1> HIDE DEF all, places
<1>4. Turns \in Seq(Turn) /\ Len(Turns) <= Len(all)
  BY <1>1, <1>2, PickedIs, PickedLess
<1>5. DOMAIN Turns = 1..Len(Turns) /\ Len(Turns) \in Nat
  BY <1>4
<1>6. DOMAIN Turns \subseteq DOMAIN all
  <2> DEFINE n == Len(Turns) m == Len(all)
  <2>1. n \in Nat /\ m \in Nat /\ n <= m /\ DOMAIN Turns = 1..n /\ DOMAIN all = 1..m
    BY <1>1, <1>4, <1>5
  <2> HIDE DEF n, m
  <2> QED BY <2>1
<1>7. DOMAIN all \subseteq 1..Longest
  <2> DEFINE n == Len(flow) m == Len(all)
  <2>1. n \in Nat /\ m \in Nat /\ m <= n /\ n <= Longest /\ DOMAIN all = 1..m
    BY <1>1, <1>3
  <2> HIDE DEF n, m
  <2> QED BY <1>3, <2>1
<1> QED BY <1>6, <1>7 DEF all

LEMMA FlowTyped ==
    ASSUME FlowTypeOK, FlowNext \/ UNCHANGED flowVars
    PROVE  FlowTypeOK'
<1>1. Longest \in Nat /\ MaxFlowMoves \in Nat
  BY LongestIs, FlowData DEF FlowTypeOK
<1>2. CASE UNCHANGED flowVars
  BY <1>2 DEF FlowTypeOK, flowVars
<1>3. ASSUME FlowStep PROVE flowMoves' \in 0..MaxFlowMoves
  BY <1>1, <1>3 DEF FlowStep, FlowTypeOK
<1>4. 0 \in 0..Longest
  BY <1>1
<1>5. ASSUME NEW f \in Flows, FlowGrew(f) PROVE FlowTypeOK'
  BY <1>3, <1>5 DEF FlowGrew, FlowTypeOK
<1>6. ASSUME NEW f \in Flows, OtherSession(f) PROVE FlowTypeOK'
  BY <1>3, <1>4, <1>6 DEF OtherSession, FlowTypeOK
<1>7. ASSUME SetFlowMode PROVE FlowTypeOK'
  BY <1>3, <1>4, <1>7 DEF SetFlowMode, FlowTypeOK
<1>8. ASSUME ToggleAll PROVE FlowTypeOK'
  <2>1. unfolded' \subseteq 1..Longest
    BY <1>8, TurnsListed DEF ToggleAll, FlowTypeOK
  <2> QED BY <1>3, <1>8, <2>1 DEF ToggleAll, FlowTypeOK
<1>9. ASSUME NEW i \in 0..Longest, PickIdx(i) PROVE FlowTypeOK'
  BY <1>3, <1>9 DEF PickIdx, FlowTypeOK
<1>10. ASSUME NEW i \in 0..Longest, Hover(i) PROVE FlowTypeOK'
  BY <1>3, <1>10 DEF Hover, FlowTypeOK
<1>11. ASSUME NEW i \in 0..Longest, PickEvent(i) PROVE FlowTypeOK'
  <2>1. pickedEv' \in 1..Longest
    <3>1. i \in DOMAIN FilteredEvents /\ pickedEv' = FilteredEvents[i].id /\ flow \in Flows
      BY <1>11 DEF PickEvent, FlowTypeOK
    <3> QED BY <3>1, EventsLeftAre
  <2> QED BY <1>3, <1>11, <2>1 DEF PickEvent, FlowTypeOK
<1>12. ASSUME NEW i \in 0..Longest, ToggleTurn(i) PROVE FlowTypeOK'
  <2>1. i \in 1..Longest
    BY <1>12, TurnsListed DEF ToggleTurn, FlowTypeOK
  <2>2. unfolded' \subseteq 1..Longest
    BY <1>12, <2>1 DEF ToggleTurn, FlowTypeOK
  <2> QED BY <1>3, <1>12, <2>2 DEF ToggleTurn, FlowTypeOK
<1>13. ASSUME NEW types \in {NoEvent} \cup {{t} : t \in RowTypes}, FindEvents(types) PROVE FlowTypeOK'
  <2>1. find' \in {NoEvent} \cup SUBSET RowTypes
    BY <1>13 DEF FindEvents
  <2> QED BY <1>3, <1>13, <2>1 DEF FindEvents, FlowTypeOK
<1> QED BY <1>2, <1>5, <1>6, <1>7, <1>8, <1>9, <1>10, <1>11, <1>12, <1>13 DEF FlowNext

\* The transcript, the timeline and the flow tab keep to the flow that was fetched: what is picked, hovered
\* or unfolded is a number that some flow has.
THEOREM FlowsTyped == FlowSpec => []FlowTypeOK
<1>1. FlowInit => FlowTypeOK
  <2> SUFFICES ASSUME FlowInit PROVE FlowTypeOK
    OBVIOUS
  <2>1. Longest \in Nat /\ MaxFlowMoves \in Nat
    BY LongestIs, FlowData DEF FlowInit
  <2>2. 0 \in 0..Longest /\ 0 \in 0..MaxFlowMoves
    BY <2>1
  <2> QED BY <2>2 DEF FlowInit, FlowTypeOK
<1>2. FlowTypeOK /\ [FlowNext]_flowVars => FlowTypeOK'
  BY FlowTyped
<1> QED BY <1>1, <1>2, PTL DEF FlowSpec

\* A flow that grows keeps what is picked or hovered in it.
LEMMA GrownKeeps ==
    ASSUME flow \in Flows, NEW f \in Flows, IsPrefix(flow, f)
    PROVE  DOMAIN flow \subseteq DOMAIN f
<1>1. Len(flow) <= Len(f)
  BY DEF IsPrefix
<1>2. Len(flow) \in Nat /\ DOMAIN flow = 1..Len(flow) /\ Len(f) \in Nat /\ DOMAIN f = 1..Len(f)
  BY FlowIs
<1> DEFINE n == Len(flow) m == Len(f)
<1>3. n \in Nat /\ m \in Nat /\ n <= m /\ DOMAIN flow = 1..n /\ DOMAIN f = 1..m
  BY <1>1, <1>2
<1> HIDE DEF n, m
<1> QED BY <1>3

Marked ==
    /\ pickedIdx # 0 => pickedIdx \in DOMAIN flow /\ flowMode = "timeline"
    /\ hovered # 0 => hovered \in DOMAIN flow /\ flowMode = "swimlane"

LEMMA StaysMarked ==
    ASSUME FlowTypeOK, Marked, FlowNext \/ UNCHANGED flowVars
    PROVE  Marked'
<1>1. CASE UNCHANGED flowVars
  BY <1>1 DEF Marked, flowVars
<1>2. ASSUME NEW f \in Flows, FlowGrew(f) PROVE Marked'
  <2>1. DOMAIN flow \subseteq DOMAIN flow'
    BY <1>2, GrownKeeps DEF FlowGrew, FlowTypeOK
  <2> QED BY <1>2, <2>1 DEF FlowGrew, Marked
<1>3. ASSUME NEW f \in Flows, OtherSession(f) PROVE Marked'
  BY <1>3 DEF OtherSession, Marked
<1>4. ASSUME SetFlowMode PROVE Marked'
  BY <1>4 DEF SetFlowMode, Marked
<1>5. ASSUME ToggleAll PROVE Marked'
  BY <1>5 DEF ToggleAll, Marked
<1>6. ASSUME NEW i \in 0..Longest, PickIdx(i) PROVE Marked'
  BY <1>6 DEF PickIdx, Marked
<1>7. ASSUME NEW i \in 0..Longest, Hover(i) PROVE Marked'
  BY <1>7 DEF Hover, Marked
<1>8. ASSUME NEW i \in 0..Longest, PickEvent(i) \/ ToggleTurn(i) PROVE Marked'
  BY <1>8 DEF PickEvent, ToggleTurn, Marked
<1>9. ASSUME NEW types, FindEvents(types) PROVE Marked'
  BY <1>9 DEF FindEvents, Marked
<1> QED BY <1>1, <1>2, <1>3, <1>4, <1>5, <1>6, <1>7, <1>8, <1>9 DEF FlowNext

LEMMA InspectedIs ==
    ASSUME flow \in Flows, Inspected # NoEvent
    PROVE  Inspected \in DOMAIN flow /\ (find = NoEvent \/ flow[Inspected].type \in find)
<1> DEFINE rows == FilteredEvents
           own == {i \in DOMAIN rows : rows[i].id = pickedEv}
           one == CHOOSE i \in own : TRUE
<1>1. own # {} /\ Inspected = rows[one].id
  BY DEF Inspected
<1>2. one \in own
  BY <1>1
<1>3. one \in DOMAIN rows
  BY <1>2
<1> HIDE DEF one, own
<1>4. \A i \in DOMAIN rows : rows[i].id \in DOMAIN flow /\ (find = NoEvent \/ flow[rows[i].id].type \in find)
  <2>1. rows = FilteredEvents
    OBVIOUS
  <2> HIDE DEF rows
  <2> QED BY <2>1, EventsLeftAre
<1> QED BY <1>1, <1>3, <1>4

\* What an inspector shows is an event of the flow on the screen, and one that the search leaves in: a
\* longer answer, another session, another mode or another search never leave it showing anything else.
THEOREM InspectsTheFlow == FlowSpec => []InspectsShown
<1>1. FlowInit => Marked
  BY DEF FlowInit, Marked
<1>2. FlowTypeOK /\ Marked /\ [FlowNext]_flowVars => Marked'
  BY StaysMarked
<1>3. FlowTypeOK /\ Marked => InspectsShown
  BY InspectedIs DEF InspectsShown, Marked, FlowTypeOK
<1> QED BY <1>1, <1>2, <1>3, FlowsTyped, PTL DEF FlowSpec

\* the ends of an arrow that is not of a call are among the participants
LEMMA EndsAreThere ==
    ASSUME flow \in Flows, NEW i \in DOMAIN flow, flow[i].type # "api_call", Ends(flow[i]) # <<>>
    PROVE  Range(Ends(flow[i])) \subseteq DiscoverParticipants(flow)
<1> DEFINE e == flow[i]
           of(x) == CASE flow[x].type \in {"api_call", "api_response", "error"} -> {<<"api">>}
                      [] flow[x].type = "tool_use" -> {<<"skill", flow[x].to>>}
                      [] flow[x].type = "subagent" -> {<<"subagent", flow[x].to>>}
                      [] flow[x].type = "hook" -> {<<"hook">>}
                      [] OTHER -> {}
           P == DiscoverParticipants(flow)
<1>1. P = {<<"user">>, <<"tool">>} \cup UNION {of(x) : x \in DOMAIN flow}
  BY DEF DiscoverParticipants
<1>2. <<"user">> \in P /\ <<"tool">> \in P
  BY <1>1
<1>3. of(i) \subseteq P
  <2> HIDE DEF of
  <2> QED BY <1>1
<1> HIDE DEF P, of
<1>4. \A a, b \in P : Range(<<a, b>>) \subseteq P
  <2> SUFFICES ASSUME NEW a \in P, NEW b \in P PROVE Range(<<a, b>>) \subseteq P
    OBVIOUS
  <2>1. DOMAIN <<a, b>> = {1, 2} /\ <<a, b>>[1] = a /\ <<a, b>>[2] = b
    OBVIOUS
  <2> QED BY <2>1 DEF Range
<1>5. ASSUME e.type = "user_message" PROVE \E a, b \in P : Ends(e) = <<a, b>>
  <2>1. Ends(e) = <<<<"user">>, <<"tool">>>>
    BY <1>5 DEF Ends
  <2> QED BY <1>2, <2>1
<1>6. ASSUME e.type \in {"api_response", "error"} PROVE \E a, b \in P : Ends(e) = <<a, b>>
  <2>1. Ends(e) = <<<<"api">>, <<"tool">>>>
    BY <1>6 DEF Ends
  <2>2. <<"api">> \in P
    BY <1>3, <1>6 DEF of
  <2> QED BY <1>2, <2>1, <2>2
<1>7. ASSUME e.type = "tool_use" PROVE \E a, b \in P : Ends(e) = <<a, b>>
  <2>1. Ends(e) = <<<<"tool">>, <<"skill", e.to>>>>
    BY <1>7 DEF Ends
  <2>2. <<"skill", e.to>> \in P
    BY <1>3, <1>7 DEF of
  <2> QED BY <1>2, <2>1, <2>2
<1>8. ASSUME e.type = "subagent" PROVE \E a, b \in P : Ends(e) = <<a, b>>
  <2>1. Ends(e) = <<<<"tool">>, <<"subagent", e.to>>>>
    BY <1>8 DEF Ends
  <2>2. <<"subagent", e.to>> \in P
    BY <1>3, <1>8 DEF of
  <2> QED BY <1>2, <2>1, <2>2
<1>9. ASSUME e.type = "hook" PROVE \E a, b \in P : Ends(e) = <<a, b>>
  <2>1. Ends(e) = <<<<"tool">>, <<"hook">>>>
    BY <1>9 DEF Ends
  <2>2. <<"hook">> \in P
    BY <1>3, <1>9 DEF of
  <2> QED BY <1>2, <2>1, <2>2
<1>10. e.type \in {"user_message", "api_response", "error", "tool_use", "subagent", "hook"}
  BY DEF Ends
<1>11. \E a, b \in P : Ends(e) = <<a, b>>
  BY <1>5, <1>6, <1>7, <1>8, <1>9, <1>10
<1>12. Range(Ends(e)) \subseteq P
  BY <1>4, <1>11
<1> QED BY <1>12 DEF P

\* Every event that goes between two participants has an arrow in the flow tab, but for the calls of the
\* API, which the tool sends under a name that no participant has.
THEOREM ArrowsEnd == FlowSpec => []ArrowsFindEnds
<1>1. FlowTypeOK => ArrowsFindEnds
  BY EndsAreThere DEF ArrowsFindEnds, ArrowDrawn, FlowTypeOK
<1> QED BY <1>1, FlowsTyped, PTL

(* What the flow tells of its events ---------------------------------------- *)

CumUpto(f) == CHOOSE g : g = [n \in 0..Len(f) |-> IF n = 0 THEN 0 ELSE g[n-1] + Spent(f[n])]

RoundUpto(f) == CHOOSE g : g = [n \in 0..Len(f) |-> IF n = 0 THEN 0
                                                    ELSE (IF f[n].type = "user_message" THEN 0 ELSE g[n-1]) + Spent(f[n])]

LEMMA SpentTyped == ASSUME NEW e \in Events PROVE Spent(e) \in Nat
BY DEF Events, Spent

LEMMA CumRuns ==
    ASSUME NEW f \in Seq(Events), NEW g, g = CumUpto(f)
    PROVE  g[0] = 0 /\ \A n \in 1..Len(f) : g[n] = g[n-1] + Spent(f[n])
<1> DEFINE N == Len(f)
           c == [n \in 1..N |-> Spent(f[n])]
           again == {}
<1>1. N \in Nat
  OBVIOUS
<1>2. \A n \in 1..N : c[n] = Spent(f[n]) /\ c[n] \in Nat
  BY SpentTyped
<1>0. \A n \in 1..N : n \notin again
  OBVIOUS
<1> HIDE DEF c, N, again
<1>3. PICK h \in [0..N -> Nat] : AddsUp(h, c, again, N)
  <2>1. \A n \in 1..N : c[n] \in Nat
    BY <1>2
  <2> QED BY <1>1, <2>1, Added
<1>4. \A n \in 1..N : h[n] = h[n-1] + Spent(f[n])
  BY <1>0, <1>2, <1>3 DEF AddsUp
<1>5. \A n \in 0..N : n = 0 \/ n \in 1..N
  BY <1>1
<1>6. h = [n \in 0..N |-> IF n = 0 THEN 0 ELSE h[n-1] + Spent(f[n])]
  <2>1. h = [n \in 0..N |-> h[n]]
    BY <1>3
  <2>2. \A n \in 0..N : h[n] = IF n = 0 THEN 0 ELSE h[n-1] + Spent(f[n])
    BY <1>3, <1>4, <1>5 DEF AddsUp
  <2> QED BY <2>1, <2>2
<1>7. g = [n \in 0..N |-> IF n = 0 THEN 0 ELSE g[n-1] + Spent(f[n])]
  BY <1>6 DEF CumUpto, N
<1>8. \A n \in 0..N : g[n] = IF n = 0 THEN 0 ELSE g[n-1] + Spent(f[n])
  BY <1>7
<1>9. 0 \in 0..N /\ \A n \in 1..N : n \in 0..N /\ n # 0
  BY <1>1
<1>10. g[0] = 0
  BY <1>8, <1>9
<1>11. ASSUME NEW n \in 1..N PROVE g[n] = g[n-1] + Spent(f[n])
  <2>1. n \in 0..N /\ n # 0
    BY <1>9
  <2> QED BY <1>8, <2>1
<1> QED BY <1>10, <1>11 DEF N

LEMMA RoundRuns ==
    ASSUME NEW f \in Seq(Events), NEW g, g = RoundUpto(f)
    PROVE  g[0] = 0 /\ \A n \in 1..Len(f) : g[n] = (IF f[n].type = "user_message" THEN 0 ELSE g[n-1]) + Spent(f[n])
<1> DEFINE N == Len(f)
           c == [n \in 1..N |-> Spent(f[n])]
           again == {n \in 1..N : f[n].type = "user_message"}
<1>1. N \in Nat
  OBVIOUS
<1>2. \A n \in 1..N : c[n] = Spent(f[n]) /\ c[n] \in Nat
  BY SpentTyped
<1>0. \A n \in 1..N : n \in again <=> f[n].type = "user_message"
  OBVIOUS
<1> HIDE DEF c, N, again
<1>3. PICK h \in [0..N -> Nat] : AddsUp(h, c, again, N)
  <2>1. \A n \in 1..N : c[n] \in Nat
    BY <1>2
  <2> QED BY <1>1, <2>1, Added
<1>4. \A n \in 1..N : h[n] = (IF f[n].type = "user_message" THEN 0 ELSE h[n-1]) + Spent(f[n])
  BY <1>0, <1>2, <1>3 DEF AddsUp
<1>5. \A n \in 0..N : n = 0 \/ n \in 1..N
  BY <1>1
<1>6. h = [n \in 0..N |-> IF n = 0 THEN 0 ELSE (IF f[n].type = "user_message" THEN 0 ELSE h[n-1]) + Spent(f[n])]
  <2>1. h = [n \in 0..N |-> h[n]]
    BY <1>3
  <2>2. \A n \in 0..N : h[n] = IF n = 0 THEN 0 ELSE (IF f[n].type = "user_message" THEN 0 ELSE h[n-1]) + Spent(f[n])
    BY <1>3, <1>4, <1>5 DEF AddsUp
  <2> QED BY <2>1, <2>2
<1>7. g = [n \in 0..N |-> IF n = 0 THEN 0 ELSE (IF f[n].type = "user_message" THEN 0 ELSE g[n-1]) + Spent(f[n])]
  BY <1>6 DEF RoundUpto, N
<1>8. \A n \in 0..N : g[n] = IF n = 0 THEN 0 ELSE (IF f[n].type = "user_message" THEN 0 ELSE g[n-1]) + Spent(f[n])
  BY <1>7
<1>9. 0 \in 0..N /\ \A n \in 1..N : n \in 0..N /\ n # 0
  BY <1>1
<1>10. g[0] = 0
  BY <1>8, <1>9
<1>11. ASSUME NEW n \in 1..N PROVE g[n] = (IF f[n].type = "user_message" THEN 0 ELSE g[n-1]) + Spent(f[n])
  <2>1. n \in 0..N /\ n # 0
    BY <1>9
  <2> QED BY <1>8, <2>1
<1> QED BY <1>10, <1>11 DEF N

\* what the calls among some events of a flow used
CallsIn(f, S) == {i \in S : f[i].type = "api_call"}

SpentOf(f) == [i \in DOMAIN f |-> f[i].input + f[i].output]

UsedIn(f, S) == SumFunctionOnSet(SpentOf(f), CallsIn(f, S))

LEMMA UsedGrows ==
    ASSUME NEW f \in Seq(Events), NEW S \in SUBSET DOMAIN f, NEW k \in DOMAIN f, k \notin S
    PROVE  UsedIn(f, S \cup {k}) = UsedIn(f, S) + Spent(f[k])
<1> DEFINE R == CallsIn(f, S) T == CallsIn(f, S \cup {k}) sp == SpentOf(f)
<1>1. DOMAIN f = 1..Len(f) /\ Len(f) \in Nat /\ f[k] \in Events
  OBVIOUS
<1>2. IsFiniteSet(DOMAIN f)
  BY <1>1, FS_Interval
<1>3. R \in SUBSET DOMAIN f /\ T \in SUBSET DOMAIN f
  BY DEF CallsIn
<1>4. IsFiniteSet(T) /\ IsFiniteSet(R)
  BY <1>2, <1>3, FS_Subset
<1>5. \A x \in DOMAIN f : sp[x] \in Nat
  <2>1. ASSUME NEW x \in DOMAIN f PROVE f[x].input + f[x].output \in Nat
    <3>1. f[x] \in Events
      OBVIOUS
    <3>2. f[x].input \in Nat /\ f[x].output \in Nat
      BY <3>1 DEF Events
    <3> QED BY <3>2
  <2> QED BY <2>1 DEF SpentOf
<1>6. CASE f[k].type = "api_call"
  <2>1. k \in T /\ R = T \ {k}
    BY <1>6 DEF CallsIn
  <2>2. \A x \in T : sp[x] \in Nat
    BY <1>3, <1>5
  <2>3. sp[k] = Spent(f[k])
    BY <1>6 DEF SpentOf, Spent
  <2> HIDE DEF R, T, sp
  <2>4. SumFunctionOnSet(sp, T) = sp[k] + SumFunctionOnSet(sp, T \ {k}) /\ SumFunctionOnSet(sp, T \ {k}) \in Nat
    BY <1>4, <2>1, <2>2, SumSplits
  <2>5. SumFunctionOnSet(sp, T) = sp[k] + SumFunctionOnSet(sp, R) /\ SumFunctionOnSet(sp, R) \in Nat
    BY <2>1, <2>4
  <2>6. Spent(f[k]) \in Nat
    BY <1>1, SpentTyped
  <2>7. SumFunctionOnSet(sp, T) = SumFunctionOnSet(sp, R) + Spent(f[k])
    <3> DEFINE a == SumFunctionOnSet(sp, T) b == SumFunctionOnSet(sp, R) d == Spent(f[k])
    <3>1. a = d + b /\ b \in Nat /\ d \in Nat
      BY <2>3, <2>5, <2>6
    <3> HIDE DEF a, b, d
    <3>2. a = b + d
      BY <3>1
    <3> QED BY <3>2 DEF a, b, d
  <2> QED BY <2>7 DEF UsedIn, R, T, sp
<1>7. CASE f[k].type # "api_call"
  <2>1. R = T
    BY <1>7 DEF CallsIn
  <2>2. Spent(f[k]) = 0
    BY <1>7 DEF Spent
  <2>3. UsedIn(f, S) \in Nat
    <3> HIDE DEF R, T
    <3>1. SumFunctionOnSet(sp, R) \in Nat
      <4>1. CASE R = {}
        BY <4>1, SumOfNone
      <4>2. CASE R # {}
        <5>1. PICK x \in R : TRUE
          BY <4>2
        <5>2. \A y \in R : sp[y] \in Nat
          BY <1>3, <1>5
        <5> HIDE DEF sp
        <5>3. SumFunctionOnSet(sp, R) = sp[x] + SumFunctionOnSet(sp, R \ {x}) /\ SumFunctionOnSet(sp, R \ {x}) \in Nat
          BY <1>4, <5>2, SumSplits
        <5>4. sp[x] \in Nat
          BY <5>2
        <5> QED BY <5>3, <5>4
      <4> QED BY <4>1, <4>2
    <3> QED BY <3>1 DEF UsedIn, R, sp
  <2>4. UsedIn(f, S \cup {k}) = UsedIn(f, S)
    BY <2>1 DEF UsedIn
  <2> QED BY <2>2, <2>3, <2>4
<1> QED BY <1>6, <1>7

\* the events since the last prompt
Since(f, k) == {j \in 1..k : \A m \in j..k : f[m].type # "user_message"}

LEMMA ShownSums ==
    ASSUME NEW f \in Seq(Events), NEW g, g = CumUpto(f), NEW r, r = RoundUpto(f)
    PROVE  \A k \in 0..Len(f) : g[k] = UsedIn(f, 1..k) /\ r[k] = UsedIn(f, Since(f, k))
<1> DEFINE N == Len(f)
           T == {k \in 0..N : g[k] = UsedIn(f, 1..k) /\ r[k] = UsedIn(f, Since(f, k))}
<1>1. N \in Nat /\ DOMAIN f = 1..N
  OBVIOUS
<1>2. g[0] = 0 /\ \A n \in 1..N : g[n] = g[n-1] + Spent(f[n])
  BY CumRuns
<1>3. r[0] = 0 /\ \A n \in 1..N : r[n] = (IF f[n].type = "user_message" THEN 0 ELSE r[n-1]) + Spent(f[n])
  BY RoundRuns
<1>4. UsedIn(f, {}) = 0
  BY SumOfNone DEF UsedIn, CallsIn
<1>5. 0 \in T
  <2>1. 0 \in 0..N
    BY <1>1
  <2>2. 1..0 = {} /\ Since(f, 0) = {}
    BY DEF Since
  <2> QED BY <1>2, <1>3, <1>4, <2>1, <2>2
<1>6. ASSUME NEW n \in 1..N, n - 1 \in T PROVE n \in T
  <2>1. n \in 0..N /\ n \in DOMAIN f /\ f[n] \in Events
    BY <1>1
  <2>2. g[n] = UsedIn(f, 1..n)
    <3>1. 1..n = (1..(n-1)) \cup {n} /\ n \notin 1..(n-1)
      BY <1>1
    <3>2. 1..(n-1) \in SUBSET DOMAIN f
      BY <1>1
    <3>3. UsedIn(f, (1..(n-1)) \cup {n}) = UsedIn(f, 1..(n-1)) + Spent(f[n])
      <4> DEFINE S == 1..(n-1)
      <4>1. S \in SUBSET DOMAIN f /\ n \notin S
        BY <3>1, <3>2
      <4> HIDE DEF S
      <4>2. UsedIn(f, S \cup {n}) = UsedIn(f, S) + Spent(f[n])
        BY <2>1, <4>1, UsedGrows
      <4> QED BY <4>2 DEF S
    <3>4. g[n-1] = UsedIn(f, 1..(n-1))
      BY <1>6
    <3>5. g[n] = g[n-1] + Spent(f[n])
      BY <1>2
    <3> QED BY <3>1, <3>3, <3>4, <3>5
  <2>3. CASE f[n].type = "user_message"
    <3>1. Since(f, n) = {}
      <4> SUFFICES ASSUME NEW j \in Since(f, n) PROVE FALSE
        OBVIOUS
      <4>1. j \in 1..n /\ n \in j..n
        BY <1>1 DEF Since
      <4> QED BY <2>3, <4>1 DEF Since
    <3>2. Spent(f[n]) = 0
      BY <2>3 DEF Spent
    <3>3. r[n] = 0
      BY <1>3, <2>3, <3>2
    <3> QED BY <1>4, <2>1, <2>2, <3>1, <3>3
  <2>4. CASE f[n].type # "user_message"
    <3> DEFINE S == Since(f, n-1)
    <3>1. Since(f, n) = S \cup {n}
      <4>1. ASSUME NEW j \in Since(f, n) PROVE j \in S \cup {n}
        <5>1. j \in 1..n /\ \A m \in j..n : f[m].type # "user_message"
          BY <4>1 DEF Since
        <5>2. j = n \/ (j \in 1..(n-1) /\ \A m \in j..(n-1) : m \in j..n)
          BY <1>1, <5>1
        <5> QED BY <5>1, <5>2 DEF Since
      <4>2. ASSUME NEW j \in S PROVE j \in Since(f, n)
        <5>1. j \in 1..(n-1) /\ \A m \in j..(n-1) : f[m].type # "user_message"
          BY <4>2 DEF Since
        <5>2. j \in 1..n /\ \A m \in j..n : m = n \/ m \in j..(n-1)
          BY <1>1, <5>1
        <5> QED BY <2>4, <5>1, <5>2 DEF Since
      <4>3. n \in Since(f, n)
        <5>1. n \in 1..n /\ \A m \in n..n : m = n
          BY <1>1
        <5> QED BY <2>4, <5>1 DEF Since
      <4> QED BY <4>1, <4>2, <4>3
    <3>2. S \in SUBSET DOMAIN f /\ n \notin S
      <4>1. S \subseteq 1..(n-1)
        BY DEF Since
      <4> HIDE DEF S
      <4>2. 1..(n-1) \subseteq DOMAIN f /\ n \notin 1..(n-1)
        BY <1>1
      <4> QED BY <4>1, <4>2
    <3>3. r[n-1] = UsedIn(f, S)
      BY <1>6
    <3> HIDE DEF S
    <3>4. UsedIn(f, S \cup {n}) = UsedIn(f, S) + Spent(f[n])
      BY <2>1, <3>2, UsedGrows
    <3>5. r[n] = r[n-1] + Spent(f[n])
      BY <1>3, <2>4
    <3>6. r[n] = UsedIn(f, Since(f, n))
      BY <3>1, <3>3, <3>4, <3>5
    <3> QED BY <2>1, <2>2, <3>6
  <2> QED BY <2>3, <2>4
<1> HIDE DEF T
<1>7. \A n \in 1..N : n - 1 \in T => n \in T
  BY <1>6
<1>8. \A n \in 0..N : n \in T
  BY <1>1, <1>5, <1>7, CountsUp
<1> QED BY <1>8 DEF T

LEMMA SumRises ==
    ASSUME NEW f \in Seq(Events), NEW g, g = SumUpto(f)
    PROVE  \A n \in 0..Len(f) : \A m \in 0..n : g[m] <= g[n]
<1> DEFINE N == Len(f)
           T == {n \in 0..N : \A m \in 0..n : g[m] <= g[n]}
<1>1. N \in Nat
  OBVIOUS
<1>2. /\ \A n \in 0..N : g[n] \in Nat
      /\ \A n \in 1..N : g[n] = g[n-1] + RowCost(f[n]) /\ RowCost(f[n]) \in Nat
  BY SumsCost
<1>3. 0 \in T
  <2>1. 0 \in 0..N /\ \A m \in 0..0 : m = 0
    BY <1>1
  <2>2. g[0] <= g[0]
    BY <1>2, <2>1
  <2> QED BY <2>1, <2>2
<1>4. ASSUME NEW n \in 1..N, n - 1 \in T PROVE n \in T
  <2>1. n \in 0..N /\ n - 1 \in 0..N
    BY <1>1
  <2> DEFINE a == g[n-1] b == g[n] c == RowCost(f[n])
  <2>2. a \in Nat /\ b \in Nat /\ c \in Nat /\ b = a + c
    BY <1>2, <2>1
  <2> HIDE DEF a, b, c
  <2>3. a <= b /\ b <= b
    BY <2>2
  <2>4. ASSUME NEW m \in 0..n PROVE g[m] <= b
    <3>1. CASE m = n
      BY <2>3, <3>1 DEF b
    <3>2. CASE m # n
      <4>1. m \in 0..(n-1) /\ m \in 0..N
        BY <1>1, <3>2
      <4> DEFINE d == g[m]
      <4>2. d <= a /\ d \in Nat
        BY <1>2, <1>4, <4>1 DEF a
      <4> HIDE DEF d
      <4>3. d <= b
        BY <2>2, <2>3, <4>2
      <4> QED BY <4>3 DEF d
    <3> QED BY <3>1, <3>2
  <2> QED BY <2>1, <2>4 DEF b
<1> HIDE DEF T
<1>5. \A n \in 1..N : n - 1 \in T => n \in T
  BY <1>4
<1>6. \A n \in 0..N : n \in T
  BY <1>1, <1>3, <1>5, CountsUp
<1> QED BY <1>6 DEF T

LEMMA RowsRise ==
    ASSUME NEW f \in Seq(Events), NEW rows, rows = TurnsToEvents(f)
    PROVE  \A i, j \in DOMAIN rows : i < j => rows[i].cum <= rows[j].cum /\ rows[i].id < rows[j].id
<1> DEFINE g == SumUpto(f)
           each == [i \in 1..Len(f) |-> [id |-> i, type |-> f[i].type, cum |-> g[i]]]
           P == {i \in DOMAIN f : f[i].type \in RowTypes}
<1>1. TurnsToEvents(f) = Picked(each, P)
  BY DEF TurnsToEvents, SumUpto
<1>2. \A n \in 0..Len(f) : g[n] \in Nat /\ \A m \in 0..n : g[m] <= g[n]
  <2>1. g = SumUpto(f)
    OBVIOUS
  <2> HIDE DEF g
  <2> QED BY <2>1, SumsCost, SumRises
<1> HIDE DEF g
<1>3. \A i \in 1..Len(f) : each[i].id = i /\ each[i].cum = g[i]
  OBVIOUS
<1>4. each \in Seq(Range(each)) /\ DOMAIN each = 1..Len(f)
  <2>1. Len(f) \in Nat
    OBVIOUS
  <2>2. each = [i \in 1..Len(f) |-> each[i]] /\ \A i \in 1..Len(f) : each[i] \in Range(each)
    BY DEF Range
  <2> HIDE DEF each
  <2> QED BY <2>1, <2>2, SeqBuilt
<1>5. P \in SUBSET DOMAIN each
  BY <1>4
<1> HIDE DEF each, P
<1>6. /\ \A n \in DOMAIN rows : Nth(P, n) \in P /\ rows[n] = each[Nth(P, n)]
      /\ \A n, m \in DOMAIN rows : n < m => Nth(P, n) < Nth(P, m)
  BY <1>1, <1>4, <1>5, PickedIs
<1> SUFFICES ASSUME NEW i \in DOMAIN rows, NEW j \in DOMAIN rows, i < j
             PROVE  rows[i].cum <= rows[j].cum /\ rows[i].id < rows[j].id
  OBVIOUS
<1> DEFINE a == Nth(P, i) b == Nth(P, j)
<1>7. a \in P /\ b \in P /\ a < b /\ rows[i] = each[a] /\ rows[j] = each[b]
  BY <1>6
<1> HIDE DEF a, b
<1>8. a \in 1..Len(f) /\ b \in 1..Len(f) /\ Len(f) \in Nat
  BY <1>4, <1>5, <1>7
<1>9. b \in 0..Len(f) /\ a \in 0..b
  BY <1>7, <1>8
<1>10. rows[i].id = a /\ rows[i].cum = g[a] /\ rows[j].id = b /\ rows[j].cum = g[b]
  BY <1>3, <1>7, <1>8
<1> QED BY <1>2, <1>7, <1>9, <1>10

\* The sums on the screen: the first of the two never falls and says what all the calls up to an event
\* used, the second what they used since the last prompt, and on the dashboard no row shows less than
\* the row before it (processedEvents of TabSessionFlow, turnsToEvents of CDashboardTab).
THEOREM SumsAddUp == FlowSpec => []SumsRun
<1>1. FlowTypeOK => SumsRun
  <2> SUFFICES ASSUME FlowTypeOK PROVE SumsRun
    OBVIOUS
  <2> DEFINE g == CumUpto(flow) r == RoundUpto(flow) rows == TurnsToEvents(flow)
             shown == Processed(flow)
  <2>1. flow \in Seq(Events) /\ Len(flow) \in Nat /\ DOMAIN flow = 1..Len(flow)
    <3>1. flow \in Flows
      BY DEF FlowTypeOK
    <3> QED BY <3>1, FlowIs
  <2>2. shown = [i \in 1..Len(flow) |-> [cum |-> g[i], rt |-> r[i]]]
    BY DEF Processed, CumUpto, RoundUpto
  <2>3. \A k \in 0..Len(flow) : g[k] = UsedIn(flow, 1..k) /\ r[k] = UsedIn(flow, Since(flow, k))
    <3>1. g = CumUpto(flow) /\ r = RoundUpto(flow)
      OBVIOUS
    <3> HIDE DEF g, r
    <3> QED BY <2>1, <3>1, ShownSums
  <2>4. \A i, j \in DOMAIN rows : i < j => rows[i].cum <= rows[j].cum /\ rows[i].id < rows[j].id
    <3>1. rows = TurnsToEvents(flow)
      OBVIOUS
    <3> HIDE DEF rows
    <3> QED BY <2>1, <3>1, RowsRise
  <2> HIDE DEF g, r, shown
  <2>5. ASSUME NEW i \in DOMAIN flow
        PROVE  shown[i].cum = UsedIn(flow, 1..i) /\ shown[i].rt = UsedIn(flow, Since(flow, i))
    <3>1. i \in 0..Len(flow) /\ i \in 1..Len(flow)
      BY <2>1
    <3>2. shown[i] = [cum |-> g[i], rt |-> r[i]]
      BY <2>2, <3>1
    <3> QED BY <2>3, <3>1, <3>2
  <2> QED BY <2>4, <2>5 DEF SumsRun, UsedIn, SpentOf, CallsIn, Since, shown
<1> QED BY <1>1, FlowsTyped, PTL

\* the actions that turns hold
ActionsOf(ts) == [n \in DOMAIN ts |-> ts[n].actions]

LEMMA ActionsSeq ==
    ASSUME NEW ts \in Seq(Turn)
    PROVE  ActionsOf(ts) \in Seq(Seq(Nat)) /\ Len(ActionsOf(ts)) = Len(ts) /\ DOMAIN ActionsOf(ts) = DOMAIN ts
<1> DEFINE Q == Seq(Nat) q == ActionsOf(ts)
<1>1. DOMAIN ts = 1..Len(ts) /\ Len(ts) \in Nat
  OBVIOUS
<1>2. \A n \in 1..Len(ts) : ts[n].actions \in Q
  <2>1. \A n \in 1..Len(ts) : ts[n] \in Turn
    OBVIOUS
  <2> QED BY <2>1 DEF Turn
<1>3. q = [n \in 1..Len(ts) |-> q[n]] /\ \A n \in 1..Len(ts) : q[n] \in Q
  <2> HIDE DEF Q
  <2> QED BY <1>1, <1>2 DEF ActionsOf
<1> HIDE DEF Q, q
<1>4. q \in Seq(Q) /\ Len(q) = Len(ts) /\ DOMAIN q = 1..Len(ts)
  BY <1>1, <1>3, SeqBuilt
<1> QED BY <1>1, <1>4 DEF Q, q

LEMMA ActionsAdded ==
    ASSUME NEW ts \in Seq(Turn), NEW t \in Turn
    PROVE  ActionsOf(Append(ts, t)) = Append(ActionsOf(ts), t.actions)
<1> DEFINE N == Len(ts) Q == Seq(Nat) q == ActionsOf(ts) new == Append(ts, t) r == ActionsOf(new) s == Append(q, t.actions)
<1>1. N \in Nat /\ new \in Seq(Turn) /\ DOMAIN new = 1..(N+1) /\ new[N+1] = t /\ \A n \in 1..N : new[n] = ts[n]
  OBVIOUS
<1>2. q \in Seq(Q) /\ Len(q) = N /\ t.actions \in Q
  BY ActionsSeq DEF Turn
<1>3. \A n \in 1..N : q[n] = ts[n].actions
  BY DEF ActionsOf
<1> HIDE DEF new
<1>4. r = [n \in 1..(N+1) |-> r[n]] /\ \A n \in 1..(N+1) : r[n] = new[n].actions
  BY <1>1 DEF ActionsOf
<1> HIDE DEF q, r
<1>5. s \in Seq(Q) /\ DOMAIN s = 1..(N+1) /\ s[N+1] = t.actions /\ \A n \in 1..N : s[n] = q[n]
  <2> HIDE DEF Q
  <2> QED BY <1>1, <1>2
<1> HIDE DEF s
<1>6. ASSUME NEW n \in 1..(N+1) PROVE r[n] = s[n]
  <2>1. CASE n = N + 1
    BY <1>1, <1>4, <1>5, <2>1
  <2>2. CASE n # N + 1
    <3>1. n \in 1..N
      BY <1>1, <2>2
    <3> QED BY <1>1, <1>3, <1>4, <1>5, <3>1
  <2> QED BY <2>1, <2>2
<1>7. r = [n \in DOMAIN s |-> r[n]] /\ \A n \in DOMAIN s : r[n] = s[n]
  BY <1>4, <1>5, <1>6
<1>8. r = s
  <2> HIDE DEF Q
  <2> QED BY <1>5, <1>7, SeqSame
<1> QED BY <1>8 DEF r, s, q, new

LEMMA ActionsChanged ==
    ASSUME NEW ts \in Seq(Turn), ts # <<>>, NEW t \in Turn, NEW i \in Nat, t.actions = Append(ts[Len(ts)].actions, i)
    PROVE  FlattenSeq(ActionsOf(LastAs(ts, t))) = Append(FlattenSeq(ActionsOf(ts)), i)
<1> DEFINE last == ts[Len(ts)] old == last.actions
<1>1. last \in Turn
  OBVIOUS
<1>2. FrontsOf(Turn, ts) # {}
  BY LastIs
<1> PICK front \in FrontsOf(Turn, ts) : TRUE
  BY <1>2
<1>0. front \in Seq(Turn) /\ ts = Append(front, last) /\ LastAs(ts, t) = Append(front, t)
  BY DEF FrontsOf
<1> HIDE DEF last
<1>3. old \in Seq(Nat) /\ t.actions \in Seq(Nat)
  BY <1>1 DEF Turn
<1> DEFINE A == ActionsOf(front) F == FlattenSeq(A)
<1>4. A \in Seq(Seq(Nat))
  BY <1>0, ActionsSeq
<1>5. ActionsOf(ts) = Append(A, old) /\ ActionsOf(LastAs(ts, t)) = Append(A, t.actions)
  BY <1>0, <1>1, ActionsAdded
<1> HIDE DEF old, A
<1>6. FlattenSeq(Append(A, old)) = F \o old /\ F \in Seq(Nat)
  BY <1>3, <1>4, FlatAppend
<1>7. FlattenSeq(Append(A, t.actions)) = F \o t.actions
  BY <1>3, <1>4, FlatAppend
<1>8. t.actions = Append(old, i)
  BY DEF old, last
<1> HIDE DEF F
<1>9. F \o Append(old, i) = Append(F \o old, i)
  <2>1. old \in Seq(Nat)
    BY <1>3
  <2>2. F \in Seq(Nat)
    BY <1>6
  <2>3. i \in Nat
    OBVIOUS
  <2> HIDE DEF A
  <2> QED BY <2>1, <2>2, <2>3, ConcatAppend
<1> QED BY <1>5, <1>6, <1>7, <1>8, <1>9

\* The events that begin a telling, those that are told of the first k, and the prompts.
Starts(f) == {i \in DOMAIN f : f[i].type \in (ActionKinds \ {"api_response"}) \cup {"user_message"}}

DoneBy(f, k) == {i \in 1..k : f[i].type \in ActionKinds /\ \E j \in Starts(f) : j <= i}

PromptsOf(f) == {i \in DOMAIN f : f[i].type = "user_message"}

PromptedOf(ts) == {n \in DOMAIN ts : ts[n].prompted}

PlacesOf(f) == [i \in DOMAIN f |-> i]

\* What the turns made of the first k events hold: what was done, once and in order; and in each turn
\* what came after as many prompts as there are turns with a prompt up to it.
ToldUpTo(f, k, ts) ==
    /\ FlattenSeq(ActionsOf(ts)) = Picked(PlacesOf(f), DoneBy(f, k))
    /\ ts = <<>> <=> \A j \in 1..k : j \notin Starts(f)

Prompted(f, k, ts) ==
    /\ CountUpto(PromptsOf(f), k) = CountUpto(PromptedOf(ts), Len(ts))
    /\ \A n \in DOMAIN ts : \A i \in Range(ts[n].actions) :
         i \in 1..k /\ CountUpto(PromptsOf(f), i) = CountUpto(PromptedOf(ts), n)

LEMMA PlacesAre ==
    ASSUME NEW f \in Seq(Events)
    PROVE  PlacesOf(f) \in Seq(Nat) /\ DOMAIN PlacesOf(f) = 1..Len(f) /\ \A i \in 1..Len(f) : PlacesOf(f)[i] = i
<1> DEFINE s == PlacesOf(f)
<1>1. Len(f) \in Nat /\ s = [i \in 1..Len(f) |-> s[i]] /\ \A i \in 1..Len(f) : s[i] = i /\ s[i] \in Nat
  BY DEF PlacesOf
<1> HIDE DEF s
<1>2. s \in Seq(Nat) /\ DOMAIN s = 1..Len(f)
  BY <1>1, SeqBuilt
<1> QED BY <1>1, <1>2 DEF s

LEMMA DoneGrows ==
    ASSUME NEW f \in Seq(Events), NEW k \in 1..Len(f)
    PROVE  /\ f[k].type \notin ActionKinds => DoneBy(f, k) = DoneBy(f, k - 1)
           /\ (\A j \in 1..k : j \notin Starts(f)) => DoneBy(f, k) = DoneBy(f, k - 1)
           /\ f[k].type \in ActionKinds /\ (\E j \in 1..k : j \in Starts(f)) => DoneBy(f, k) = DoneBy(f, k - 1) \cup {k}
           /\ (\A j \in 1..(k-1) : j \notin Starts(f)) => DoneBy(f, k - 1) = {}
           /\ DoneBy(f, k - 1) \in SUBSET (1..Len(f)) /\ \A i \in DoneBy(f, k - 1) : i < k
<1>1. Len(f) \in Nat /\ 1..k = (1..(k-1)) \cup {k} /\ k \notin 1..(k-1) /\ k \in 1..Len(f)
  OBVIOUS
<1>2. Starts(f) \in SUBSET (1..Len(f))
  BY DEF Starts
<1>3. (f[k].type \notin ActionKinds) => DoneBy(f, k) = DoneBy(f, k - 1)
  BY <1>1 DEF DoneBy
<1>4. ASSUME \A j \in 1..(k-1) : j \notin Starts(f) PROVE DoneBy(f, k - 1) = {}
  <2> SUFFICES ASSUME NEW i \in DoneBy(f, k - 1) PROVE FALSE
    OBVIOUS
  <2>1. PICK j \in Starts(f) : j <= i
    BY DEF DoneBy
  <2>2. i \in 1..(k-1)
    BY DEF DoneBy
  <2>3. j \in 1..(k-1)
    BY <1>1, <1>2, <2>1, <2>2
  <2> QED BY <1>4, <2>3
<1>5. ASSUME \A j \in 1..k : j \notin Starts(f) PROVE DoneBy(f, k) = {} /\ DoneBy(f, k - 1) = {}
  <2>1. DoneBy(f, k) = {}
    <3> SUFFICES ASSUME NEW i \in DoneBy(f, k) PROVE FALSE
      OBVIOUS
    <3>1. PICK j \in Starts(f) : j <= i
      BY DEF DoneBy
    <3>2. i \in 1..k
      BY DEF DoneBy
    <3>3. j \in 1..k
      BY <1>1, <1>2, <3>1, <3>2
    <3> QED BY <1>5, <3>3
  <2>2. DoneBy(f, k - 1) = {}
    BY <1>1, <1>4, <1>5
  <2> QED BY <2>1, <2>2
<1>6. ASSUME f[k].type \in ActionKinds, NEW j \in 1..k, j \in Starts(f) PROVE DoneBy(f, k) = DoneBy(f, k - 1) \cup {k}
  <2>1. j <= k /\ k \in 1..k
    BY <1>1
  <2>2. k \in DoneBy(f, k)
    BY <1>6, <2>1 DEF DoneBy
  <2> QED BY <1>1, <2>2 DEF DoneBy
<1>7. DoneBy(f, k - 1) \in SUBSET (1..Len(f)) /\ \A i \in DoneBy(f, k - 1) : i < k
  <2>1. ASSUME NEW i \in DoneBy(f, k - 1) PROVE i \in 1..Len(f) /\ i < k
    <3>1. i \in 1..(k-1)
      BY DEF DoneBy
    <3> QED BY <1>1, <3>1
  <2> QED BY <2>1
<1> QED BY <1>3, <1>4, <1>5, <1>6, <1>7

LEMMA ToldStep ==
    ASSUME NEW f \in Seq(Events), NEW k \in 1..Len(f), NEW ts \in Seq(Turn), ToldUpTo(f, k - 1, ts), NEW new, new = Take(ts, f, k)
    PROVE  ToldUpTo(f, k, new)
<1> DEFINE s == PlacesOf(f) P == DoneBy(f, k - 1)
<1>1. s \in Seq(Nat) /\ DOMAIN s = 1..Len(f) /\ \A i \in 1..Len(f) : s[i] = i
  BY PlacesAre
<1>2. /\ f[k].type \notin ActionKinds => DoneBy(f, k) = P
      /\ (\A j \in 1..k : j \notin Starts(f)) => DoneBy(f, k) = P
      /\ f[k].type \in ActionKinds /\ (\E j \in 1..k : j \in Starts(f)) => DoneBy(f, k) = P \cup {k}
      /\ (\A j \in 1..(k-1) : j \notin Starts(f)) => P = {}
      /\ P \in SUBSET (1..Len(f)) /\ \A i \in P : i < k
  BY DoneGrows
<1>3. /\ FlattenSeq(ActionsOf(ts)) = Picked(s, P)
      /\ ts = <<>> <=> \A j \in 1..(k-1) : j \notin Starts(f)
  BY DEF ToldUpTo
<1>4. k \in Starts(f) <=> f[k].type \in (ActionKinds \ {"api_response"}) \cup {"user_message"}
  BY DEF Starts
<1>5. 1..k = (1..(k-1)) \cup {k} /\ k \in 1..k /\ k \in Nat
  OBVIOUS
<1> HIDE DEF s, P
<1>6. Picked(s, P \cup {k}) = Append(Picked(s, P), k)
  <2>1. s \in Seq(Nat) /\ P \in SUBSET DOMAIN s /\ k \in DOMAIN s /\ s[k] = k
    BY <1>1, <1>2
  <2>2. \A i \in P : i < k
    BY <1>2
  <2>3. Picked(s, P \cup {k}) = Append(Picked(s, P), s[k])
    BY <2>1, <2>2, PickedMore
  <2> QED BY <2>1, <2>3
<1>7. CASE f[k].type = "user_message" /\ \E t \in Turn : new = Append(ts, t) /\ t.prompted /\ t.actions = <<>>
  <2>1. PICK t \in Turn : new = Append(ts, t) /\ t.actions = <<>>
    BY <1>7
  <2>2. ActionsOf(new) = Append(ActionsOf(ts), t.actions) /\ ActionsOf(ts) \in Seq(Seq(Nat))
    BY <2>1, ActionsAdded, ActionsSeq
  <2> DEFINE A == ActionsOf(ts) F == FlattenSeq(A)
  <2>0. A \in Seq(Seq(Nat)) /\ t.actions \in Seq(Nat)
    BY <2>2 DEF Turn
  <2> HIDE DEF A
  <2>3. FlattenSeq(Append(A, t.actions)) = F \o t.actions /\ F \in Seq(Nat)
    BY <2>0, FlatAppend
  <2> HIDE DEF F
  <2>4. F \o <<>> = F
    BY <2>3
  <2>5. FlattenSeq(ActionsOf(new)) = F
    BY <2>1, <2>2, <2>3, <2>4 DEF A
  <2>6. DoneBy(f, k) = P
    BY <1>2, <1>7 DEF ActionKinds
  <2>7. new # <<>> /\ k \in Starts(f)
    BY <1>4, <1>7, <2>1
  <2> QED BY <1>3, <1>5, <2>5, <2>6, <2>7 DEF ToldUpTo, F, A, s
<1>8. CASE /\ f[k].type \in ActionKinds /\ ts # <<>>
           /\ \E t \in Turn : /\ new = [ts EXCEPT ![Len(ts)] = t] /\ t.prompted = ts[Len(ts)].prompted
                              /\ t.actions = Append(ts[Len(ts)].actions, k)
  <2>1. PICK t \in Turn : new = [ts EXCEPT ![Len(ts)] = t] /\ t.actions = Append(ts[Len(ts)].actions, k)
    BY <1>8
  <2>2. new = LastAs(ts, t)
    BY <2>1 DEF LastAs
  <2>3. FlattenSeq(ActionsOf(new)) = Append(FlattenSeq(ActionsOf(ts)), k)
    <3>1. ts # <<>> /\ k \in Nat
      BY <1>5, <1>8
    <3>2. t.actions = Append(ts[Len(ts)].actions, k)
      BY <2>1
    <3>3. FlattenSeq(ActionsOf(LastAs(ts, t))) = Append(FlattenSeq(ActionsOf(ts)), k)
      BY <3>1, <3>2, ActionsChanged
    <3> QED BY <2>2, <3>3
  <2>4. \E j \in 1..k : j \in Starts(f)
    BY <1>3, <1>5, <1>8
  <2>5. DoneBy(f, k) = P \cup {k}
    BY <1>2, <1>8, <2>4
  <2>6. new # <<>>
    BY <1>8, <2>1
  <2> QED BY <1>3, <1>6, <2>3, <2>4, <2>5, <2>6 DEF ToldUpTo, s
<1>9. CASE /\ f[k].type \in ActionKinds \ {"api_response"} /\ ts = <<>>
           /\ \E t \in Turn : new = <<t>> /\ ~t.prompted /\ t.actions = <<k>>
  <2>1. PICK t \in Turn : new = <<t>> /\ t.actions = <<k>>
    BY <1>9
  <2>2. ActionsOf(ts) = <<>>
    BY <1>9 DEF ActionsOf
  <2>3. new = Append(ts, t)
    BY <1>9, <2>1
  <2>4. ActionsOf(new) = Append(<<>>, t.actions) /\ t.actions \in Seq(Nat)
    BY <2>2, <2>3, ActionsAdded DEF Turn
  <2>5. FlattenSeq(<<>>) = <<>>
    BY DEF FlattenSeq
  <2>6. FlattenSeq(ActionsOf(new)) = <<>> \o t.actions
    <3>1. <<>> \in Seq(Seq(Nat))
      OBVIOUS
    <3>2. FlattenSeq(Append(<<>>, t.actions)) = FlattenSeq(<<>>) \o t.actions
      BY <2>4, <3>1, FlatAppend
    <3> QED BY <2>4, <2>5, <3>2
  <2>7. <<>> \o t.actions = <<k>> /\ Append(<<>>, k) = <<k>>
    BY <1>5, <2>1
  <2>8. Picked(s, P) = <<>>
    BY <1>3, <2>2, <2>5
  <2>9. k \in Starts(f) /\ new # <<>>
    BY <1>4, <1>9, <2>1
  <2>10. DoneBy(f, k) = P \cup {k}
    BY <1>2, <1>5, <1>9, <2>9
  <2> QED BY <1>5, <1>6, <2>6, <2>7, <2>8, <2>9, <2>10 DEF ToldUpTo, s
<1>10. CASE /\ new = ts /\ f[k].type # "user_message"
            /\ f[k].type \in ActionKinds => ts = <<>> /\ f[k].type = "api_response"
  <2>1. k \notin Starts(f)
    BY <1>4, <1>10
  <2>2. DoneBy(f, k) = P
    <3>1. CASE f[k].type \in ActionKinds
      <4>1. \A j \in 1..k : j \notin Starts(f)
        BY <1>3, <1>5, <1>10, <2>1, <3>1
      <4> QED BY <1>2, <4>1
    <3>2. CASE f[k].type \notin ActionKinds
      BY <1>2, <3>2
    <3> QED BY <3>1, <3>2
  <2> QED BY <1>3, <1>5, <1>10, <2>1, <2>2 DEF ToldUpTo, s
<1>11. new = Take(ts, f, k)
  OBVIOUS
<1> HIDE DEF s
<1>12. \/ f[k].type = "user_message" /\ \E t \in Turn : new = Append(ts, t) /\ t.prompted /\ t.actions = <<>>
       \/ /\ f[k].type \in ActionKinds /\ ts # <<>>
          /\ \E t \in Turn : /\ new = [ts EXCEPT ![Len(ts)] = t] /\ t.prompted = ts[Len(ts)].prompted
                             /\ t.actions = Append(ts[Len(ts)].actions, k)
       \/ /\ f[k].type \in ActionKinds \ {"api_response"} /\ ts = <<>>
          /\ \E t \in Turn : new = <<t>> /\ ~t.prompted /\ t.actions = <<k>>
       \/ /\ new = ts /\ f[k].type # "user_message"
          /\ f[k].type \in ActionKinds => ts = <<>> /\ f[k].type = "api_response"
  BY <1>11, TakeIs
<1> QED BY <1>7, <1>8, <1>9, <1>10, <1>12

LEMMA PromptedStep ==
    ASSUME NEW f \in Seq(Events), NEW k \in 1..Len(f), NEW ts \in Seq(Turn), Prompted(f, k - 1, ts), NEW new, new = Take(ts, f, k)
    PROVE  Prompted(f, k, new)
<1> DEFINE N == Len(ts) count(n) == CountUpto(PromptedOf(ts), n) prompts(n) == CountUpto(PromptsOf(f), n)
<1>1. N \in Nat /\ DOMAIN ts = 1..N /\ k \in Nat /\ k # 0 /\ \A i \in 1..(k-1) : i \in 1..k
  OBVIOUS
<1>2. prompts(k) = prompts(k - 1) + (IF k \in PromptsOf(f) THEN 1 ELSE 0) /\ prompts(k - 1) \in Nat
  BY <1>1, CountRises
<1>3. k \in PromptsOf(f) <=> f[k].type = "user_message"
  BY DEF PromptsOf
<1>4. /\ prompts(k - 1) = count(N)
      /\ \A n \in DOMAIN ts : \A i \in Range(ts[n].actions) : i \in 1..(k-1) /\ prompts(i) = count(n)
  BY DEF Prompted
<1> HIDE DEF count, prompts
<1>5. ASSUME f[k].type # "user_message" PROVE prompts(k) = prompts(k - 1)
  BY <1>2, <1>3, <1>5
<1>6. CASE f[k].type = "user_message" /\ \E t \in Turn : new = Append(ts, t) /\ t.prompted /\ t.actions = <<>>
  <2>1. PICK t \in Turn : new = Append(ts, t) /\ t.prompted /\ t.actions = <<>>
    BY <1>6
  <2>2. DOMAIN new = 1..(N+1) /\ Len(new) = N + 1 /\ new[N+1] = t /\ \A n \in 1..N : new[n] = ts[n]
    BY <1>1, <2>1
  <2> DEFINE also(n) == CountUpto(PromptedOf(new), n)
  <2>3. ASSUME NEW n \in 0..N PROVE also(n) = count(n)
    <3>1. \A m \in 1..n : m \in 1..N /\ m \in 1..(N+1)
      BY <1>1
    <3>2. \A m \in 1..n : m \in PromptedOf(new) <=> m \in PromptedOf(ts)
      BY <1>1, <2>2, <3>1 DEF PromptedOf
    <3>3. n \in Nat
      BY <1>1
    <3> QED BY <3>2, <3>3, CountSame DEF count
  <2>4. also(N + 1) = also(N) + 1
    <3> DEFINE m == N + 1
    <3>1. m \in Nat /\ m # 0 /\ m - 1 = N
      BY <1>1
    <3>2. m \in PromptedOf(new)
      <4>1. m \in DOMAIN new /\ new[m] = t
        BY <1>1, <2>2
      <4> QED BY <2>1, <4>1 DEF PromptedOf
    <3> HIDE DEF m
    <3>3. also(m) = also(m - 1) + (IF m \in PromptedOf(new) THEN 1 ELSE 0)
      BY <3>1, CountRises
    <3>4. also(m) = also(N) + 1
      BY <3>1, <3>2, <3>3
    <3> QED BY <3>4 DEF m
  <2>5. prompts(k) = also(Len(new))
    <3>1. prompts(k) = prompts(k - 1) + 1
      BY <1>2, <1>3, <1>6
    <3>2. also(N) = count(N)
      BY <1>1, <2>3
    <3> HIDE DEF also
    <3> QED BY <1>4, <2>2, <2>4, <3>1, <3>2
  <2>6. ASSUME NEW n \in DOMAIN new, NEW i \in Range(new[n].actions) PROVE i \in 1..k /\ prompts(i) = also(n)
    <3>1. n # N + 1
      <4> SUFFICES ASSUME n = N + 1 PROVE FALSE
        OBVIOUS
      <4>1. new[n].actions = <<>>
        BY <2>1, <2>2
      <4> QED BY <4>1 DEF Range
    <3>2. n \in 1..N /\ n \in 0..N
      BY <1>1, <2>2, <3>1
    <3>3. new[n] = ts[n] /\ also(n) = count(n)
      BY <2>2, <2>3, <3>2
    <3> HIDE DEF also
    <3>4. i \in 1..(k-1) /\ prompts(i) = count(n)
      BY <1>1, <1>4, <3>2, <3>3
    <3> QED BY <1>1, <3>3, <3>4
  <2> QED BY <2>5, <2>6 DEF Prompted, prompts
<1>7. CASE /\ f[k].type \in ActionKinds /\ ts # <<>>
           /\ \E t \in Turn : /\ new = [ts EXCEPT ![Len(ts)] = t] /\ t.prompted = ts[Len(ts)].prompted
                              /\ t.actions = Append(ts[Len(ts)].actions, k)
  <2>1. PICK t \in Turn : /\ new = [ts EXCEPT ![Len(ts)] = t] /\ t.prompted = ts[Len(ts)].prompted
                          /\ t.actions = Append(ts[Len(ts)].actions, k)
    BY <1>7
  <2>0. N \in 1..N
    BY <1>1, <1>7
  <2>2. DOMAIN new = 1..N /\ Len(new) = N /\ \A n \in 1..N : new[n] = IF n = N THEN t ELSE ts[n]
    BY <1>1, <2>1
  <2>3. \A n \in 1..N : new[n].prompted = ts[n].prompted
    BY <2>1, <2>2
  <2>4. PromptedOf(new) = PromptedOf(ts)
    BY <1>1, <2>2, <2>3 DEF PromptedOf
  <2>5. f[k].type # "user_message"
    BY <1>7 DEF ActionKinds
  <2>6. prompts(k) = count(N)
    BY <1>4, <1>5, <2>5
  <2>7. ASSUME NEW n \in DOMAIN new, NEW i \in Range(new[n].actions) PROVE i \in 1..k /\ prompts(i) = count(n)
    <3>1. CASE n # N
      <4>1. new[n] = ts[n] /\ n \in DOMAIN ts
        BY <1>1, <2>2, <3>1
      <4> QED BY <1>1, <1>4, <4>1
    <3>2. CASE n = N
      <4> DEFINE old == ts[N].actions
      <4>1. new[n].actions = Append(old, k)
        BY <2>0, <2>1, <2>2, <3>2
      <4>2. old \in Seq(Nat)
        <5>1. ts[N] \in Turn
          BY <1>1, <2>0
        <5> QED BY <5>1 DEF Turn
      <4> HIDE DEF old
      <4>3. i \in Range(old) \/ i = k
        <5>1. PICK p \in DOMAIN Append(old, k) : Append(old, k)[p] = i
          BY <4>1 DEF Range
        <5>2. CASE p = Len(old) + 1
          BY <4>2, <5>1, <5>2
        <5>3. CASE p # Len(old) + 1
          <6>1. p \in DOMAIN old /\ old[p] = i
            BY <4>2, <5>1, <5>3
          <6> QED BY <6>1 DEF Range
        <5> QED BY <5>2, <5>3
      <4>4. CASE i \in Range(old)
        BY <1>1, <1>4, <2>0, <3>2, <4>4 DEF old
      <4>5. CASE i = k
        BY <1>1, <2>6, <3>2, <4>5
      <4> QED BY <4>3, <4>4, <4>5
    <3> QED BY <3>1, <3>2
  <2> QED BY <2>2, <2>4, <2>6, <2>7 DEF Prompted, prompts, count
<1>8. CASE /\ f[k].type \in ActionKinds \ {"api_response"} /\ ts = <<>>
           /\ \E t \in Turn : new = <<t>> /\ ~t.prompted /\ t.actions = <<k>>
  <2>1. PICK t \in Turn : new = <<t>> /\ ~t.prompted /\ t.actions = <<k>>
    BY <1>8
  <2>2. DOMAIN new = 1..1 /\ Len(new) = 1 /\ new[1] = t
    BY <2>1
  <2>3. f[k].type # "user_message"
    BY <1>8 DEF ActionKinds
  <2>4. prompts(k) = 0
    <3>1. N = 0 /\ count(0) = 0
      BY <1>8, CountNone DEF count
    <3> QED BY <1>4, <1>5, <2>3, <3>1
  <2>5. CountUpto(PromptedOf(new), 1) = 0
    <3>1. 1 \notin PromptedOf(new)
      BY <2>1, <2>2 DEF PromptedOf
    <3> DEFINE Q == PromptedOf(new) c(n) == CountUpto(Q, n)
    <3> HIDE DEF Q
    <3>2. c(1) = c(1 - 1) + (IF 1 \in Q THEN 1 ELSE 0)
      BY CountRises
    <3>3. c(0) = 0
      BY CountNone
    <3>4. c(1) = 0
      <4>1. 1 - 1 = 0
        OBVIOUS
      <4>2. c(1) = c(0) + 0
        BY <3>1, <3>2, <4>1 DEF Q
      <4> HIDE DEF c
      <4> QED BY <3>3, <4>2
    <3> QED BY <3>4 DEF Q
  <2>6. ASSUME NEW n \in DOMAIN new, NEW i \in Range(new[n].actions) PROVE i = k /\ n = 1
    <3>1. n = 1 /\ new[n].actions = <<k>>
      BY <2>1, <2>2
    <3>2. Range(<<k>>) = {k}
      BY DEF Range
    <3> QED BY <3>1, <3>2
  <2>7. k \in 1..k
    BY <1>1
  <2> QED BY <2>2, <2>4, <2>5, <2>6, <2>7 DEF Prompted, prompts
<1>9. CASE /\ new = ts /\ f[k].type # "user_message"
           /\ f[k].type \in ActionKinds => ts = <<>> /\ f[k].type = "api_response"
  <2>1. prompts(k) = count(N)
    BY <1>4, <1>5, <1>9
  <2>2. \A n \in DOMAIN ts : \A i \in Range(ts[n].actions) : i \in 1..k /\ prompts(i) = count(n)
    BY <1>1, <1>4
  <2> QED BY <1>9, <2>1, <2>2 DEF Prompted, prompts, count
<1>11. new = Take(ts, f, k)
  OBVIOUS
<1>12. \/ f[k].type = "user_message" /\ \E t \in Turn : new = Append(ts, t) /\ t.prompted /\ t.actions = <<>>
       \/ /\ f[k].type \in ActionKinds /\ ts # <<>>
          /\ \E t \in Turn : /\ new = [ts EXCEPT ![Len(ts)] = t] /\ t.prompted = ts[Len(ts)].prompted
                             /\ t.actions = Append(ts[Len(ts)].actions, k)
       \/ /\ f[k].type \in ActionKinds \ {"api_response"} /\ ts = <<>>
          /\ \E t \in Turn : new = <<t>> /\ ~t.prompted /\ t.actions = <<k>>
       \/ /\ new = ts /\ f[k].type # "user_message"
          /\ f[k].type \in ActionKinds => ts = <<>> /\ f[k].type = "api_response"
  <2> HIDE DEF N
  <2> QED BY <1>11, TakeIs
<1> QED BY <1>6, <1>7, <1>8, <1>9, <1>12

LEMMA TurnsTell ==
    ASSUME NEW f \in Seq(Events)
    PROVE  /\ Normalize(f) \in Seq(Turn)
           /\ ToldUpTo(f, Len(f), Normalize(f)) /\ Prompted(f, Len(f), Normalize(f))
<1> DEFINE N == Len(f) g == TurnsUpto(f)
           T == {k \in 0..N : ToldUpTo(f, k, g[k]) /\ Prompted(f, k, g[k])}
<1>1. N \in Nat /\ g = TurnsUpto(f)
  OBVIOUS
<1> HIDE DEF g
<1>2. /\ Normalize(f) = g[N] /\ g[0] = <<>>
      /\ \A n \in 0..N : g[n] \in Seq(Turn) /\ Len(g[n]) <= n
      /\ \A n \in 1..N : g[n] = Take(g[n-1], f, n)
  BY <1>1, TurnsRun
<1>3. 0 \in T
  <2>1. ToldUpTo(f, 0, <<>>)
    <3>1. DoneBy(f, 0) = {}
      BY DEF DoneBy
    <3>2. Picked(PlacesOf(f), {}) = <<>>
      BY FS_EmptySet DEF Picked
    <3>3. ActionsOf(<<>>) = <<>>
      BY DEF ActionsOf
    <3>4. FlattenSeq(<<>>) = <<>>
      BY DEF FlattenSeq
    <3>5. \A j \in 1..0 : j \notin Starts(f)
      OBVIOUS
    <3> QED BY <3>1, <3>2, <3>3, <3>4, <3>5 DEF ToldUpTo
  <2>2. Prompted(f, 0, <<>>)
    <3>1. Len(<<>>) = 0
      OBVIOUS
    <3> QED BY <3>1, CountNone DEF Prompted
  <2>3. 0 \in 0..N
    BY <1>1
  <2> QED BY <1>2, <2>1, <2>2, <2>3
<1>4. ASSUME NEW k \in 1..N, k - 1 \in T PROVE k \in T
  <2> DEFINE ts == g[k-1]
  <2>1. ts \in Seq(Turn) /\ g[k] = Take(ts, f, k) /\ ToldUpTo(f, k - 1, ts) /\ Prompted(f, k - 1, ts)
    BY <1>2, <1>4
  <2> HIDE DEF ts
  <2>2. ToldUpTo(f, k, g[k])
    BY <2>1, ToldStep
  <2>3. Prompted(f, k, g[k])
    BY <2>1, PromptedStep
  <2>4. k \in 0..N
    BY <1>1
  <2> QED BY <2>2, <2>3, <2>4
<1> HIDE DEF T
<1>5. \A n \in 1..N : n - 1 \in T => n \in T
  BY <1>4
<1>6. \A n \in 0..N : n \in T
  BY <1>1, <1>3, <1>5, CountsUp
<1>7. N \in 0..N
  BY <1>1
<1> QED BY <1>2, <1>6, <1>7 DEF T

\* The transcript tells all that was done, once and in the order of the flow, and each action in the
\* turn of the prompt that it came after (normalizeFlowToTranscript of normalize.js); with the sums,
\* the arrows and the inspectors, all that is said of the flow.
THEOREM FlowTold == FlowSpec => []FlowHolds
<1>1. FlowTypeOK => TurnsTellAll
  <2> SUFFICES ASSUME FlowTypeOK PROVE TurnsTellAll
    OBVIOUS
  <2> DEFINE turns == Normalize(flow) N == Len(flow)
             started == {i \in DOMAIN flow : flow[i].type \in (ActionKinds \ {"api_response"}) \cup {"user_message"}}
             done == {i \in DOMAIN flow : flow[i].type \in ActionKinds /\ \E j \in started : j <= i}
  <2>1. flow \in Seq(Events) /\ N \in Nat /\ DOMAIN flow = 1..N
    <3>1. flow \in Flows
      BY DEF FlowTypeOK
    <3> QED BY <3>1, FlowIs
  <2>2. turns \in Seq(Turn) /\ ToldUpTo(flow, N, turns) /\ Prompted(flow, N, turns)
    BY <2>1, TurnsTell
  <2> HIDE DEF turns
  <2>3. done = DoneBy(flow, N)
    BY <2>1 DEF DoneBy, Starts
  <2>4. FlattenSeq([n \in DOMAIN turns |-> turns[n].actions]) = Picked([i \in DOMAIN flow |-> i], done)
    BY <2>2, <2>3 DEF ToldUpTo, ActionsOf, PlacesOf
  <2>5. ASSUME NEW n \in DOMAIN turns, NEW i \in Range(turns[n].actions)
        PROVE  Cardinality({j \in 1..i : flow[j].type = "user_message"}) = Cardinality({m \in 1..n : turns[m].prompted})
    <3>1. i \in 1..N /\ CountUpto(PromptsOf(flow), i) = CountUpto(PromptedOf(turns), n)
      BY <2>2 DEF Prompted
    <3>2. DOMAIN turns = 1..Len(turns) /\ Len(turns) \in Nat
      BY <2>2
    <3>3. (1..i) \subseteq DOMAIN flow /\ (1..n) \subseteq DOMAIN turns
      BY <2>1, <3>1, <3>2
    <3>4. {j \in 1..i : flow[j].type = "user_message"} = (1..i) \cap PromptsOf(flow)
      BY <3>3 DEF PromptsOf
    <3>5. {m \in 1..n : turns[m].prompted} = (1..n) \cap PromptedOf(turns)
      BY <3>3 DEF PromptedOf
    <3> QED BY <3>1, <3>4, <3>5 DEF CountUpto
  <2> HIDE DEF done
  <2> QED BY <2>4, <2>5 DEF TurnsTellAll, turns, done
<1>2. FlowHolds <=> TurnsTellAll /\ SumsRun /\ ArrowsFindEnds /\ InspectsShown
  BY DEF FlowHolds
<1> QED BY <1>1, <1>2, FlowsTyped, SumsAddUp, ArrowsEnd, InspectsTheFlow, PTL

=============================================================================
