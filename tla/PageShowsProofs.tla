--------------------------- MODULE PageShowsProofs ---------------------------
(***************************************************************************)
(* What the charts (BoardChart) and the detail screens (ScopedScreens)     *)
(* show is what the data say, for any series and any snapshots: their      *)
(* figures add up.  Last, what the user sees on the whole page (PageUser). *)
(***************************************************************************)
EXTENDS PageUserProofs

(* Sums ---------------------------------------------------------------------- *)

\* induction along a finite set: what holds of none and, of a part with an element, if it holds without it
LEMMA PartsGrow ==
    ASSUME NEW S, IsFiniteSet(S), NEW T, {} \in T,
           \A s \in SUBSET S : \A x \in s : s \ {x} \in T => s \in T
    PROVE  S \in T
<1> DEFINE N == Cardinality(S)
           K == {n \in 0..N : \A s \in SUBSET S : Cardinality(s) = n => s \in T}
<1>0. N \in Nat
  BY FS_CardinalityType
<1>1. \A s \in SUBSET S : IsFiniteSet(s) /\ Cardinality(s) \in 0..N /\ (Cardinality(s) = 0 <=> s = {})
  BY PartsCount
<1>2. N = Cardinality(S)
  OBVIOUS
<1> HIDE DEF N
<1>3. 0 \in K
  BY <1>0, <1>1
<1>4. ASSUME NEW n \in 1..N, n - 1 \in K PROVE n \in K
  <2>1. ASSUME NEW s \in SUBSET S, Cardinality(s) = n PROVE s \in T
    <3>1. s # {} /\ IsFiniteSet(s)
      BY <1>0, <1>1, <2>1
    <3>2. PICK x \in s : TRUE
      BY <3>1
    <3>3. s \ {x} \in SUBSET S /\ Cardinality(s \ {x}) = n - 1
      BY <2>1, <3>1, <3>2, OneLess
    <3>4. s \ {x} \in T
      BY <1>4, <3>3
    <3> QED BY <3>2, <3>4
  <2>2. n \in 0..N
    BY <1>0
  <2> QED BY <2>1, <2>2
<1> HIDE DEF K
<1>5. \A n \in 1..N : n - 1 \in K => n \in K
  BY <1>4
<1>6. \A n \in 0..N : n \in K
  BY <1>0, <1>3, <1>5, CountsUp
<1>7. N \in 0..N /\ N \in K
  BY <1>0, <1>6
<1> QED BY <1>2, <1>7 DEF K

\* numbers add up to a number, each one of them a part of it
LEMMA SumNatural ==
    ASSUME NEW S, IsFiniteSet(S), NEW f, \A x \in S : f[x] \in Nat
    PROVE  /\ SumFunctionOnSet(f, S) \in Nat
           /\ \A x \in S : SumFunctionOnSet(f, S) = f[x] + SumFunctionOnSet(f, S \ {x}) /\ SumFunctionOnSet(f, S \ {x}) \in Nat
<1>1. \A x \in S : SumFunctionOnSet(f, S) = f[x] + SumFunctionOnSet(f, S \ {x}) /\ SumFunctionOnSet(f, S \ {x}) \in Nat
  BY SumSplits
<1>2. SumFunctionOnSet(f, {}) = 0
  BY SumOfNone
<1>3. CASE S = {}
  BY <1>1, <1>2, <1>3
<1>4. CASE S # {}
  <2>1. PICK x \in S : TRUE
    BY <1>4
  <2>2. f[x] \in Nat /\ SumFunctionOnSet(f, S) = f[x] + SumFunctionOnSet(f, S \ {x}) /\ SumFunctionOnSet(f, S \ {x}) \in Nat
    BY <1>1, <2>1
  <2>3. SumFunctionOnSet(f, S) \in Nat
    BY <2>2
  <2> QED BY <1>1, <2>3
<1> QED BY <1>3, <1>4

\* two functions, one set
LEMMA SumPlus ==
    ASSUME NEW S, IsFiniteSet(S), NEW f, NEW g, NEW h,
           \A x \in S : f[x] \in Nat /\ g[x] \in Nat /\ h[x] = f[x] + g[x]
    PROVE  SumFunctionOnSet(h, S) = SumFunctionOnSet(f, S) + SumFunctionOnSet(g, S)
<1> DEFINE T == {s \in SUBSET S : SumFunctionOnSet(h, s) = SumFunctionOnSet(f, s) + SumFunctionOnSet(g, s)}
<1>1. {} \in T
  BY SumOfNone
<1>2. ASSUME NEW s \in SUBSET S, NEW x \in s, s \ {x} \in T PROVE s \in T
  <2>1. IsFiniteSet(s) /\ \A y \in s : f[y] \in Nat /\ g[y] \in Nat /\ h[y] \in Nat
    BY FS_Subset
  <2>2. SumFunctionOnSet(f, s) = f[x] + SumFunctionOnSet(f, s \ {x}) /\ SumFunctionOnSet(f, s \ {x}) \in Nat
    BY <2>1, SumNatural
  <2>3. SumFunctionOnSet(g, s) = g[x] + SumFunctionOnSet(g, s \ {x}) /\ SumFunctionOnSet(g, s \ {x}) \in Nat
    BY <2>1, SumNatural
  <2>4. SumFunctionOnSet(h, s) = h[x] + SumFunctionOnSet(h, s \ {x}) /\ SumFunctionOnSet(h, s \ {x}) \in Nat
    BY <2>1, SumNatural
  <2>5. /\ SumFunctionOnSet(h, s \ {x}) = SumFunctionOnSet(f, s \ {x}) + SumFunctionOnSet(g, s \ {x})
        /\ h[x] = f[x] + g[x] /\ f[x] \in Nat /\ g[x] \in Nat
    BY <1>2, <2>1
  <2> QED BY <2>2, <2>3, <2>4, <2>5
<1> HIDE DEF T
<1>3. S \in T
  BY <1>1, <1>2, PartsGrow
<1> QED BY <1>3 DEF T

\* of two sets the larger has the larger sum, if each number has
LEMMA SumGrows ==
    ASSUME NEW S, IsFiniteSet(S), NEW R \in SUBSET S, NEW f, NEW g, \A x \in S : g[x] \in Nat,
           \A x \in R : f[x] \in Nat /\ f[x] <= g[x]
    PROVE  SumFunctionOnSet(f, R) <= SumFunctionOnSet(g, S)
<1> DEFINE T == {s \in SUBSET S : SumFunctionOnSet(f, s \cap R) <= SumFunctionOnSet(g, s)}
<1>1. {} \in T
  <2>1. {} \cap R = {} /\ SumFunctionOnSet(f, {}) = 0 /\ SumFunctionOnSet(g, {}) = 0
    BY SumOfNone
  <2> QED BY <2>1
<1>2. ASSUME NEW s \in SUBSET S, NEW x \in s, s \ {x} \in T PROVE s \in T
  <2> DEFINE a == s \cap R b == (s \ {x}) \cap R
  <2>1. IsFiniteSet(s) /\ IsFiniteSet(a) /\ \A y \in s : g[y] \in Nat
    BY FS_Subset
  <2>2. SumFunctionOnSet(g, s) = g[x] + SumFunctionOnSet(g, s \ {x}) /\ SumFunctionOnSet(g, s \ {x}) \in Nat /\ g[x] \in Nat
    BY <2>1, SumNatural
  <2>3. SumFunctionOnSet(f, b) <= SumFunctionOnSet(g, s \ {x})
    BY <1>2
  <2>4. CASE x \in R
    <3>1. x \in a /\ b = a \ {x} /\ (\A y \in a : f[y] \in Nat) /\ f[x] <= g[x] /\ f[x] \in Nat
      BY <2>4
    <3> HIDE DEF a, b
    <3>2. SumFunctionOnSet(f, a) = f[x] + SumFunctionOnSet(f, b) /\ SumFunctionOnSet(f, b) \in Nat
      BY <2>1, <3>1, SumNatural
    <3>3. SumFunctionOnSet(f, a) <= SumFunctionOnSet(g, s)
      BY <2>2, <2>3, <3>1, <3>2
    <3> QED BY <3>3 DEF a
  <2>5. CASE x \notin R
    <3>1. a = b /\ IsFiniteSet(b) /\ \A y \in b : f[y] \in Nat
      BY <2>1, <2>5
    <3> HIDE DEF a, b
    <3>2. SumFunctionOnSet(f, b) \in Nat
      BY <3>1, SumNatural
    <3>3. SumFunctionOnSet(f, b) <= SumFunctionOnSet(g, s)
      BY <2>2, <2>3, <3>2
    <3> QED BY <3>1, <3>3 DEF a
  <2> QED BY <2>4, <2>5
<1> HIDE DEF T
<1>3. S \in T
  BY <1>1, <1>2, PartsGrow
<1>4. S \cap R = R
  OBVIOUS
<1> QED BY <1>3, <1>4 DEF T

\* the same numbers give the same sum
LEMMA SumSame ==
    ASSUME NEW S, IsFiniteSet(S), NEW f, NEW g, \A x \in S : f[x] \in Nat /\ g[x] = f[x]
    PROVE  SumFunctionOnSet(f, S) = SumFunctionOnSet(g, S)
<1>0. S \in SUBSET S /\ \A x \in S : g[x] \in Nat /\ f[x] \in Nat /\ f[x] <= g[x] /\ g[x] <= f[x]
  OBVIOUS
<1>1. SumFunctionOnSet(f, S) <= SumFunctionOnSet(g, S)
  BY <1>0, SumGrows
<1>2. SumFunctionOnSet(g, S) <= SumFunctionOnSet(f, S)
  BY <1>0, SumGrows
<1>3. SumFunctionOnSet(f, S) \in Nat /\ SumFunctionOnSet(g, S) \in Nat
  BY <1>0, SumNatural
<1> QED BY <1>1, <1>2, <1>3

\* what adds nothing may be left out
LEMMA SumSkips ==
    ASSUME NEW S, IsFiniteSet(S), NEW R \in SUBSET S, NEW f, \A x \in S : f[x] \in Nat, \A x \in S \ R : f[x] = 0
    PROVE  SumFunctionOnSet(f, S) = SumFunctionOnSet(f, R)
<1> DEFINE T == {s \in SUBSET S : SumFunctionOnSet(f, s) = SumFunctionOnSet(f, s \cap R)}
<1>1. {} \in T
  <2>1. {} \cap R = {}
    OBVIOUS
  <2> QED BY <2>1
<1>2. ASSUME NEW s \in SUBSET S, NEW x \in s, s \ {x} \in T PROVE s \in T
  <2> DEFINE a == s \cap R b == (s \ {x}) \cap R
  <2>1. IsFiniteSet(s) /\ IsFiniteSet(a) /\ IsFiniteSet(b) /\ (\A y \in s : f[y] \in Nat) /\ \A y \in a : f[y] \in Nat
    BY FS_Subset
  <2>2. SumFunctionOnSet(f, s) = f[x] + SumFunctionOnSet(f, s \ {x}) /\ SumFunctionOnSet(f, s \ {x}) \in Nat
    BY <2>1, SumNatural
  <2>3. SumFunctionOnSet(f, s \ {x}) = SumFunctionOnSet(f, b)
    BY <1>2
  <2>4. CASE x \in R
    <3>1. x \in a /\ b = a \ {x}
      BY <2>4
    <3> HIDE DEF a, b
    <3>2. SumFunctionOnSet(f, a) = f[x] + SumFunctionOnSet(f, b)
      BY <2>1, <3>1, SumNatural
    <3> QED BY <2>2, <2>3, <3>2 DEF a
  <2>5. CASE x \notin R
    <3>1. a = b /\ f[x] = 0
      BY <2>5
    <3> HIDE DEF a, b
    <3>2. SumFunctionOnSet(f, s) = SumFunctionOnSet(f, a)
      BY <2>2, <2>3, <3>1
    <3> QED BY <3>2 DEF a
  <2> QED BY <2>4, <2>5
<1> HIDE DEF T
<1>3. S \in T
  BY <1>1, <1>2, PartsGrow
<1>4. S \cap R = R
  OBVIOUS
<1> QED BY <1>3, <1>4 DEF T

\* the elements by other names
Names(via, D, A) ==
    /\ \A n \in D : via[n] \in A
    /\ \A n, m \in D : via[n] = via[m] => n = m
    /\ \A x \in A : \E n \in D : via[n] = x

\* a sum does not depend on the names
LEMMA SumVia ==
    ASSUME NEW S, IsFiniteSet(S), NEW E, NEW via, Names(via, S, E),
           NEW f, \A e \in E : f[e] \in Nat, NEW g, \A n \in S : g[n] = f[via[n]]
    PROVE  SumFunctionOnSet(g, S) = SumFunctionOnSet(f, E)
<1>0. (\A n \in S : via[n] \in E) /\ (\A n, m \in S : via[n] = via[m] => n = m) /\ \A e \in E : \E n \in S : via[n] = e
  BY DEF Names
<1> DEFINE img(s) == {via[n] : n \in s}
           T == {s \in SUBSET S : IsFiniteSet(img(s)) /\ SumFunctionOnSet(g, s) = SumFunctionOnSet(f, img(s))}
<1>1. {} \in T
  <2>1. img({}) = {}
    OBVIOUS
  <2>2. SumFunctionOnSet(g, {}) = 0 /\ SumFunctionOnSet(f, {}) = 0
    BY SumOfNone
  <2> QED BY <2>1, <2>2, FS_EmptySet
<1>2. ASSUME NEW s \in SUBSET S, NEW x \in s, s \ {x} \in T PROVE s \in T
  <2> DEFINE a == img(s) b == img(s \ {x})
  <2>1. IsFiniteSet(s) /\ \A y \in s : g[y] \in Nat
    BY <1>0, FS_Subset
  <2>2. SumFunctionOnSet(g, s) = g[x] + SumFunctionOnSet(g, s \ {x}) /\ SumFunctionOnSet(g, s \ {x}) \in Nat
    BY <2>1, SumNatural
  <2>3. SumFunctionOnSet(g, s \ {x}) = SumFunctionOnSet(f, b) /\ IsFiniteSet(b)
    BY <1>2
  <2>4. via[x] \in a /\ b = a \ {via[x]} /\ a = b \cup {via[x]}
    BY <1>0
  <2>5. IsFiniteSet(a)
    <3> HIDE DEF a, b
    <3> DEFINE e == via[x]
    <3>1. IsFiniteSet(b) /\ a = b \cup {e}
      BY <2>3, <2>4
    <3> HIDE DEF e
    <3>2. IsFiniteSet(b \cup {e})
      BY <3>1, FS_AddElement
    <3> QED BY <3>1, <3>2
  <2>6. \A e \in a : f[e] \in Nat
    BY <1>0
  <2> HIDE DEF a, b
  <2>7. SumFunctionOnSet(f, a) = f[via[x]] + SumFunctionOnSet(f, b)
    BY <2>4, <2>5, <2>6, SumNatural
  <2>8. g[x] = f[via[x]]
    OBVIOUS
  <2> QED BY <2>2, <2>3, <2>5, <2>7, <2>8 DEF a
<1>3. S \in T
  <2> HIDE DEF T
  <2> QED BY <1>1, <1>2, PartsGrow
<1>4. img(S) = E
  BY <1>0
<1> HIDE DEF img
<1> QED BY <1>3, <1>4

\* two sets apart
LEMMA SumJoins ==
    ASSUME NEW A, NEW B, IsFiniteSet(A), IsFiniteSet(B), A \cap B = {}, NEW f, \A x \in A \cup B : f[x] \in Nat
    PROVE  SumFunctionOnSet(f, A \cup B) = SumFunctionOnSet(f, A) + SumFunctionOnSet(f, B)
<1> DEFINE T == {s \in SUBSET A : SumFunctionOnSet(f, s \cup B) = SumFunctionOnSet(f, s) + SumFunctionOnSet(f, B)}
<1>0. SumFunctionOnSet(f, B) \in Nat
  BY SumNatural
<1>1. {} \in T
  <2>1. {} \cup B = B /\ SumFunctionOnSet(f, {}) = 0
    BY SumOfNone
  <2> QED BY <1>0, <2>1
<1>2. ASSUME NEW s \in SUBSET A, NEW x \in s, s \ {x} \in T PROVE s \in T
  <2> DEFINE a == s \cup B b == (s \ {x}) \cup B
  <2>1. IsFiniteSet(s) /\ (\A y \in s : f[y] \in Nat) /\ f[x] \in Nat
    BY FS_Subset
  <2>2. SumFunctionOnSet(f, s) = f[x] + SumFunctionOnSet(f, s \ {x}) /\ SumFunctionOnSet(f, s \ {x}) \in Nat
    BY <2>1, SumNatural
  <2>3. SumFunctionOnSet(f, b) = SumFunctionOnSet(f, s \ {x}) + SumFunctionOnSet(f, B)
    BY <1>2
  <2>4. x \in a /\ b = a \ {x} /\ \A y \in a : f[y] \in Nat
    OBVIOUS
  <2>5. IsFiniteSet(a)
    BY <2>1, FS_Union
  <2> HIDE DEF a, b
  <2>6. SumFunctionOnSet(f, a) = f[x] + SumFunctionOnSet(f, b)
    BY <2>4, <2>5, SumNatural
  <2>7. SumFunctionOnSet(f, a) = SumFunctionOnSet(f, s) + SumFunctionOnSet(f, B)
    BY <1>0, <2>1, <2>2, <2>3, <2>6
  <2> QED BY <2>7 DEF a
<1> HIDE DEF T
<1>3. A \in T
  BY <1>1, <1>2, PartsGrow
<1> QED BY <1>3 DEF T

\* summing by rows or by columns
LEMMA SumSwaps ==
    ASSUME NEW S, NEW R, IsFiniteSet(S), IsFiniteSet(R), NEW f, \A x \in S : \A y \in R : f[x][y] \in Nat
    PROVE  SumFunctionOnSet([x \in S |-> SumFunctionOnSet([y \in R |-> f[x][y]], R)], S)
           = SumFunctionOnSet([y \in R |-> SumFunctionOnSet([x \in S |-> f[x][y]], S)], R)
<1> DEFINE row(x) == [y \in R |-> f[x][y]]
           rows == [x \in S |-> SumFunctionOnSet(row(x), R)]
           col(s, y) == SumFunctionOnSet([x \in S |-> f[x][y]], s)
           cols(s) == [y \in R |-> col(s, y)]
           T == {s \in SUBSET S : SumFunctionOnSet(rows, s) = SumFunctionOnSet(cols(s), R)}
<1>0. \A x \in S : SumFunctionOnSet(row(x), R) \in Nat
  <2> SUFFICES ASSUME NEW x \in S PROVE SumFunctionOnSet(row(x), R) \in Nat
    OBVIOUS
  <2>1. \A y \in R : row(x)[y] \in Nat
    OBVIOUS
  <2> HIDE DEF row
  <2> QED BY <2>1, SumNatural
<1>1. {} \in T
  <2>1. SumFunctionOnSet(rows, {}) = 0 /\ \A y \in R : cols({})[y] = 0
    BY SumOfNone
  <2>2. {} \in SUBSET R /\ (\A y \in R : cols({})[y] \in Nat) /\ \A y \in R \ {} : cols({})[y] = 0
    BY <2>1
  <2> DEFINE c == cols({})
  <2>3. SumFunctionOnSet(c, R) = 0
    <3>1. {} \in SUBSET R /\ (\A y \in R : c[y] \in Nat) /\ \A y \in R \ {} : c[y] = 0
      BY <2>2
    <3> HIDE DEF c
    <3>2. SumFunctionOnSet(c, R) = SumFunctionOnSet(c, {})
      BY <3>1, SumSkips
    <3> QED BY <3>2, SumOfNone
  <2> QED BY <2>1, <2>3
<1>2. ASSUME NEW s \in SUBSET S, NEW x \in s, s \ {x} \in T PROVE s \in T
  <2>1. IsFiniteSet(s)
    BY FS_Subset
  <2>2. SumFunctionOnSet(rows, s) = SumFunctionOnSet(row(x), R) + SumFunctionOnSet(rows, s \ {x})
    <3>1. (\A y \in s : rows[y] \in Nat) /\ rows[x] = SumFunctionOnSet(row(x), R)
      BY <1>0
    <3> HIDE DEF rows, row
    <3>2. \A y \in s : SumFunctionOnSet(rows, s) = rows[y] + SumFunctionOnSet(rows, s \ {y})
      BY <2>1, <3>1, SumNatural
    <3> QED BY <3>1, <3>2
  <2>3. \A y \in R : /\ cols(s)[y] = row(x)[y] + cols(s \ {x})[y]
                      /\ row(x)[y] \in Nat /\ cols(s \ {x})[y] \in Nat
    <3> SUFFICES ASSUME NEW y \in R
                 PROVE col(s, y) = f[x][y] + col(s \ {x}, y) /\ f[x][y] \in Nat /\ col(s \ {x}, y) \in Nat
      OBVIOUS
    <3> DEFINE g == [z \in S |-> f[z][y]]
    <3>1. (\A z \in s : g[z] \in Nat) /\ g[x] = f[x][y] /\ f[x][y] \in Nat
      OBVIOUS
    <3> HIDE DEF g
    <3>2. SumFunctionOnSet(g, s) = g[x] + SumFunctionOnSet(g, s \ {x}) /\ SumFunctionOnSet(g, s \ {x}) \in Nat
      BY <2>1, <3>1, SumNatural
    <3> QED BY <3>1, <3>2 DEF g
  <2> DEFINE h == cols(s) e == row(x) k == cols(s \ {x})
  <2>4. \A y \in R : e[y] \in Nat /\ k[y] \in Nat /\ h[y] = e[y] + k[y]
    BY <2>3
  <2>5. /\ SumFunctionOnSet(rows, s \ {x}) = SumFunctionOnSet(k, R)
        /\ SumFunctionOnSet(rows, s) = SumFunctionOnSet(e, R) + SumFunctionOnSet(rows, s \ {x})
    BY <1>2, <2>2
  <2> HIDE DEF h, e, k, rows
  <2>6. SumFunctionOnSet(h, R) = SumFunctionOnSet(e, R) + SumFunctionOnSet(k, R)
    BY <2>4, SumPlus
  <2> QED BY <2>5, <2>6 DEF h
<1>3. S \in T
  <2> HIDE DEF T
  <2> QED BY <1>1, <1>2, PartsGrow
<1> QED BY <1>3

\* each element counted in its class
LEMMA SumByClass ==
    ASSUME NEW S, IsFiniteSet(S), NEW C, IsFiniteSet(C), NEW k, \A x \in S : k[x] \in C,
           NEW f, \A x \in S : f[x] \in Nat
    PROVE  SumFunctionOnSet([c \in C |-> SumFunctionOnSet(f, {x \in S : k[x] = c})], C) = SumFunctionOnSet(f, S)
<1> DEFINE g == [c \in C |-> SumFunctionOnSet(f, {x \in S : k[x] = c})]
           T == {d \in SUBSET C : SumFunctionOnSet(g, d) = SumFunctionOnSet(f, {x \in S : k[x] \in d})}
<1>0. \A c \in C : g[c] \in Nat
  <2> SUFFICES ASSUME NEW c \in C PROVE SumFunctionOnSet(f, {x \in S : k[x] = c}) \in Nat
    OBVIOUS
  <2> DEFINE s == {x \in S : k[x] = c}
  <2>1. IsFiniteSet(s) /\ \A x \in s : f[x] \in Nat
    BY FS_Subset
  <2> HIDE DEF s
  <2>2. SumFunctionOnSet(f, s) \in Nat
    BY <2>1, SumNatural
  <2> QED BY <2>2 DEF s
<1>1. {} \in T
  <2>1. {x \in S : k[x] \in {}} = {}
    OBVIOUS
  <2>2. SumFunctionOnSet(g, {}) = 0 /\ SumFunctionOnSet(f, {}) = 0
    BY SumOfNone
  <2> QED BY <2>1, <2>2
<1>2. ASSUME NEW d \in SUBSET C, NEW c \in d, d \ {c} \in T PROVE d \in T
  <2> DEFINE a == {x \in S : k[x] = c} b == {x \in S : k[x] \in d \ {c}} all == {x \in S : k[x] \in d}
  <2>1. IsFiniteSet(a) /\ IsFiniteSet(b) /\ a \cap b = {} /\ all = a \cup b
    BY FS_Subset
  <2>2. \A x \in a \cup b : f[x] \in Nat
    OBVIOUS
  <2>3. SumFunctionOnSet(g, d \ {c}) = SumFunctionOnSet(f, b)
    BY <1>2
  <2>4. g[c] = SumFunctionOnSet(f, a)
    OBVIOUS
  <2>5. IsFiniteSet(d) /\ \A y \in d : g[y] \in Nat
    BY <1>0, FS_Subset
  <2> HIDE DEF a, b, all, g
  <2>6. SumFunctionOnSet(g, d) = g[c] + SumFunctionOnSet(g, d \ {c})
    BY <2>5, SumNatural
  <2>7. SumFunctionOnSet(f, a \cup b) = SumFunctionOnSet(f, a) + SumFunctionOnSet(f, b)
    BY <2>1, <2>2, SumJoins
  <2>8. SumFunctionOnSet(g, d) = SumFunctionOnSet(f, all)
    BY <2>1, <2>3, <2>4, <2>6, <2>7
  <2> QED BY <2>8 DEF all
<1>3. C \in T
  <2> HIDE DEF T
  <2> QED BY <1>1, <1>2, PartsGrow
<1>4. {x \in S : k[x] \in C} = S
  OBVIOUS
<1> QED BY <1>3, <1>4

(* Charts ------------------------------------------------------------------- *)

Amounts == Nat \cup {NoData}
Filled(vals) == [i \in DOMAIN vals |-> IF vals[i] = NoData THEN 0 ELSE vals[i]]

\* a sum of values of which some are missing is that with 0 for them, or missing when all are
LEMMA AmountFills ==
    ASSUME NEW D, IsFiniteSet(D), NEW vals \in [D -> Amounts]
    PROVE  /\ Amount(vals) \in Nat /\ Amount(vals) = SumFunctionOnSet(Filled(vals), D)
           /\ Sum(vals) = IF \A i \in D : vals[i] = NoData THEN NoData ELSE Amount(vals)
           /\ Sum(vals) \in Amounts
           /\ (IF Sum(vals) = NoData THEN 0 ELSE Sum(vals)) = Amount(vals)
<1> DEFINE G == Given(vals) f == Filled(vals)
<1>1. G \in SUBSET D /\ (G = {} <=> \A i \in D : vals[i] = NoData)
  BY DEF Given
<1>2. (\A i \in D : f[i] \in Nat) /\ (\A i \in D \ G : f[i] = 0) /\ \A i \in G : f[i] \in Nat /\ vals[i] = f[i]
  BY DEF Filled, Given, Amounts
<1>3. Amount(vals) = SumFunctionOnSet(vals, G)
  BY DEF Amount
<1>4. Sum(vals) = IF G = {} THEN NoData ELSE Amount(vals)
  BY DEF Sum
<1> HIDE DEF G, f
<1>5. SumFunctionOnSet(f, D) = SumFunctionOnSet(f, G)
  BY <1>1, <1>2, SumSkips
<1>6. IsFiniteSet(G)
  BY <1>1, FS_Subset
<1>7. SumFunctionOnSet(f, G) = SumFunctionOnSet(vals, G) /\ SumFunctionOnSet(f, G) \in Nat
  BY <1>2, <1>6, SumSame, SumNatural
<1>8. Amount(vals) \in Nat /\ Amount(vals) = SumFunctionOnSet(f, D)
  BY <1>3, <1>5, <1>7
<1>9. G = {} => Amount(vals) = 0
  BY <1>3, SumOfNone
<1>10. NoData \notin Nat
  BY ChartShape
<1>11. Sum(vals) = IF \A i \in D : vals[i] = NoData THEN NoData ELSE Amount(vals)
  BY <1>1, <1>4
<1>12. Sum(vals) \in Amounts /\ (IF Sum(vals) = NoData THEN 0 ELSE Sum(vals)) = Amount(vals)
  BY <1>4, <1>8, <1>9, <1>10 DEF Amounts
<1> QED BY <1>8, <1>11, <1>12 DEF f

\* some under other names, and one for all the others
RestAsOne(vals, A, B, g, D, o, via) ==
    /\ IsFiniteSet(A) /\ IsFiniteSet(B) /\ A \cap B = {} /\ vals \in [A \cup B -> Amounts]
    /\ IsFiniteSet(D) /\ o \notin D /\ Names(via, D, A) /\ g \in [D \cup {o} -> Amounts]
    /\ \A n \in D : g[n] = vals[via[n]]
    /\ g[o] = Sum([x \in B |-> vals[x]])

\* whatever is missing, the rest as one changes no sum
LEMMA SumWithRest ==
    ASSUME NEW vals, NEW A, NEW B, NEW g, NEW D, NEW o, NEW via, RestAsOne(vals, A, B, g, D, o, via)
    PROVE  Sum(g) = Sum(vals)
<1> DEFINE S == A \cup B E == D \cup {o} rest == [x \in B |-> vals[x]]
<1>0. /\ IsFiniteSet(A) /\ IsFiniteSet(B) /\ A \cap B = {} /\ S = A \cup B /\ vals \in [S -> Amounts]
      /\ IsFiniteSet(D) /\ o \notin D /\ Names(via, D, A) /\ E = D \cup {o} /\ g \in [E -> Amounts]
      /\ (\A n \in D : g[n] = vals[via[n]]) /\ rest = [x \in B |-> vals[x]] /\ g[o] = Sum(rest)
  BY DEF RestAsOne
<1> HIDE DEF S, E, rest
<1> DEFINE f == Filled(vals) h == Filled(g)
<1>1. IsFiniteSet(E) /\ IsFiniteSet(S) /\ o \in E /\ E \ {o} = D
  <2>1. IsFiniteSet(D \cup {o})
    BY <1>0, FS_AddElement
  <2>2. IsFiniteSet(A \cup B)
    BY <1>0, FS_Union
  <2> QED BY <1>0, <2>1, <2>2
<1>2. rest \in [B -> Amounts] /\ vals \in [S -> Amounts] /\ g \in [E -> Amounts]
  BY <1>0
<1>3. /\ \A x \in S : f[x] = (IF vals[x] = NoData THEN 0 ELSE vals[x]) /\ f[x] \in Nat
      /\ \A n \in E : h[n] = (IF g[n] = NoData THEN 0 ELSE g[n]) /\ h[n] \in Nat
  BY <1>0 DEF Filled, Amounts
<1>4. \A x \in B : Filled(rest)[x] = f[x] /\ Filled(rest)[x] \in Nat
  BY <1>0, <1>3 DEF Filled
<1>5. \A x \in B : rest[x] = vals[x]
  BY <1>0
<1>6. g[o] = Sum(rest)
  BY <1>0
<1>7. A \in SUBSET S /\ B \in SUBSET S /\ D \in SUBSET E /\ S = A \cup B /\ E = D \cup {o}
  BY <1>0
<1> HIDE DEF f, h
<1>8. Sum(vals) = (IF \A x \in S : vals[x] = NoData THEN NoData ELSE Amount(vals)) /\ Amount(vals) = SumFunctionOnSet(f, S)
  BY <1>1, <1>2, AmountFills DEF f
<1>9. Sum(g) = (IF \A n \in E : g[n] = NoData THEN NoData ELSE Amount(g)) /\ Amount(g) = SumFunctionOnSet(h, E)
  BY <1>1, <1>2, AmountFills DEF h
<1>10. /\ Sum(rest) = IF \A x \in B : rest[x] = NoData THEN NoData ELSE Amount(rest)
       /\ Amount(rest) \in Nat /\ Amount(rest) = SumFunctionOnSet(Filled(rest), B)
       /\ (IF Sum(rest) = NoData THEN 0 ELSE Sum(rest)) = Amount(rest)
  BY <1>0, <1>2, AmountFills
<1>11. (\A n \in E : g[n] = NoData) <=> \A x \in S : vals[x] = NoData
  <2>1. NoData \notin Nat
    BY ChartShape
  <2>2. g[o] = NoData <=> \A x \in B : vals[x] = NoData
    BY <1>5, <1>6, <1>10, <2>1
  <2>3. (\A n \in D : g[n] = NoData) <=> \A x \in A : vals[x] = NoData
    BY <1>0 DEF Names
  <2> QED BY <1>7, <2>2, <2>3
<1>12. h[o] = SumFunctionOnSet(f, B)
  <2>1. h[o] = Amount(rest)
    BY <1>1, <1>3, <1>6, <1>10
  <2>2. SumFunctionOnSet(Filled(rest), B) = SumFunctionOnSet(f, B)
    <3> DEFINE r == Filled(rest)
    <3>1. \A x \in B : r[x] \in Nat /\ f[x] = r[x]
      BY <1>4
    <3> HIDE DEF r
    <3>2. SumFunctionOnSet(r, B) = SumFunctionOnSet(f, B)
      BY <1>0, <3>1, SumSame
    <3> QED BY <3>2 DEF r
  <2> QED BY <1>10, <2>1, <2>2
<1>13. SumFunctionOnSet(h, D) = SumFunctionOnSet(f, A)
  <2>1. \A x \in A : f[x] \in Nat
    BY <1>3, <1>7
  <2>2. \A n \in D : h[n] = f[via[n]]
    BY <1>0, <1>3, <1>7 DEF Names
  <2>3. IsFiniteSet(D) /\ Names(via, D, A)
    BY <1>0
  <2> QED BY <2>1, <2>2, <2>3, SumVia
<1>14. SumFunctionOnSet(h, E) = h[o] + SumFunctionOnSet(h, D)
  <2>1. \A n \in E : h[n] \in Nat
    BY <1>3
  <2>2. IsFiniteSet(E) /\ o \in E /\ E \ {o} = D
    BY <1>1
  <2>3. SumFunctionOnSet(h, E) = h[o] + SumFunctionOnSet(h, E \ {o})
    BY <2>1, <2>2, SumNatural
  <2> QED BY <2>2, <2>3
<1>15. SumFunctionOnSet(f, S) = SumFunctionOnSet(f, A) + SumFunctionOnSet(f, B)
  <2>1. \A x \in A \cup B : f[x] \in Nat
    BY <1>3, <1>7
  <2>2. SumFunctionOnSet(f, A \cup B) = SumFunctionOnSet(f, A) + SumFunctionOnSet(f, B)
    BY <1>0, <2>1, SumJoins
  <2> QED BY <1>7, <2>2
<1>16. SumFunctionOnSet(f, A) \in Nat /\ SumFunctionOnSet(f, B) \in Nat
  <2>1. (\A x \in A : f[x] \in Nat) /\ \A x \in B : f[x] \in Nat
    BY <1>3, <1>7
  <2> QED BY <1>0, <2>1, SumNatural
<1>17. Amount(g) = Amount(vals)
  BY <1>8, <1>9, <1>12, <1>13, <1>14, <1>15, <1>16
<1> QED BY <1>8, <1>9, <1>11, <1>17

\* all under other names
LEMMA SumRenamed ==
    ASSUME NEW A, IsFiniteSet(A), NEW vals \in [A -> Amounts], NEW D, IsFiniteSet(D), NEW via, Names(via, D, A),
           NEW g \in [D -> Amounts], \A n \in D : g[n] = vals[via[n]]
    PROVE  Sum(g) = Sum(vals)
<1> DEFINE f == Filled(vals) h == Filled(g)
<1>1. (\A x \in A : f[x] \in Nat) /\ \A n \in D : h[n] = f[via[n]]
  BY DEF Filled, Amounts, Names
<1> HIDE DEF f, h
<1>2. SumFunctionOnSet(h, D) = SumFunctionOnSet(f, A)
  BY <1>1, SumVia
<1>3. Sum(vals) = (IF \A x \in A : vals[x] = NoData THEN NoData ELSE Amount(vals)) /\ Amount(vals) = SumFunctionOnSet(f, A)
  BY AmountFills DEF f
<1>4. Sum(g) = (IF \A n \in D : g[n] = NoData THEN NoData ELSE Amount(g)) /\ Amount(g) = SumFunctionOnSet(h, D)
  BY AmountFills DEF h
<1>5. (\A n \in D : g[n] = NoData) <=> \A x \in A : vals[x] = NoData
  BY DEF Names
<1> QED BY <1>2, <1>3, <1>4, <1>5

\* a set put into an order has each member at one place only, a smaller before a larger
LEMMA ArrangedOnce ==
    ASSUME NEW D, IsFiniteSet(D), NEW B, StrictOrder(B, D), NEW t, t = Arranged(D, B)
    PROVE  /\ DOMAIN t = 1..Cardinality(D) /\ \A n \in DOMAIN t : t[n] \in D
           /\ \A n, m \in DOMAIN t : t[n] = t[m] => n = m
           /\ \A n, m \in DOMAIN t : n < m => <<t[n], t[m]>> \in B
<1> DEFINE Z == 1..Cardinality(D)
<1>1. DOMAIN t = Z /\ \A n \in Z : t[n] = AtPlace(B, D, n)
  BY DEF Arranged
<1>2. \A n \in Z : t[n] \in D /\ PlaceUnder(B, D, t[n]) = n
  BY <1>1, AtPlaceIs
<1>3. \A n, m \in Z : t[n] = t[m] => n = m
  BY <1>2
<1>4. ASSUME NEW n \in Z, NEW m \in Z, n < m PROVE <<t[n], t[m]>> \in B
  <2>1. n \in Int /\ m \in Int /\ n # m
    BY <1>4
  <2>2. t[n] \in D /\ t[m] \in D /\ t[n] # t[m]
    BY <1>2, <1>3, <2>1
  <2>3. <<t[n], t[m]>> \in B \/ <<t[m], t[n]>> \in B
    BY <2>2 DEF StrictOrder
  <2>4. <<t[m], t[n]>> \in B => PlaceUnder(B, D, t[m]) < PlaceUnder(B, D, t[n])
    BY <2>2, PlaceGrows
  <2>5. PlaceUnder(B, D, t[m]) = m /\ PlaceUnder(B, D, t[n]) = n
    BY <1>2
  <2> QED BY <1>4, <2>1, <2>3, <2>4, <2>5
<1>5. Z = 1..Cardinality(D)
  OBVIOUS
<1> HIDE DEF Z
<1>6. \A n, m \in Z : n < m => <<t[n], t[m]>> \in B
  BY <1>4
<1> QED BY <1>1, <1>2, <1>3, <1>5, <1>6

\* so it is with those that have the larger amount first
LEMMA DescendingOnce ==
    ASSUME NEW D, IsFiniteSet(D), NEW amount \in [D -> Nat], NEW tie \in [D -> Nat], \A x, y \in D : tie[x] = tie[y] => x = y,
           NEW t, t = Descending(amount, tie)
    PROVE  t \in Seq(D) /\ Range(t) = D /\ \A n, m \in DOMAIN t : t[n] = t[m] => n = m
<1> DEFINE B == LargerThan(amount, tie)
<1>1. t = Arranged(D, B)
  BY DEF Descending
<1>2. \A i, j \in D : <<i, j>> \in B <=> amount[i] > amount[j] \/ (amount[i] = amount[j] /\ tie[i] < tie[j])
  BY DEF LargerThan
<1> HIDE DEF B
<1>3. \A i \in D : amount[i] \in Nat /\ tie[i] \in Nat
  OBVIOUS
<1>4. StrictOrder(B, D)
  <2>1. \A i \in D : <<i, i>> \notin B
    BY <1>2, <1>3
  <2>2. \A i, j \in D : i # j => <<i, j>> \in B \/ <<j, i>> \in B
    BY <1>2, <1>3
  <2>3. \A i, j, k \in D : <<i, j>> \in B /\ <<j, k>> \in B => <<i, k>> \in B
    BY <1>2, <1>3
  <2> QED BY <2>1, <2>2, <2>3 DEF StrictOrder
<1>5. t \in Seq(D) /\ Range(t) = D
  BY <1>1, <1>4, ArrangedIs
<1>6. \A n, m \in DOMAIN t : t[n] = t[m] => n = m
  BY <1>1, <1>4, ArrangedOnce
<1> QED BY <1>5, <1>6

\* a series of a chart: a value for each bucket, or none
Line == [1..Buckets -> Amounts]

LEMMA LineIs ==
    ASSUME NEW map \in Charts
    PROVE  /\ map \in Seq(Line) /\ IsFiniteSet(DOMAIN map) /\ DOMAIN map \subseteq Nat
           /\ \A id \in DOMAIN map : map[id] \in Line /\ Amount(map[id]) \in Nat
<1>1. map \in Seq(Line)
  BY ChartShape DEF Line, Amounts
<1> DEFINE L == Line
<1>2. map \in Seq(L)
  BY <1>1
<1> HIDE DEF L
<1>3. Len(map) \in Nat /\ DOMAIN map = 1..Len(map) /\ \A id \in DOMAIN map : map[id] \in L
  BY <1>2
<1>4. IsFiniteSet(1..Len(map)) /\ 1..Len(map) \subseteq Nat /\ IsFiniteSet(1..Buckets)
  <2>1. 1 \in Int /\ Len(map) \in Int /\ Buckets \in Int
    BY <1>3, ChartShape
  <2> QED BY <1>3, <2>1, FS_Interval
<1>5. \A id \in DOMAIN map : Amount(map[id]) \in Nat
  BY <1>3, <1>4, AmountFills DEF L, Line
<1> QED BY <1>1, <1>3, <1>4, <1>5 DEF L

\* the series of a chart, the largest first: each one that has a total, once
LEMMA LargestOnce ==
    ASSUME NEW map \in Charts, NEW keep, keep = LargestFirst(map)
    PROVE  /\ keep \in Seq(Counted(map)) /\ Range(keep) = Counted(map) /\ IsFiniteSet(Counted(map))
           /\ \A n, m \in DOMAIN keep : keep[n] = keep[m] => n = m
<1> DEFINE ids == Counted(map)
           amount == [id \in ids |-> Amount(map[id])]
           tie == [id \in ids |-> id]
<1>1. keep = Descending(amount, tie)
  BY DEF LargestFirst
<1>2. IsFiniteSet(ids) /\ amount \in [ids -> Nat] /\ tie \in [ids -> Nat] /\ \A x, y \in ids : tie[x] = tie[y] => x = y
  <2>1. ids \in SUBSET DOMAIN map
    BY DEF Counted
  <2> HIDE DEF ids
  <2>2. IsFiniteSet(ids) /\ ids \subseteq Nat /\ \A i \in ids : Amount(map[i]) \in Nat
    BY <2>1, LineIs, FS_Subset
  <2> QED BY <2>2
<1> HIDE DEF ids, amount, tie
<1>3. keep \in Seq(ids) /\ Range(keep) = ids /\ \A n, m \in DOMAIN keep : keep[n] = keep[m] => n = m
  BY <1>1, <1>2, DescendingOnce
<1> QED BY <1>2, <1>3 DEF ids

\* the others at one bucket
LEMMA RestIs ==
    ASSUME NEW map \in Charts, NEW rest \in SUBSET DOMAIN map, NEW i \in 1..Buckets
    PROVE  /\ [id \in rest |-> map[id][i]] \in [rest -> Amounts] /\ IsFiniteSet(rest)
           /\ Sum([id \in rest |-> map[id][i]]) \in Amounts
<1>1. IsFiniteSet(rest) /\ \A id \in rest : map[id] \in Line
  BY LineIs, FS_Subset
<1>2. \A id \in rest : map[id][i] \in Amounts
  BY <1>1 DEF Line
<1> DEFINE v == [id \in rest |-> map[id][i]]
<1>3. v \in [rest -> Amounts]
  BY <1>2
<1> HIDE DEF v
<1>4. Sum(v) \in Amounts
  BY <1>1, <1>3, AmountFills
<1> QED BY <1>1, <1>3, <1>4 DEF v

\* the stack that is drawn: the largest series, and all the others as one
Others(keep) == {keep[n] : n \in (OverSeries + 1)..Len(keep)}
Stacked(list, map, keep) ==
    /\ Len(keep) <= OverSeries => list = [n \in 1..Len(keep) |-> map[keep[n]]]
    /\ Len(keep) > OverSeries =>
          /\ Len(list) = OverSeries + 1 /\ \A n \in 1..OverSeries : list[n] = map[keep[n]]
          /\ list[OverSeries + 1] = [i \in 1..Buckets |-> Sum([id \in Others(keep) |-> map[id][i]])]

\* splitSeries draws it
LEMMA StackIs ==
    ASSUME NEW map \in Charts, NEW keep, keep = LargestFirst(map), NEW list, list = SplitSeries(map)
    PROVE  list \in Seq(Line) /\ Stacked(list, map, keep)
<1> DEFINE rest == Others(keep)
           other == [i \in 1..Buckets |-> Sum([id \in rest |-> map[id][i]])]
           top == Top(map, keep)
<1>1. list = IF rest = {} THEN top ELSE Append(top, other)
  BY DEF SplitSeries, Others
<1>2. Len(keep) \in Nat /\ DOMAIN keep = 1..Len(keep) /\ \A n \in 1..Len(keep) : keep[n] \in DOMAIN map
  <2> DEFINE C == Counted(map)
  <2>1. keep \in Seq(C) /\ C \in SUBSET DOMAIN map
    BY LargestOnce DEF Counted
  <2> HIDE DEF C
  <2> QED BY <2>1
<1>3. OverSeries \in Nat /\ OverSeries # 0
  BY ChartShape
<1>4. rest \in SUBSET DOMAIN map /\ (rest = {} <=> Len(keep) <= OverSeries)
  <2>1. ASSUME NEW n \in (OverSeries + 1)..Len(keep) PROVE n \in 1..Len(keep)
    BY <1>2, <1>3
  <2>2. rest = {} => Len(keep) <= OverSeries
    <3>1. ~(Len(keep) <= OverSeries) => Len(keep) \in (OverSeries + 1)..Len(keep)
      BY <1>2, <1>3
    <3> QED BY <3>1 DEF Others
  <2>3. Len(keep) <= OverSeries => (OverSeries + 1)..Len(keep) = {}
    BY <1>2, <1>3
  <2> QED BY <1>2, <2>1, <2>2, <2>3 DEF Others
<1>5. other \in Line
  <2>1. \A i \in 1..Buckets : Sum([id \in rest |-> map[id][i]]) \in Amounts
    <3> HIDE DEF rest
    <3> QED BY <1>4, RestIs
  <2> QED BY <2>1 DEF Line
<1> DEFINE m == Min({OverSeries, Len(keep)})
<1>6. m = (IF OverSeries <= Len(keep) THEN OverSeries ELSE Len(keep)) /\ m \in Nat /\ m <= Len(keep)
  <2>1. m = IF OverSeries <= Len(keep) THEN OverSeries ELSE Len(keep)
    BY <1>2, <1>3, SmallerIs
  <2> DEFINE k == Len(keep)
  <2>2. k \in Nat /\ m = IF OverSeries <= k THEN OverSeries ELSE k
    BY <1>2, <2>1
  <2> HIDE DEF m, k
  <2>3. m \in Nat /\ m <= k
    BY <1>3, <2>2
  <2> QED BY <2>2, <2>3 DEF k
<1>7. top = [n \in 1..m |-> map[keep[n]]]
  BY DEF Top
<1>8. top \in Seq(Line) /\ Len(top) = m
  <2>1. \A n \in 1..m : top[n] \in Line
    <3> SUFFICES ASSUME NEW n \in 1..m PROVE map[keep[n]] \in Line
      BY <1>7
    <3> DEFINE k == Len(keep)
    <3>0. k \in Nat /\ m \in Nat /\ m <= k
      BY <1>2, <1>6
    <3> HIDE DEF m, k
    <3>2. n \in 1..k
      BY <3>0
    <3>1. n \in 1..Len(keep)
      BY <3>2 DEF k
    <3> QED BY <1>2, <3>1, LineIs
  <2>2. top = [n \in 1..m |-> top[n]]
    BY <1>7
  <2> HIDE DEF top, m
  <2> QED BY <1>6, <2>1, <2>2, SeqBuilt
<1> DEFINE L == Line
<1>9. top \in Seq(L) /\ other \in L /\ \A n \in 1..m : top[n] = map[keep[n]]
  BY <1>5, <1>7, <1>8
<1> DEFINE stack == Append(top, other)
<1>10. stack \in Seq(L) /\ Len(stack) = m + 1 /\ (\A n \in 1..m : stack[n] = map[keep[n]]) /\ stack[m+1] = other
  <2> HIDE DEF top, other, L, m
  <2> QED BY <1>6, <1>8, <1>9
<1>11. CASE Len(keep) <= OverSeries
  <2>1. m = Len(keep) /\ ~(Len(keep) > OverSeries)
    BY <1>2, <1>3, <1>6, <1>11
  <2>2. list = top
    BY <1>1, <1>4, <1>11
  <2> HIDE DEF top, m
  <2> QED BY <1>7, <1>8, <1>11, <2>1, <2>2 DEF Stacked
<1>12. CASE Len(keep) > OverSeries
  <2>1. m = OverSeries /\ ~(Len(keep) <= OverSeries)
    BY <1>2, <1>3, <1>6, <1>12
  <2>2. list = stack
    <3> HIDE DEF top, other, rest
    <3> QED BY <1>1, <1>4, <2>1
  <2>3. /\ list \in Seq(Line) /\ Len(list) = OverSeries + 1
        /\ (\A n \in 1..OverSeries : list[n] = map[keep[n]]) /\ list[OverSeries + 1] = other
    <3> HIDE DEF m, stack, other
    <3> QED BY <1>10, <2>1, <2>2
  <2> QED BY <1>12, <2>1, <2>3 DEF Stacked
<1> QED BY <1>2, <1>3, <1>11, <1>12

\* and at each bucket it is as high as all the series that have a total
LEMMA SplitKeepsAll ==
    ASSUME series \in Charts, NEW list, list = SplitSeries(series)
    PROVE  SplitKeeps(list)
<1> DEFINE keep == LargestFirst(series) ids == Counted(series)
           rest == Others(keep)
<1> SUFFICES ASSUME NEW i \in 1..Buckets
             PROVE  Sum([j \in DOMAIN list |-> list[j][i]]) = Sum([id \in ids |-> series[id][i]])
  BY DEF SplitKeeps, BucketTotals
<1>1. /\ keep \in Seq(ids) /\ Range(keep) = ids /\ IsFiniteSet(ids) /\ ids \in SUBSET DOMAIN series
      /\ \A n, m \in DOMAIN keep : keep[n] = keep[m] => n = m
  BY LargestOnce DEF Counted
<1>2. /\ list \in Seq(Line)
      /\ Len(keep) <= OverSeries => list = [n \in 1..Len(keep) |-> series[keep[n]]]
      /\ Len(keep) > OverSeries =>
            /\ Len(list) = OverSeries + 1 /\ \A n \in 1..OverSeries : list[n] = series[keep[n]]
            /\ list[OverSeries + 1] = [k \in 1..Buckets |-> Sum([id \in rest |-> series[id][k]])]
  <2>1. list \in Seq(Line) /\ Stacked(list, series, keep)
    BY StackIs
  <2> HIDE DEF keep
  <2> QED BY <2>1 DEF Stacked
<1>3. OverSeries \in Nat /\ OverSeries # 0
  BY ChartShape
<1> DEFINE vals == [id \in ids |-> series[id][i]] g == [j \in DOMAIN list |-> list[j][i]] via == [n \in DOMAIN keep |-> keep[n]]
<1>4. vals \in [ids -> Amounts] /\ \A id \in ids : vals[id] = series[id][i]
  BY <1>1, RestIs
<1>5. IsFiniteSet(DOMAIN list) /\ g \in [DOMAIN list -> Amounts] /\ DOMAIN list = 1..Len(list) /\ Len(list) \in Nat
  <2> DEFINE L == Line
  <2>1. list \in Seq(L)
    BY <1>2
  <2> HIDE DEF L
  <2>2. Len(list) \in Nat /\ DOMAIN list = 1..Len(list) /\ \A j \in 1..Len(list) : list[j] \in L
    BY <2>1
  <2>3. IsFiniteSet(1..Len(list))
    <3>1. 1 \in Int /\ Len(list) \in Int
      BY <2>2
    <3> QED BY <3>1, FS_Interval
  <2>4. \A j \in DOMAIN list : list[j][i] \in Amounts
    BY <2>2 DEF L, Line
  <2> QED BY <2>2, <2>3, <2>4
<1>6. /\ Len(keep) \in Nat /\ DOMAIN keep = 1..Len(keep) /\ (\A n \in 1..Len(keep) : keep[n] \in ids)
      /\ \A id \in ids : \E n \in 1..Len(keep) : keep[n] = id
  <2> DEFINE C == ids
  <2>1. keep \in Seq(C) /\ Range(keep) = C
    BY <1>1
  <2> HIDE DEF C, keep
  <2>2. Len(keep) \in Nat /\ DOMAIN keep = 1..Len(keep) /\ \A n \in 1..Len(keep) : keep[n] \in C
    BY <2>1
  <2>3. \A id \in C : \E n \in DOMAIN keep : keep[n] = id
    BY <2>1 DEF Range
  <2> QED BY <2>2, <2>3 DEF C
<1>7. CASE Len(keep) <= OverSeries
  <2>1. DOMAIN list = 1..Len(keep) /\ \A n \in 1..Len(keep) : list[n] = series[keep[n]]
    BY <1>2, <1>7
  <2> HIDE DEF keep, ids, vals
  <2>2. \A n \in DOMAIN list : g[n] = vals[keep[n]]
    BY <1>4, <1>6, <2>1
  <2> HIDE DEF g
  <2> DEFINE D == DOMAIN list
  <2>3. IsFiniteSet(D) /\ Names(keep, D, ids)
    BY <1>1, <1>5, <1>6, <2>1 DEF Names
  <2>4. g \in [D -> Amounts] /\ \A n \in D : g[n] = vals[keep[n]]
    BY <1>5, <2>2
  <2>5. IsFiniteSet(ids) /\ vals \in [ids -> Amounts]
    BY <1>1, <1>4
  <2> HIDE DEF D
  <2>6. Sum(g) = Sum(vals)
    BY ONLY <2>3, <2>4, <2>5, SumRenamed
  <2> QED BY <2>6 DEF g, vals
<1>8. CASE Len(keep) > OverSeries
  <2> DEFINE D == 1..OverSeries A == {keep[n] : n \in D} o == OverSeries + 1
  <2>1. /\ Len(list) = o /\ (\A n \in D : list[n] = series[keep[n]])
        /\ list[o] = [k \in 1..Buckets |-> Sum([id \in rest |-> series[id][k]])]
    BY <1>2, <1>8
  <2>2. DOMAIN list = D \cup {o} /\ o \notin D
    BY <1>3, <1>5, <2>1
  <2>3. IsFiniteSet(D)
    <3>1. 1 \in Int /\ OverSeries \in Int
      BY <1>3
    <3> QED BY <3>1, FS_Interval
  <2>4. D \in SUBSET (1..Len(keep)) /\ (OverSeries + 1)..Len(keep) \in SUBSET (1..Len(keep))
        /\ 1..Len(keep) = D \cup ((OverSeries + 1)..Len(keep)) /\ D \cap ((OverSeries + 1)..Len(keep)) = {}
    BY <1>3, <1>6, <1>8
  <2> HIDE DEF keep, ids
  <2> DEFINE late == (OverSeries + 1)..Len(keep)
  <2>5. rest = {keep[n] : n \in late} /\ late \in SUBSET (1..Len(keep)) /\ 1..Len(keep) = D \cup late /\ D \cap late = {}
        /\ D \in SUBSET (1..Len(keep))
    BY <2>4 DEF Others
  <2> HIDE DEF late, D, o, rest
  <2>6. A \cup rest = ids /\ A \cap rest = {} /\ A \in SUBSET ids /\ rest \in SUBSET ids
    <3>1. \A id \in ids : id \in A \/ id \in rest
      BY <1>6, <2>5
    <3>2. A \in SUBSET ids /\ rest \in SUBSET ids
      BY <1>6, <2>5
    <3>3. A \cap rest = {}
      BY <1>1, <1>6, <2>5
    <3> QED BY <3>1, <3>2, <3>3
  <2>7. IsFiniteSet(A) /\ IsFiniteSet(rest)
    BY <1>1, <2>6, FS_Subset
  <2>8. Names(keep, D, A)
    BY <1>1, <1>6, <2>5 DEF Names
  <2>9. vals \in [A \cup rest -> Amounts] /\ g \in [D \cup {o} -> Amounts]
    BY <1>4, <1>5, <2>2, <2>6
  <2>10. \A n \in D : g[n] = vals[keep[n]]
    <3> SUFFICES ASSUME NEW n \in D PROVE g[n] = vals[keep[n]]
      OBVIOUS
    <3>1. n \in DOMAIN list /\ keep[n] \in ids /\ list[n] = series[keep[n]]
      BY <1>6, <2>1, <2>2, <2>5
    <3> QED BY <3>1
  <2>11. g[o] = Sum([x \in rest |-> vals[x]])
    <3>1. o \in DOMAIN list /\ g[o] = list[o][i]
      BY <2>2
    <3>2. list[o][i] = Sum([id \in rest |-> series[id][i]])
      BY <2>1
    <3>3. [x \in rest |-> vals[x]] = [id \in rest |-> series[id][i]]
      BY <2>6
    <3> QED BY <3>1, <3>2, <3>3
  <2>12. o \notin D /\ IsFiniteSet(D) /\ A \cap rest = {}
    BY <2>2, <2>3, <2>6
  <2> HIDE DEF A, vals, g
  <2>15. RestAsOne(vals, A, rest, g, D, o, keep)
    BY <2>7, <2>8, <2>9, <2>10, <2>11, <2>12 DEF RestAsOne
  <2>13. Sum(g) = Sum(vals)
    BY <2>15, SumWithRest
  <2> QED BY <2>13 DEF g, vals
<1> QED BY <1>3, <1>6, <1>7, <1>8

\* rows and columns have one sum: the legend's figures are that of the buckets they are over
LEMMA LegendOfStack ==
    ASSUME NEW list \in Seq(Line) PROVE LegendAddsUp(list)
<1> DEFINE D == DOMAIN list Z == 1..Buckets
           F == [j \in D |-> [i \in Z |-> IF On(i) /\ list[j][i] # NoData THEN list[j][i] ELSE 0]]
           row(j) == [i \in Z |-> IF On(i) THEN list[j][i] ELSE NoData]
           col(i) == [j \in D |-> list[j][i]]
           legend == [j \in D |-> Sum(row(j))]
           shown == [i \in Z |-> IF On(i) THEN Sum(col(i)) ELSE NoData]
<1>0. IsFiniteSet(D) /\ IsFiniteSet(Z) /\ \A j \in D : \A i \in Z : list[j][i] \in Amounts
  <2> DEFINE L == Line
  <2>1. list \in Seq(L)
    OBVIOUS
  <2> HIDE DEF L
  <2>2. Len(list) \in Nat /\ D = 1..Len(list) /\ \A j \in D : list[j] \in L
    BY <2>1
  <2>3. IsFiniteSet(1..Len(list)) /\ IsFiniteSet(1..Buckets)
    <3>1. 1 \in Int /\ Len(list) \in Int /\ Buckets \in Int
      BY <2>2, ChartShape
    <3> QED BY <3>1, FS_Interval
  <2> QED BY <2>2, <2>3 DEF L, Line
<1>1. NoData \notin Nat
  BY ChartShape
<1>2. Legend(list) = legend
  <2>1. \A j \in D : Sum([i \in Z |-> IF [k \in Z |-> On(k)][i] THEN list[j][i] ELSE NoData]) = Sum(row(j))
    <3> SUFFICES ASSUME NEW j \in D
                 PROVE [i \in Z |-> IF [k \in Z |-> On(k)][i] THEN list[j][i] ELSE NoData] = row(j)
      OBVIOUS
    <3> QED OBVIOUS
  <2> QED BY <2>1 DEF Legend
<1>3. \A i \in Z : BucketTotals(list)[i] = Sum(col(i))
  BY DEF BucketTotals
<1>4. [i \in Z |-> IF On(i) THEN BucketTotals(list)[i] ELSE NoData] = shown
  BY <1>3
<1>5. \A j \in D : \A i \in Z : F[j][i] \in Nat
  BY <1>0 DEF Amounts
<1>6. ASSUME NEW j \in D
      PROVE  row(j) \in [Z -> Amounts] /\ Sum(row(j)) \in Amounts
             /\ (IF Sum(row(j)) = NoData THEN 0 ELSE Sum(row(j))) = SumFunctionOnSet([i \in Z |-> F[j][i]], Z)
  <2> DEFINE r == row(j)
  <2>1. r \in [Z -> Amounts]
    BY <1>0 DEF Amounts
  <2>2. Filled(r) = [i \in Z |-> F[j][i]]
    BY DEF Filled
  <2> HIDE DEF r, Z, F
  <2>3. Sum(r) \in Amounts /\ Amount(r) = SumFunctionOnSet(Filled(r), Z) /\ (IF Sum(r) = NoData THEN 0 ELSE Sum(r)) = Amount(r)
    BY <1>0, <2>1, AmountFills
  <2>4. (IF Sum(r) = NoData THEN 0 ELSE Sum(r)) = SumFunctionOnSet([i \in Z |-> F[j][i]], Z)
    BY <2>2, <2>3
  <2> QED BY <2>1, <2>3, <2>4 DEF r
<1>7. ASSUME NEW i \in Z
      PROVE  /\ shown[i] \in Amounts
             /\ (IF shown[i] = NoData THEN 0 ELSE shown[i]) = SumFunctionOnSet([j \in D |-> F[j][i]], D)
  <2> DEFINE c == col(i) f == [j \in D |-> F[j][i]]
  <2>1. c \in [D -> Amounts]
    BY <1>0
  <2>2. CASE On(i)
    <3>1. Filled(c) = f
      BY <2>2 DEF Filled
    <3>2. shown[i] = Sum(c)
      BY <2>2
    <3> HIDE DEF c, f, shown, D
    <3>3. Sum(c) \in Amounts /\ Amount(c) = SumFunctionOnSet(Filled(c), D) /\ (IF Sum(c) = NoData THEN 0 ELSE Sum(c)) = Amount(c)
      BY <1>0, <2>1, AmountFills
    <3>4. shown[i] \in Amounts /\ (IF shown[i] = NoData THEN 0 ELSE shown[i]) = SumFunctionOnSet(f, D)
      BY <3>1, <3>2, <3>3
    <3> QED BY <3>4 DEF f
  <2>3. CASE ~On(i)
    <3>1. shown[i] = NoData /\ \A j \in D : f[j] = 0
      BY <2>3
    <3> HIDE DEF f, shown, D
    <3>2. {} \in SUBSET D /\ (\A j \in D : f[j] \in Nat) /\ \A j \in D \ {} : f[j] = 0
      BY <3>1
    <3>3. SumFunctionOnSet(f, D) = SumFunctionOnSet(f, {})
      BY <1>0, <3>2, SumSkips
    <3>4. SumFunctionOnSet(f, D) = 0
      BY <3>3, SumOfNone
    <3>5. shown[i] \in Amounts /\ (IF shown[i] = NoData THEN 0 ELSE shown[i]) = SumFunctionOnSet(f, D)
      BY <3>1, <3>4 DEF Amounts
    <3> QED BY <3>5 DEF f
  <2> QED BY <2>2, <2>3
<1> DEFINE rows == [j \in D |-> SumFunctionOnSet([i \in Z |-> F[j][i]], Z)]
           cols == [i \in Z |-> SumFunctionOnSet([j \in D |-> F[j][i]], D)]
<1>8. SumFunctionOnSet(rows, D) = SumFunctionOnSet(cols, Z)
  <2> HIDE DEF D, Z, F
  <2> QED BY <1>0, <1>5, SumSwaps
<1>9. Filled(legend) = rows /\ legend \in [D -> Amounts]
  <2> HIDE DEF row, F, Z
  <2>1. \A j \in D : Filled(legend)[j] = rows[j] /\ legend[j] \in Amounts
    BY <1>6 DEF Filled
  <2> QED BY <2>1 DEF Filled
<1>10. Filled(shown) = cols /\ shown \in [Z -> Amounts]
  <2>1. shown = [i \in Z |-> shown[i]]
    OBVIOUS
  <2> HIDE DEF shown, F, D
  <2>2. \A i \in Z : Filled(shown)[i] = cols[i] /\ shown[i] \in Amounts
    BY <1>7, <2>1 DEF Filled
  <2> QED BY <2>1, <2>2 DEF Filled
<1> HIDE DEF legend, shown, rows, cols, D, Z
<1>11. Amount(legend) = SumFunctionOnSet(rows, D)
  BY <1>0, <1>9, AmountFills
<1>12. Amount(shown) = SumFunctionOnSet(cols, Z)
  BY <1>0, <1>10, AmountFills
<1>13. Amount(Legend(list)) = Amount([i \in Z |-> IF On(i) THEN BucketTotals(list)[i] ELSE NoData])
  BY <1>2, <1>4, <1>8, <1>11, <1>12
<1> QED BY <1>13 DEF LegendAddsUp, Z

\* The stack of a chart is as high at each bucket as all its series together, those that join in one
\* "Other" included (splitSeries), and its legend adds up to what is drawn in the marked or selected time.
THEOREM ChartsAddUp == ChartSpec => []ChartsHold
<1>1. ChartTypeOK => ChartsHold
  <2> SUFFICES ASSUME ChartTypeOK PROVE ChartsHold
    OBVIOUS
  <2> DEFINE list == SplitSeries(series)
  <2>1. series \in Charts
    BY DEF ChartTypeOK
  <2>2. SplitKeeps(list)
    BY <2>1, SplitKeepsAll
  <2>3. list \in Seq(Line)
    BY <2>1, StackIs
  <2>4. LegendAddsUp(list)
    BY <2>3, LegendOfStack
  <2> QED BY <2>2, <2>4 DEF ChartsHold
<1> QED BY <1>1, ChartTyped, PTL

(* The map of the context ----------------------------------------------------- *)

\* the values of a function on a finite set
LEMMA FiniteValues ==
    ASSUME NEW S, IsFiniteSet(S), NEW f
    PROVE  IsFiniteSet({f[x] : x \in S})
<1> DEFINE g == [x \in S |-> f[x]] R == {f[x] : x \in S}
<1>1. g \in Surjection(S, R)
  BY DEF Surjection
<1> HIDE DEF g, R
<1>2. IsFiniteSet(R)
  BY <1>1, FS_Surjection
<1> QED BY <1>2 DEF R

Weighed(rows) == IsFiniteSet(rows) /\ \A r \in rows : r.file.tokens \in Nat /\ r.file.item \in Nat

\* the tokens of some of the rows
LEMMA TokensAre ==
    ASSUME NEW rows, Weighed(rows), NEW part0 \in SUBSET rows
    PROVE  /\ TokensOf(part0) = SumFunctionOnSet([r \in rows |-> r.file.tokens], part0) /\ TokensOf(part0) \in Nat
           /\ Weighed(part0)
<1> DEFINE f == [r \in part0 |-> r.file.tokens] g == [r \in rows |-> r.file.tokens]
<1>1. IsFiniteSet(part0) /\ \A r \in part0 : f[r] \in Nat /\ g[r] = f[r]
  BY FS_Subset DEF Weighed
<1>2. TokensOf(part0) = SumFunctionOnSet(f, part0)
  BY DEF TokensOf, SumFunction
<1>3. Weighed(part0)
  BY <1>1 DEF Weighed
<1> HIDE DEF f, g
<1>4. SumFunctionOnSet(f, part0) = SumFunctionOnSet(g, part0) /\ SumFunctionOnSet(f, part0) \in Nat
  BY <1>1, SumSame, SumNatural
<1> QED BY <1>2, <1>3, <1>4 DEF g

\* counted once in each class, whatever the classes
LEMMA TokensByClass ==
    ASSUME NEW rows, Weighed(rows), NEW C, IsFiniteSet(C), NEW k, \A r \in rows : k[r] \in C,
           NEW by, by = [c \in C |-> TokensOf({r \in rows : k[r] = c})]
    PROVE  SumFunction(by) = TokensOf(rows)
<1> DEFINE f == [r \in rows |-> r.file.tokens]
           g == [c \in C |-> SumFunctionOnSet(f, {r \in rows : k[r] = c})]
<1>1. IsFiniteSet(rows) /\ \A r \in rows : f[r] \in Nat
  BY DEF Weighed
<1>2. \A c \in C : TokensOf({r \in rows : k[r] = c}) = SumFunctionOnSet(f, {r \in rows : k[r] = c})
  BY TokensAre
<1>3. TokensOf(rows) = SumFunctionOnSet(f, rows)
  BY TokensAre
<1> HIDE DEF f
<1>4. SumFunctionOnSet([c \in C |-> SumFunctionOnSet(f, {r \in rows : k[r] = c})], C) = SumFunctionOnSet(f, rows)
  BY <1>1, SumByClass
<1>5. by = g
  BY <1>2
<1>6. SumFunction(by) = SumFunctionOnSet(g, C)
  BY <1>5 DEF SumFunction
<1> QED BY <1>3, <1>4, <1>6

\* the tools that the filter lets pass
LEMMA PassIs ==
    ASSUME ScopeSound, NEW pass, pass = FilteredSnap.tools
    PROVE  /\ pass \subseteq snap.tools /\ IsFiniteSet(pass)
           /\ \A t \in pass : t.tool \in Verified \cup {Aictl} /\ IsSelected(t.tool, ticked)
           /\ \A t, u \in pass : t.tool = u.tool => t = u
           /\ \A t \in pass : t.sessions \in Nat /\ t.pids \in Nat /\ IsFiniteSet(t.procs) /\ Cardinality(t.procs) \in Nat
<1>1. pass = {t \in snap.tools :
                t.tool \in Verified \cup {Aictl} /\ IsSelected(t.tool, ticked) /\ (search = NoMatch \/ t.tool \in search)}
  <2> DEFINE kept == FilteredSnap
  <2>1. kept = FilteredSnap /\ pass = kept.tools
    OBVIOUS
  <2> HIDE DEF kept
  <2> QED BY <2>1, KeptIs
<1>2. /\ IsFiniteSet(snap.tools) /\ \A t, u \in snap.tools : t.tool = u.tool => t = u
      /\ \A t \in snap.tools : t.sessions \in Nat /\ t.pids \in Nat /\ IsFiniteSet(t.procs)
  BY SnapshotRows DEF ScopeSound
<1>3. pass \in SUBSET snap.tools
  BY <1>1
<1>4. IsFiniteSet(pass)
  BY <1>2, <1>3, FS_Subset
<1> QED BY <1>1, <1>2, <1>3, <1>4, FS_CardinalityType

\* the tools on the map: those that the filter lets pass, the collector itself left out
LEMMA MapToolsAre ==
    ASSUME ScopeSound, NEW onMap, onMap = MapTools
    PROVE  /\ onMap = {t \in FilteredSnap.tools : t.tool # Aictl} /\ IsFiniteSet(onMap) /\ onMap \subseteq snap.tools
           /\ \A t, u \in onMap : t.tool = u.tool => t = u
           /\ \A t \in onMap : t.tool \in Scoped
           /\ \A t \in onMap : IsFiniteSet(t.files) /\ \A f \in t.files : f.tokens \in Nat /\ f.item \in Nat
<1> DEFINE pass == FilteredSnap.tools
<1>1. /\ pass \subseteq snap.tools /\ IsFiniteSet(pass) /\ \A t \in pass : t.tool \in Verified \cup {Aictl}
      /\ \A t, u \in pass : t.tool = u.tool => t = u
  <2>1. pass = FilteredSnap.tools
    OBVIOUS
  <2> HIDE DEF pass
  <2> QED BY <2>1, PassIs
<1>2. onMap = {t \in pass : t.tool \notin {Aictl, AnyTool}}
  BY DEF MapTools
<1> HIDE DEF pass
<1>3. AnyTool \notin Verified \cup {Aictl} /\ Aictl \in NonTool
  BY ScopeTools
<1>4. onMap = {t \in pass : t.tool # Aictl} /\ onMap \in SUBSET pass
  BY <1>1, <1>2, <1>3
<1>5. IsFiniteSet(onMap)
  BY <1>1, <1>4, FS_Subset
<1>6. \A t \in snap.tools : IsFiniteSet(t.files) /\ \A f \in t.files : f.tokens \in Nat /\ f.item \in Nat
  BY ToolRows DEF ScopeSound
<1> QED BY <1>1, <1>3, <1>4, <1>5, <1>6 DEF pass, Scoped

FilesOf(t) == {[file |-> f, tool |-> t.tool] : f \in t.files}

\* the files on the map are those of its tools
LEMMA MapFilesAre ==
    ASSUME ScopeSound
    PROVE  /\ Weighed(MapFiles) /\ \A r \in MapFiles : \E t \in MapTools : r \in FilesOf(t)
           /\ \A t \in MapTools : FilesOf(t) \subseteq MapFiles /\ IsFiniteSet(FilesOf(t))
<1> DEFINE onMap == MapTools all == {FilesOf(t) : t \in onMap}
<1>1. /\ IsFiniteSet(onMap)
      /\ \A t \in onMap : IsFiniteSet(t.files) /\ \A f \in t.files : f.tokens \in Nat /\ f.item \in Nat
  <2>1. onMap = MapTools
    OBVIOUS
  <2> HIDE DEF onMap
  <2> QED BY <2>1, MapToolsAre
<1>2. MapFiles = UNION all
  BY DEF MapFiles, FilesOf
<1> HIDE DEF onMap
<1>3. ASSUME NEW t \in onMap PROVE IsFiniteSet(FilesOf(t)) /\ FilesOf(t) \subseteq UNION all
  <2> DEFINE g == [f \in t.files |-> [file |-> f, tool |-> t.tool]] F == t.files
  <2>1. IsFiniteSet(F)
    BY <1>1
  <2>2. FilesOf(t) = {g[f] : f \in F}
    BY DEF FilesOf
  <2> HIDE DEF g, F
  <2>3. IsFiniteSet({g[f] : f \in F})
    BY <2>1, FiniteValues
  <2> QED BY <2>2, <2>3
<1>4. IsFiniteSet(all)
  <2> DEFINE g == [t \in onMap |-> FilesOf(t)]
  <2>1. all = {g[t] : t \in onMap}
    OBVIOUS
  <2> HIDE DEF g, all
  <2>2. IsFiniteSet({g[t] : t \in onMap})
    BY <1>1, FiniteValues
  <2> QED BY <2>1, <2>2
<1>5. \A s \in all : IsFiniteSet(s)
  BY <1>3
<1>6. \A r \in UNION all : \E t \in onMap : r \in FilesOf(t)
  OBVIOUS
<1>7. \A r \in UNION all : r.file.tokens \in Nat /\ r.file.item \in Nat
  BY <1>1 DEF FilesOf
<1> HIDE DEF all
<1>8. IsFiniteSet(UNION all)
  BY <1>4, <1>5, FS_UNION
<1> QED BY <1>2, <1>3, <1>6, <1>7, <1>8 DEF Weighed, onMap

\* by policy, by kind, by project and by scope the map counts each token once
LEMMA PoliciesAddUp == ASSUME ScopeSound PROVE SumFunction(ByPolicy) = TokensOf(MapFiles)
<1> DEFINE M == MapFiles k == [r \in M |-> PolicyOf(r.file)] C == Policies by == ByPolicy
<1>1. Weighed(M)
  BY MapFilesAre
<1>2. \A r \in M : k[r] \in C
  BY ScreenBounds DEF PolicyOf
<1>3. by = [c \in C |-> TokensOf({r \in M : k[r] = c})]
  <2>1. \A c \in C : {r \in M : k[r] = c} = {r \in M : PolicyOf(r.file) = c}
    OBVIOUS
  <2>2. by = [c \in C |-> TokensOf({r \in M : PolicyOf(r.file) = c})]
    BY DEF ByPolicy
  <2> HIDE DEF M, k, by
  <2> QED BY <2>1, <2>2
<1>4. IsFiniteSet(C)
  BY ScreenBounds
<1> HIDE DEF M, k, C, by
<1>5. SumFunction(by) = TokensOf(M)
  BY <1>1, <1>2, <1>3, <1>4, TokensByClass
<1> QED BY <1>5 DEF M, by

LEMMA KindsAddUp ==
    ASSUME ScopeSound
    PROVE  SumFunction([k \in Kinds(MapFiles) |-> TokensOf(OfKind(MapFiles, k))]) = TokensOf(MapFiles)
<1> DEFINE M == MapFiles k == [r \in M |-> r.file.kind] C == Kinds(M)
           by == [c \in C |-> TokensOf(OfKind(M, c))]
<1>1. Weighed(M)
  BY MapFilesAre
<1>2. (\A r \in M : k[r] \in C) /\ C = {k[r] : r \in M}
  BY DEF Kinds
<1>3. by = [c \in C |-> TokensOf({r \in M : k[r] = c})]
  <2>1. \A c : {r \in M : k[r] = c} = OfKind(M, c)
    BY DEF OfKind
  <2> HIDE DEF M, k, C
  <2> QED BY <2>1
<1> HIDE DEF M, k, C, by
<1>4. IsFiniteSet(C)
  BY <1>1, <1>2, FiniteValues DEF Weighed
<1>5. SumFunction(by) = TokensOf(M)
  BY <1>1, <1>2, <1>3, <1>4, TokensByClass
<1> QED BY <1>5 DEF M, by, C

LEMMA ProjectsAddUp ==
    ASSUME ScopeSound
    PROVE  SumFunction([p \in Projects |-> TokensOf(OfProject(MapFiles, p))]) = TokensOf(MapFiles)
<1> DEFINE M == MapFiles k == [r \in M |-> r.file.project] C == Projects
           by == [c \in C |-> TokensOf(OfProject(M, c))]
<1>1. Weighed(M)
  BY MapFilesAre
<1>2. (\A r \in M : k[r] \in C) /\ C = {k[r] : r \in M}
  BY DEF Projects
<1>3. by = [c \in C |-> TokensOf({r \in M : k[r] = c})]
  <2>1. \A c : {r \in M : k[r] = c} = OfProject(M, c)
    BY DEF OfProject
  <2> HIDE DEF M, k, C
  <2> QED BY <2>1
<1> HIDE DEF M, k, C, by
<1>4. IsFiniteSet(C)
  BY <1>1, <1>2, FiniteValues DEF Weighed
<1>5. SumFunction(by) = TokensOf(M)
  BY <1>1, <1>2, <1>3, <1>4, TokensByClass
<1> QED BY <1>5 DEF M, by, C

\* the scopes that are listed, and what is left out
LEMMA ScopesAddUp ==
    ASSUME ScopeSound
    PROVE  SumFunction(ByScope) + TokensOf({r \in MapFiles : r.file.scope \notin ScopeOrder}) = TokensOf(MapFiles)
<1> DEFINE M == MapFiles by == ByScope all == {r.file.scope : r \in M} C == ScopeOrder \cap all
           in == {r \in M : r.file.scope \in ScopeOrder} out == {r \in M : r.file.scope \notin ScopeOrder}
           k == [r \in in |-> r.file.scope] f == [r \in M |-> r.file.tokens]
<1>1. Weighed(M)
  BY MapFilesAre
<1>2. \A r \in in : k[r] \in C
  OBVIOUS
<1>3. by = [c \in C |-> TokensOf({r \in in : k[r] = c})]
  <2>1. \A c \in C : {r \in in : k[r] = c} = {r \in M : r.file.scope = c}
    OBVIOUS
  <2>2. by = [c \in C |-> TokensOf({r \in M : r.file.scope = c})]
    BY DEF ByScope
  <2> HIDE DEF M, k, by, in, C
  <2> QED BY <2>1, <2>2
<1>4. in \in SUBSET M /\ out \in SUBSET M /\ in \cap out = {} /\ in \cup out = M
  OBVIOUS
<1>5. IsFiniteSet(C)
  <2> DEFINE g == [r \in M |-> r.file.scope]
  <2>1. all = {g[r] : r \in M} /\ C \in SUBSET all /\ IsFiniteSet(M)
    BY <1>1 DEF Weighed
  <2> HIDE DEF g, M, C, all
  <2>2. IsFiniteSet({g[r] : r \in M})
    BY <2>1, FiniteValues
  <2> QED BY <2>1, <2>2, FS_Subset
<1>6. IsFiniteSet(M) /\ \A r \in M : f[r] \in Nat
  BY <1>1 DEF Weighed
<1>7. f = [r \in M |-> r.file.tokens]
  OBVIOUS
<1> HIDE DEF M, k, C, by, all, in, out, f
<1>8. Weighed(in) /\ TokensOf(in) = SumFunctionOnSet(f, in) /\ TokensOf(out) = SumFunctionOnSet(f, out)
      /\ TokensOf(M) = SumFunctionOnSet(f, M)
  <2>1. M \in SUBSET M
    OBVIOUS
  <2> QED BY <1>1, <1>4, <1>7, <2>1, TokensAre
<1>9. SumFunction(by) = TokensOf(in)
  BY <1>2, <1>3, <1>5, <1>8, TokensByClass
<1>10. SumFunctionOnSet(f, M) = SumFunctionOnSet(f, in) + SumFunctionOnSet(f, out)
  <2>1. IsFiniteSet(in) /\ IsFiniteSet(out)
    BY <1>4, <1>6, FS_Subset
  <2> QED BY <1>4, <1>6, <2>1, SumJoins
<1>11. TokensOf(M) = SumFunction(by) + TokensOf(out)
  BY <1>8, <1>9, <1>10
<1> QED BY <1>11 DEF M, by, out

\* one more number at the end of a list of numbers
LEMMA SumAppends ==
    ASSUME NEW m \in Nat, NEW s, DOMAIN s = 1..m, \A n \in 1..m : s[n] \in Nat, NEW x \in Nat, NEW t,
           DOMAIN t = 1..(m+1), t[m+1] = x, \A n \in 1..m : t[n] = s[n]
    PROVE  SumFunction(t) = SumFunction(s) + x
<1> DEFINE D == 1..(m+1)
<1>1. m + 1 \in D /\ D \ {m + 1} = 1..m /\ \A n \in D : t[n] \in Nat
  <2>1. \A n \in D : n \in 1..m \/ n = m + 1
    OBVIOUS
  <2> QED BY <2>1
<1>2. IsFiniteSet(D) /\ IsFiniteSet(1..m)
  BY FS_Interval
<1>3. SumFunction(t) = SumFunctionOnSet(t, D) /\ SumFunction(s) = SumFunctionOnSet(s, 1..m)
  BY DEF SumFunction
<1>4. SumFunctionOnSet(s, 1..m) = SumFunctionOnSet(t, 1..m) /\ SumFunctionOnSet(s, 1..m) \in Nat
  BY <1>2, SumSame, SumNatural
<1> HIDE DEF D
<1>5. SumFunctionOnSet(t, D) = t[m+1] + SumFunctionOnSet(t, D \ {m+1})
  BY <1>1, <1>2, SumNatural
<1>6. SumFunctionOnSet(t, D) = x + SumFunctionOnSet(s, 1..m)
  BY <1>1, <1>4, <1>5
<1> QED BY <1>3, <1>4, <1>6

\* the largest items by their names and the others as one
LEMMA ItemsAddUp == ASSUME NEW rows, Weighed(rows) PROVE SumFunction(ItemTokens(rows)) = TokensOf(rows)
<1> DEFINE items == {r.file.item : r \in rows}
           k == [r \in rows |-> r.file.item]
           tokens == [i \in items |-> TokensOf({r \in rows : r.file.item = i})]
           tie == [i \in items |-> i]
           ranked == Descending(tokens, tie)
           N == Len(ranked)
           m == Min({TopItems, N})
           A == 1..m
           B == (TopItems + 1)..N
           others == {ranked[n] : n \in B}
           rest == SumFunctionOnSet(tokens, others)
           top == [n \in A |-> tokens[ranked[n]]]
           g == [n \in 1..N |-> tokens[ranked[n]]]
<1>1. ItemTokens(rows) = IF rest > 0 THEN Append(top, rest) ELSE top
  BY DEF ItemTokens
<1>2. items = {k[r] : r \in rows} /\ (\A r \in rows : k[r] \in items) /\ items \subseteq Nat
  BY DEF Weighed
<1>3. tokens = [i \in items |-> TokensOf({r \in rows : k[r] = i})]
  <2>1. \A i : {r \in rows : k[r] = i} = {r \in rows : r.file.item = i}
    OBVIOUS
  <2> HIDE DEF k, items
  <2> QED BY <2>1
<1>4. IsFiniteSet(items)
  <2> HIDE DEF items, k
  <2> QED BY <1>2, FiniteValues DEF Weighed
<1>5. \A i \in items : TokensOf({r \in rows : k[r] = i}) \in Nat
  <2> HIDE DEF k, items
  <2> QED BY TokensAre
<1>6. tokens \in [items -> Nat]
  <2> HIDE DEF k, items, tokens
  <2> QED BY <1>3, <1>5
<1>7. tie \in [items -> Nat] /\ \A x, y \in items : tie[x] = tie[y] => x = y
  <2> HIDE DEF items
  <2> QED BY <1>2
<1>8. SumFunctionOnSet(tokens, items) = TokensOf(rows)
  <2> HIDE DEF items, k
  <2>1. DOMAIN tokens = items
    OBVIOUS
  <2> HIDE DEF tokens
  <2>2. \A r \in rows : k[r] \in items
    BY <1>2
  <2>3. SumFunction(tokens) = TokensOf(rows)
    BY <1>3, <1>4, <2>2, TokensByClass
  <2> QED BY <2>1, <2>3 DEF SumFunction
<1> HIDE DEF items, k, tokens, tie
<1>9. ranked \in Seq(items) /\ Range(ranked) = items /\ \A n, j \in DOMAIN ranked : ranked[n] = ranked[j] => n = j
  BY <1>4, <1>6, <1>7, DescendingOnce
<1> HIDE DEF ranked
<1>10. N \in Nat /\ DOMAIN ranked = 1..N /\ \A n \in 1..N : ranked[n] \in items
  BY <1>9
<1>11. TopItems \in Nat \ {0} /\ m = IF TopItems <= N THEN TopItems ELSE N
  <2>1. TopItems \in Nat \ {0}
    BY ScreenBounds
  <2> HIDE DEF N
  <2> QED BY <1>10, <2>1, SmallerIs
<1> HIDE DEF N, m
<1>12. m \in Nat /\ A \in SUBSET (1..N) /\ B \in SUBSET (1..N) /\ A \cap B = {} /\ A \cup B = 1..N
  BY <1>10, <1>11
<1>13. IsFiniteSet(1..N) /\ IsFiniteSet(A) /\ IsFiniteSet(B)
  <2>1. 1 \in Int /\ N \in Int
    BY <1>10
  <2>2. IsFiniteSet(1..N)
    BY <2>1, FS_Interval
  <2> QED BY <1>12, <2>2, FS_Subset
<1>14. \A n \in 1..N : g[n] = tokens[ranked[n]] /\ g[n] \in Nat
  BY <1>6, <1>10
<1>15. (\A n \in A : top[n] = g[n]) /\ DOMAIN top = A
  BY <1>12
<1>16. others \subseteq items /\ \A i \in others : tokens[i] \in Nat
  BY <1>6, <1>10, <1>12
<1>17. Names(ranked, 1..N, items) /\ Names(ranked, B, others)
  <2>1. \A x \in items : \E n \in 1..N : ranked[n] = x
    BY <1>9, <1>10 DEF Range
  <2>2. Names(ranked, 1..N, items)
    BY <1>9, <1>10, <2>1 DEF Names
  <2>3. Names(ranked, B, others)
    BY <1>9, <1>10, <1>12 DEF Names
  <2> QED BY <2>2, <2>3
<1> HIDE DEF A, B, others, g, top
<1>18. SumFunctionOnSet(g, 1..N) = SumFunctionOnSet(tokens, items)
  <2>1. \A i \in items : tokens[i] \in Nat
    BY <1>6
  <2>2. \A n \in 1..N : g[n] = tokens[ranked[n]]
    BY <1>14
  <2> DEFINE all == 1..N
  <2>3. IsFiniteSet(all) /\ Names(ranked, all, items) /\ \A n \in all : g[n] = tokens[ranked[n]]
    BY <1>13, <1>17, <2>2
  <2> HIDE DEF all
  <2>4. SumFunctionOnSet(g, all) = SumFunctionOnSet(tokens, items)
    BY <2>1, <2>3, SumVia
  <2> QED BY <2>4 DEF all
<1>19. SumFunctionOnSet(g, B) = rest
  <2>1. \A n \in B : g[n] = tokens[ranked[n]]
    BY <1>12, <1>14
  <2>2. SumFunctionOnSet(g, B) = SumFunctionOnSet(tokens, others)
    BY <1>13, <1>16, <1>17, <2>1, SumVia
  <2> QED BY <2>2
<1>20. SumFunctionOnSet(g, 1..N) = SumFunctionOnSet(g, A) + SumFunctionOnSet(g, B)
  BY <1>12, <1>13, <1>14, SumJoins
<1>21. SumFunctionOnSet(g, A) = SumFunctionOnSet(top, A) /\ SumFunctionOnSet(g, A) \in Nat
  BY <1>12, <1>13, <1>14, <1>15, SumSame, SumNatural
<1>22. SumFunctionOnSet(g, B) \in Nat
  BY <1>12, <1>13, <1>14, SumNatural
<1>23. SumFunction(top) = SumFunctionOnSet(top, A)
  BY <1>15 DEF SumFunction
<1> HIDE DEF rest
<1>24. rest \in Nat /\ TokensOf(rows) = SumFunction(top) + rest /\ SumFunction(top) \in Nat
  BY <1>8, <1>18, <1>19, <1>20, <1>21, <1>22, <1>23
<1>25. CASE rest > 0
  <2> DEFINE t == Append(top, rest)
  <2>1. top \in Seq(Nat) /\ Len(top) = m /\ DOMAIN top = 1..m /\ \A n \in 1..m : top[n] \in Nat
    <3>1. \A n \in 1..m : top[n] \in Nat
      BY <1>12, <1>14, <1>15 DEF A
    <3>2. top = [n \in 1..m |-> top[n]]
      BY DEF top, A
    <3> QED BY <1>12, <3>1, <3>2, SeqBuilt
  <2>2. DOMAIN t = 1..(m+1) /\ t[m+1] = rest /\ \A n \in 1..m : t[n] = top[n]
    BY <1>12, <1>24, <2>1
  <2> HIDE DEF t
  <2>3. SumFunction(t) = SumFunction(top) + rest
    BY <1>12, <1>24, <2>1, <2>2, SumAppends
  <2> QED BY <1>1, <1>24, <1>25, <2>3 DEF t
<1>26. CASE ~(rest > 0)
  <2>1. rest = 0
    BY <1>24, <1>26
  <2> QED BY <1>1, <1>24, <1>26, <2>1
<1> QED BY <1>25, <1>26

\* the tokens of a tool are those of its rows on the map
LEMMA ToolTokensAre ==
    ASSUME ScopeSound, NEW t \in MapTools
    PROVE  ToolTokens(t) = TokensOf(FilesOf(t)) /\ ToolTokens(t) \in Nat
<1> DEFINE F == t.files g == [f \in F |-> f.tokens] R == FilesOf(t) h == [r \in R |-> r.file.tokens]
           via == [f \in F |-> [file |-> f, tool |-> t.tool]]
<1>1. IsFiniteSet(F) /\ \A f \in F : f.tokens \in Nat
  BY MapToolsAre
<1>2. \A f \in F : via[f] \in R /\ via[f].file = f
  BY DEF FilesOf
<1>3. \A r \in R : \E f \in F : via[f] = r
  BY DEF FilesOf
<1>4. \A r \in R : h[r] \in Nat
  BY <1>1 DEF FilesOf
<1>5. \A f \in F : g[f] = h[via[f]] /\ g[f] \in Nat
  BY <1>1, <1>2
<1>6. ToolTokens(t) = SumFunctionOnSet(g, F) /\ TokensOf(R) = SumFunctionOnSet(h, R)
  BY DEF ToolTokens, TokensOf, SumFunction
<1> HIDE DEF F, g, R, h, via
<1>7. Names(via, F, R)
  BY <1>2, <1>3 DEF Names
<1>8. SumFunctionOnSet(g, F) = SumFunctionOnSet(h, R)
  BY <1>1, <1>4, <1>5, <1>7, SumVia
<1>9. SumFunctionOnSet(g, F) \in Nat
  BY <1>1, <1>5, SumNatural
<1> QED BY <1>6, <1>8, <1>9 DEF R

\* the overview counts as many tokens as the map
LEMMA ToolsAddUp ==
    ASSUME ScopeSound
    PROVE  SumFunction([t \in MapTools |-> ToolTokens(t)]) = TokensOf(MapFiles)
<1> DEFINE T == MapTools M == MapFiles k == [r \in M |-> CHOOSE t \in T : t.tool = r.tool]
           by == [t \in T |-> ToolTokens(t)]
<1>1. T = MapTools
  OBVIOUS
<1>2. /\ Weighed(M) /\ \A r \in M : \E t \in T : r \in FilesOf(t)
      /\ \A t \in T : FilesOf(t) \subseteq M
  BY MapFilesAre
<1>3. \A t \in T : ToolTokens(t) = TokensOf(FilesOf(t))
  BY ToolTokensAre
<1> HIDE DEF T, M
<1>4. IsFiniteSet(T) /\ \A t, u \in T : t.tool = u.tool => t = u
  BY <1>1, MapToolsAre
<1>5. \A t : \A r \in FilesOf(t) : r.tool = t.tool
  BY DEF FilesOf
<1>6. \A t \in T : \A r \in FilesOf(t) : r \in M /\ k[r] = t
  BY <1>2, <1>4, <1>5
<1>7. \A r \in M : k[r] \in T
  <2> TAKE r \in M
  <2>1. PICK t \in T : r \in FilesOf(t)
    BY <1>2
  <2>2. k[r] = t
    BY <1>6, <2>1
  <2> HIDE DEF k
  <2> QED BY <2>1, <2>2
<1> HIDE DEF k
<1>8. \A t \in T : {r \in M : k[r] = t} = FilesOf(t)
  BY <1>2, <1>6
<1>9. by = [t \in T |-> TokensOf({r \in M : k[r] = t})]
  BY <1>3, <1>8
<1> HIDE DEF by
<1>10. SumFunction(by) = TokensOf(M)
  BY <1>2, <1>4, <1>7, <1>9, TokensByClass
<1> QED BY <1>10 DEF by, T, M

\* "By Tool" lists each tool with tokens, or as many as it may
LEMMA ToolsListed ==
    ASSUME ScopeSound, NEW t \in MapTools, ToolTokens(t) > 0
    PROVE  t \in Range(PerTool) \/ Len(PerTool) = TopTools
<1> DEFINE T == MapTools some == {u \in T : ToolTokens(u) > 0}
           amount == [u \in some |-> ToolTokens(u)]
           tie == [u \in some |-> LabelOrder[u.tool]]
           ranked == Descending(amount, tie)
           N == Len(ranked)
           m == Min({TopTools, N})
           list == PerTool
<1>1. list = SubSeq(ranked, 1, m)
  BY DEF PerTool
<1>2. t \in some /\ some \in SUBSET T /\ \A u \in some : ToolTokens(u) \in Nat
  BY ToolTokensAre
<1>3. T = MapTools
  OBVIOUS
<1> HIDE DEF T
<1>4. IsFiniteSet(T) /\ (\A u, v \in T : u.tool = v.tool => u = v) /\ \A u \in T : u.tool \in Scoped
  BY <1>3, MapToolsAre
<1>5. IsFiniteSet(some)
  BY <1>2, <1>4, FS_Subset
<1>6. amount \in [some -> Nat]
  BY <1>2
<1>7. tie \in [some -> Nat] /\ \A u, v \in some : tie[u] = tie[v] => u = v
  <2>1. \A u \in some : u.tool \in Scoped /\ tie[u] = LabelOrder[u.tool]
    BY <1>2, <1>4
  <2>2. \A u \in some : tie[u] \in Nat
    BY <2>1, LabelsDiffer
  <2>3. ASSUME NEW u \in some, NEW v \in some, tie[u] = tie[v] PROVE u = v
    <3>1. u.tool = v.tool
      BY <2>1, <2>3, LabelsDiffer
    <3> QED BY <1>2, <1>4, <3>1
  <2>4. tie = [u \in some |-> tie[u]]
    OBVIOUS
  <2> QED BY <2>2, <2>3, <2>4
<1> HIDE DEF some, amount, tie
<1>8. ranked \in Seq(some) /\ Range(ranked) = some
  BY <1>5, <1>6, <1>7, DescendingOnce
<1> HIDE DEF ranked
<1>9. N \in Nat /\ DOMAIN ranked = 1..N
  BY <1>8
<1>10. TopTools \in Nat \ {0}
  BY ScreenBounds
<1> HIDE DEF N
<1>11. m = IF TopTools <= N THEN TopTools ELSE N
  BY <1>9, <1>10, SmallerIs
<1> HIDE DEF m
<1>12. m \in 0..N
  BY <1>9, <1>10, <1>11
<1>13. list = [n \in 1..m |-> ranked[n]]
  BY <1>1, <1>12
<1> HIDE DEF list
<1>14. DOMAIN list = 1..m /\ \A n \in 1..m : list[n] = ranked[n]
  BY <1>13
<1>15. Len(list) = m
  BY <1>12, <1>14
<1>16. PICK n \in 1..N : ranked[n] = t
  BY <1>2, <1>8, <1>9 DEF Range
<1>17. CASE n <= m
  <2>1. n \in 1..m
    BY <1>12, <1>17
  <2>2. t \in Range(list)
    BY <1>14, <1>16, <2>1 DEF Range
  <2> QED BY <2>2 DEF list
<1>18. CASE ~(n <= m)
  <2>1. m = TopTools
    BY <1>9, <1>10, <1>11, <1>18
  <2> QED BY <1>15, <2>1 DEF list
<1> QED BY <1>17, <1>18

\* so the map adds up
LEMMA MapSums == ASSUME ScopeSound PROVE MapAddsUp
<1>1. \A k \in Kinds(DrillDown) : LET rows == OfKind(DrillDown, k) IN SumFunction(ItemTokens(rows)) = TokensOf(rows)
  <2> TAKE k \in Kinds(DrillDown)
  <2> DEFINE rows == OfKind(DrillDown, k)
  <2>1. DrillDown \in SUBSET MapFiles
    BY DEF DrillDown, OfProject
  <2>2. rows \in SUBSET MapFiles
    BY <2>1 DEF OfKind
  <2>3. Weighed(MapFiles)
    BY MapFilesAre
  <2> HIDE DEF rows
  <2>4. Weighed(rows)
    BY <2>2, <2>3, TokensAre
  <2>5. SumFunction(ItemTokens(rows)) = TokensOf(rows)
    BY <2>4, ItemsAddUp
  <2> QED BY <2>5 DEF rows
<1>2. ScopeTotals.tokens = TokensOf(MapFiles)
  <2> DEFINE pass == {t \in FilteredSnap.tools : t.tool # Aictl} T == MapTools
  <2>1. ScopeTotals.tokens = SumFunction([t \in pass |-> ToolTokens(t)])
    BY DEF ScopeTotals
  <2>2. T = MapTools
    OBVIOUS
  <2>3. T = pass
    <3> HIDE DEF T
    <3> QED BY <2>2, MapToolsAre
  <2>4. SumFunction([t \in T |-> ToolTokens(t)]) = TokensOf(MapFiles)
    BY ToolsAddUp
  <2> HIDE DEF T, pass
  <2> QED BY <2>1, <2>3, <2>4
<1>3. \A t \in MapTools : ToolTokens(t) > 0 => t \in Range(PerTool) \/ Len(PerTool) = TopTools
  BY ToolsListed
<1>4. SumFunction(ByPolicy) = TokensOf(MapFiles)
  BY PoliciesAddUp
<1>5. SumFunction([k \in Kinds(MapFiles) |-> TokensOf(OfKind(MapFiles, k))]) = TokensOf(MapFiles)
  BY KindsAddUp
<1>6. SumFunction([p \in Projects |-> TokensOf(OfProject(MapFiles, p))]) = TokensOf(MapFiles)
  BY ProjectsAddUp
<1>7. SumFunction(ByScope) + TokensOf({r \in MapFiles : r.file.scope \notin ScopeOrder}) = TokensOf(MapFiles)
  BY ScopesAddUp
<1> QED BY <1>1, <1>2, <1>3, <1>4, <1>5, <1>6, <1>7 DEF MapAddsUp

(* The trees of processes ----------------------------------------------------- *)

\* the processes of a tree after n levels
AreLevels(t, N, drawn) ==
    drawn = [n \in 0..N |->
        IF n = 0 THEN Roots(t)
        ELSE drawn[n-1] \cup {p \in Procs(t) : p.ppid \in OwnPids(t) /\ \E q \in drawn[n-1] : q.pid = p.ppid}]
TreeLevels(t, N) == CHOOSE drawn : AreLevels(t, N, drawn)

\* a level has the one before it and the processes that it started
LEMMA LevelsAre ==
    ASSUME NEW t, NEW N \in Nat, NEW g, g = TreeLevels(t, N)
    PROVE  /\ g[0] = Roots(t) /\ \A n \in 0..N : g[n] \in SUBSET Procs(t)
           /\ \A n \in 1..N :
                 g[n] = g[n-1] \cup {p \in Procs(t) : p.ppid \in OwnPids(t) /\ \E q \in g[n-1] : q.pid = p.ppid}
<1> DEFINE P == Procs(t) S == SUBSET P O == OwnPids(t) R == Roots(t)
           Next1(d) == d \cup {p \in P : p.ppid \in O /\ \E q \in d : q.pid = p.ppid}
           step == [x \in S \X (1..N) |-> Next1(x[1])]
<1>1. R \in S
  BY DEF Roots
<1>2. step \in [S \X (1..N) -> S]
  OBVIOUS
<1>3. PICK h \in [0..N -> S] : Accumulated(h, R, step, N)
  <2> HIDE DEF S, R, step
  <2> QED BY <1>1, <1>2, Accumulates
<1>4. \A n \in 0..N : h[n] = IF n = 0 THEN R ELSE step[<<h[n-1], n>>]
  BY <1>3 DEF Accumulated
<1>5. ASSUME NEW n \in 1..N PROVE step[<<h[n-1], n>>] = Next1(h[n-1])
  <2>1. <<h[n-1], n>> \in S \X (1..N)
    <3>1. n - 1 \in 0..N
      OBVIOUS
    <3> HIDE DEF S
    <3> QED BY <1>3, <3>1
  <2> HIDE DEF S
  <2> QED BY <2>1
<1> HIDE DEF step, R, S
<1>6. h = [n \in 0..N |-> IF n = 0 THEN R ELSE Next1(h[n-1])]
  <2> HIDE DEF Next1
  <2>1. h = [n \in 0..N |-> h[n]]
    BY <1>3
  <2>2. ASSUME NEW n \in 0..N PROVE h[n] = IF n = 0 THEN R ELSE Next1(h[n-1])
    <3>1. CASE n = 0
      BY <1>4, <3>1
    <3>2. CASE n # 0
      <4>1. n \in 1..N
        BY <3>2
      <4> QED BY <1>4, <1>5, <3>2, <4>1
    <3> QED BY <3>1, <3>2
  <2> QED BY <2>1, <2>2
<1>7. g = [n \in 0..N |-> IF n = 0 THEN R ELSE Next1(g[n-1])]
  <2>1. AreLevels(t, N, h)
    BY <1>6 DEF AreLevels, R
  <2>2. AreLevels(t, N, g)
    BY <2>1, Zenon DEF TreeLevels
  <2> QED BY <2>2 DEF AreLevels, R
<1> HIDE DEF Next1
<1>8. \A n \in 0..N : g[n] = IF n = 0 THEN R ELSE Next1(g[n-1])
  BY <1>7
<1>9. g[0] = R /\ \A n \in 1..N : g[n] = Next1(g[n-1])
  BY <1>8
<1>10. \A n \in 0..N : g[n] \in S
  <2> DEFINE T == {n \in 0..N : g[n] \in S}
  <2>1. 0 \in T
    BY <1>1, <1>9
  <2>2. \A n \in 1..N : n - 1 \in T => n \in T
    BY <1>9 DEF Next1, S
  <2> HIDE DEF T
  <2>3. \A n \in 0..N : n \in T
    BY <2>1, <2>2, CountsUp
  <2> QED BY <2>3 DEF T
<1> QED BY <1>9, <1>10 DEF S, R, Next1

\* a finite set without one of its members is smaller
LEMMA OneFewer ==
    ASSUME NEW S, IsFiniteSet(S), NEW x \in S, NEW U \in SUBSET (S \ {x})
    PROVE  Cardinality(U) \in Nat /\ Cardinality(S) \in Nat /\ Cardinality(U) <= Cardinality(S) - 1
<1>1. IsFiniteSet(S \ {x}) /\ Cardinality(S \ {x}) = Cardinality(S) - 1
  BY FS_RemoveElement
<1>2. Cardinality(U) <= Cardinality(S \ {x}) /\ IsFiniteSet(U)
  BY <1>1, FS_Subset
<1> QED BY <1>1, <1>2, FS_CardinalityType

\* a tree draws each process, of which every set has one that no other of the set started
LEMMA TreeFills ==
    ASSUME NEW t, IsFiniteSet(Procs(t)),
           \A ps \in SUBSET Procs(t) : ps # {} => \E p \in ps : \A q \in ps : q.pid # p.ppid
    PROVE  ProcessTree(t) = Procs(t)
<1> DEFINE P == Procs(t) N == Cardinality(P) g == TreeLevels(t, N) O == OwnPids(t)
           T == {n \in 0..N : Roots(t) \subseteq g[n] /\ Cardinality(P \ g[n]) <= N - n}
<1>1. ProcessTree(t) = g[N]
  BY DEF ProcessTree, TreeLevels, AreLevels
<1>2. N \in Nat
  BY FS_CardinalityType
<1>3. g = TreeLevels(t, N)
  OBVIOUS
<1> HIDE DEF g, N
<1>4. /\ g[0] = Roots(t) /\ \A n \in 0..N : g[n] \in SUBSET P
      /\ \A n \in 1..N : g[n] = g[n-1] \cup {p \in P : p.ppid \in O /\ \E q \in g[n-1] : q.pid = p.ppid}
  BY <1>2, <1>3, LevelsAre
<1>5. 0 \in T
  <2>1. Cardinality(P \ g[0]) <= N
    BY FS_Subset DEF N
  <2>2. 0 \in 0..N /\ N - 0 = N
    BY <1>2
  <2>3. Roots(t) \subseteq g[0] /\ Cardinality(P \ g[0]) <= N - 0
    BY <1>4, <2>1, <2>2
  <2> QED BY <2>2, <2>3
<1>6. ASSUME NEW n \in 1..N, n - 1 \in T PROVE n \in T
  <2> DEFINE U == P \ g[n-1] V == P \ g[n]
  <2>1. Roots(t) \subseteq g[n-1] /\ Cardinality(U) <= N - (n - 1)
    BY <1>6
  <2>2. g[n] = g[n-1] \cup {p \in P : p.ppid \in O /\ \E q \in g[n-1] : q.pid = p.ppid}
    BY <1>4
  <2>3. Roots(t) \subseteq g[n]
    BY <2>1, <2>2
  <2>4. U \in SUBSET P /\ IsFiniteSet(U)
    BY FS_Subset
  <2>5. CASE U = {}
    <3>1. V = {}
      BY <2>2, <2>5
    <3>2. Cardinality(V) = 0
      BY <3>1, FS_EmptySet
    <3> QED BY <1>2, <2>3, <3>2
  <2>6. CASE U # {}
    <3>1. PICK p \in U : \A q \in U : q.pid # p.ppid
      BY <2>4, <2>6
    <3>2. p.ppid \in O
      BY <2>1, <3>1 DEF Roots
    <3>3. PICK q \in P : q.pid = p.ppid
      BY <3>2 DEF OwnPids
    <3>4. q \in g[n-1]
      BY <3>1, <3>3
    <3>5. p \in g[n]
      BY <2>2, <3>1, <3>2, <3>3, <3>4
    <3>6. V \in SUBSET (U \ {p})
      BY <2>2, <3>5
    <3> HIDE DEF U, V
    <3>7. Cardinality(V) \in Nat /\ Cardinality(U) \in Nat /\ Cardinality(V) <= Cardinality(U) - 1
      BY <2>4, <3>1, <3>6, OneFewer
    <3>8. Cardinality(V) <= N - n
      BY <1>2, <2>1, <3>7
    <3> QED BY <2>3, <3>8 DEF V
  <2> QED BY <2>5, <2>6
<1>7. N \in T
  <2> HIDE DEF T
  <2>1. \A n \in 1..N : n - 1 \in T => n \in T
    BY <1>6
  <2>2. \A n \in 0..N : n \in T
    BY <1>2, <1>5, <2>1, CountsUp
  <2> QED BY <1>2, <2>2
<1>8. P \ g[N] = {}
  <2> DEFINE V == P \ g[N]
  <2>1. IsFiniteSet(V)
    BY FS_Subset
  <2>2. Cardinality(V) <= N - N
    BY <1>7
  <2> HIDE DEF V
  <2>3. Cardinality(V) \in Nat
    BY <2>1, FS_CardinalityType
  <2>4. Cardinality(V) = 0
    BY <1>2, <2>2, <2>3
  <2>5. V = {}
    BY <2>1, <2>4, FS_EmptySet
  <2> QED BY <2>5 DEF V
<1>9. g[N] \in SUBSET P
  BY <1>2, <1>4
<1> QED BY <1>1, <1>8, <1>9

\* no process is left out of its tree
LEMMA ProcsAreDrawn == ASSUME ScopeSound PROVE AllDrawn
<1> SUFFICES ASSUME NEW t \in ProcTools
             PROVE  ProcessTree(t) = Procs(t) /\ UNION {ProcsByType(t)[y] : y \in DOMAIN ProcsByType(t)} = t.procs
  BY DEF AllDrawn
<1>1. t \in snap.tools
  <2> DEFINE pass == FilteredSnap.tools
  <2>1. pass = FilteredSnap.tools /\ t \in pass
    BY DEF ProcTools
  <2> HIDE DEF pass
  <2> QED BY <2>1, PassIs
<1>2. /\ IsFiniteSet(t.liveProcs)
      /\ \A ps \in (SUBSET t.procs) \cup (SUBSET t.liveProcs) : ps # {} => \E p \in ps : \A q \in ps : q.pid # p.ppid
  BY <1>1, ToolRows DEF ScopeSound
<1>3. IsFiniteSet(t.procs)
  BY <1>1, SnapshotRows DEF ScopeSound
<1>4. Procs(t) = t.liveProcs \/ Procs(t) = t.procs
  BY DEF Procs
<1>5. \A ps \in SUBSET Procs(t) : ps # {} => \E p \in ps : \A q \in ps : q.pid # p.ppid
  <2> TAKE ps \in SUBSET Procs(t)
  <2>1. ps \in (SUBSET t.procs) \cup (SUBSET t.liveProcs)
    BY <1>4
  <2> QED BY <1>2, <2>1, Zenon
<1>6. IsFiniteSet(Procs(t))
  BY <1>2, <1>3, <1>4
<1>7. ProcessTree(t) = Procs(t)
  BY <1>5, <1>6, TreeFills
<1>8. UNION {ProcsByType(t)[y] : y \in DOMAIN ProcsByType(t)} = t.procs
  <2> DEFINE by == ProcsByType(t) all == {p.type : p \in t.procs}
  <2>1. DOMAIN by = all /\ \A y \in all : by[y] = {p \in t.procs : p.type = y}
    BY DEF ProcsByType
  <2> HIDE DEF by
  <2>2. \A p \in t.procs : p.type \in all /\ p \in by[p.type]
    <3> TAKE p \in t.procs
    <3>1. p.type \in all
      OBVIOUS
    <3> HIDE DEF all
    <3>2. by[p.type] = {q \in t.procs : q.type = p.type}
      BY <2>1, <3>1, Zenon
    <3> QED BY <3>1, <3>2
  <2> HIDE DEF all
  <2>3. \A y \in all : by[y] \subseteq t.procs
    BY <2>1
  <2>4. UNION {by[y] : y \in all} = t.procs
    BY <2>2, <2>3
  <2> QED BY <2>1, <2>4 DEF by
<1> QED BY <1>7, <1>8

(* The report about an agent -------------------------------------------------- *)

\* the calls of the ticked tools and of nobody, among all calls
LEMMA CallsCounted ==
    ASSUME ScopeSound
    PROVE  /\ ActivityReport.total + ActivityReport.hidden <= SumByTool(snap.calls, All).total
           /\ \A id \in Verified \cup {Aictl} : IsSelected(id, ticked) => AgentCalls(id) <= ActivityReport.total
<1> DEFINE f == snap.calls D == DOMAIN f nobody == {NoTool, AnyTool}
           own == {id \in D \ nobody : IsSelected(id, ticked)} none == D \cap nobody
           report == ActivityReport whole == SumByTool(f, All)
<1>1. IsFiniteSet(D) /\ \A id \in D : f[id] \in Nat
  BY SnapshotRows DEF ScopeSound
<1>2. report.total = (IF ticked = All THEN SumFunctionOnSet(f, D) ELSE SumFunctionOnSet(f, own))
      /\ report.hidden = (IF ticked = All THEN 0 ELSE SumFunctionOnSet(f, none))
  BY DEF ActivityReport, SumByTool
<1>3. whole.total = SumFunctionOnSet(f, D)
  BY DEF SumByTool
<1>4. own \in SUBSET D /\ none \in SUBSET D /\ own \cap none = {} /\ own \cup none \in SUBSET D
  OBVIOUS
<1>5. \A id \in Verified \cup {Aictl} : id \notin nobody
  BY ScopeTools
<1>6. \A id : AgentCalls(id) = IF id \in D THEN f[id] ELSE 0
  BY DEF AgentCalls
<1>7. \A id \in D : id \notin nobody /\ IsSelected(id, ticked) => id \in own
  OBVIOUS
<1> HIDE DEF f, D, nobody, own, none, report, whole
<1>8. IsFiniteSet(own) /\ IsFiniteSet(none) /\ IsFiniteSet(own \cup none)
  BY <1>1, <1>4, FS_Subset
<1>9. SumFunctionOnSet(f, own \cup none) = SumFunctionOnSet(f, own) + SumFunctionOnSet(f, none)
  BY <1>1, <1>4, <1>8, SumJoins
<1>10. \A id \in D : f[id] <= f[id]
  BY <1>1
<1>11. SumFunctionOnSet(f, own \cup none) <= SumFunctionOnSet(f, D)
  BY <1>1, <1>4, <1>10, SumGrows
<1>12. SumFunctionOnSet(f, D) \in Nat /\ SumFunctionOnSet(f, own) \in Nat
  BY <1>1, <1>4, <1>8, SumNatural
<1>13. report.total + report.hidden <= whole.total
  BY <1>2, <1>3, <1>9, <1>11, <1>12
<1>14. \A id \in D : f[id] <= SumFunctionOnSet(f, D)
  <2> TAKE id \in D
  <2>1. SumFunctionOnSet(f, D) = f[id] + SumFunctionOnSet(f, D \ {id}) /\ SumFunctionOnSet(f, D \ {id}) \in Nat
    BY <1>1, SumNatural
  <2> QED BY <1>1, <2>1
<1>15. \A id \in own : f[id] <= SumFunctionOnSet(f, own)
  <2> TAKE id \in own
  <2>1. \A x \in own : f[x] \in Nat
    BY <1>1, <1>4
  <2>2. SumFunctionOnSet(f, own) = f[id] + SumFunctionOnSet(f, own \ {id}) /\ SumFunctionOnSet(f, own \ {id}) \in Nat
    BY <1>8, <2>1, SumNatural
  <2> QED BY <2>1, <2>2
<1>16. ASSUME NEW id \in Verified \cup {Aictl}, IsSelected(id, ticked) PROVE AgentCalls(id) <= report.total
  <2>1. CASE id \notin D
    BY <1>2, <1>6, <1>12, <2>1
  <2>2. CASE id \in D
    <3>1. id \in own
      BY <1>5, <1>7, <1>16, <2>2
    <3> QED BY <1>2, <1>6, <1>14, <1>15, <2>2, <3>1
  <2> QED BY <2>1, <2>2
<1> QED BY <1>13, <1>16 DEF report, whole, f

\* the profile of the agent shown is of that agent
LEMMA ReportsCount == ASSUME ScopeSound PROVE ReportCounts
<1> DEFINE kept == FilteredSnap shown == ShownAgent on == AgentList(TRUE) pass == FilteredSnap.tools
<1>1. kept = FilteredSnap /\ shown = ShownAgent /\ on = AgentList(TRUE) /\ pass = FilteredSnap.tools
  OBVIOUS
<1>2. shown # NoTool => shown \in {t.tool : t \in kept.tools} \ {Aictl}
  BY PicksAreOffered DEF PicksOnOffer
<1> SUFFICES ASSUME NEW t \in pass, t.tool = shown
             PROVE  /\ CloudOnly(t, kept) => t.sessions = 0 /\ ~\E s \in snap.sessions : s.tool = shown
                    /\ {c \in kept.configs : c.tool = t.tool} = {c \in snap.configs : c.tool = shown}
                    /\ AgentCalls(t.tool) <= ActivityReport.total
                    /\ IsActive(t) = (shown \in Range(on))
  BY CallsCounted DEF ReportCounts, AgentDetail
<1> HIDE DEF kept, shown, on, pass
<1>3. /\ pass \subseteq snap.tools /\ \A u, v \in pass : u.tool = v.tool => u = v
      /\ \A u \in pass : u.tool \in Verified \cup {Aictl} /\ IsSelected(u.tool, ticked)
  BY <1>1, PassIs
<1>4. kept.configs = {c \in snap.configs : IsConfigSelected(c.tool, ticked)}
  BY <1>1, KeptIs
<1>5. Range(on) = {u.tool : u \in {u \in pass : u.tool # Aictl /\ IsActive(u) = TRUE}}
  BY <1>1, AgentsAre
<1>6. NoTool \notin Verified \cup {Aictl} /\ Aictl \notin Verified \cup UnlistedTools \cup {NoTool}
      /\ \A id \in Verified : id \notin NonTool \cup {NoTool}
  BY ScopeTools
<1>7. t.tool \in Verified
  <2>1. shown # NoTool
    BY <1>3, <1>6
  <2>2. shown # Aictl
    BY <1>2, <2>1
  <2> QED BY <1>3, <2>2
<1>8. ASSUME CloudOnly(t, kept) PROVE t.sessions = 0 /\ ~\E s \in snap.sessions : s.tool = shown
  <2>1. t.sessions = 0
    BY <1>8 DEF CloudOnly
  <2>2. ASSUME NEW s \in snap.sessions, s.tool = shown PROVE FALSE
    <3>1. PICK u \in snap.tools : u.tool = s.tool /\ u.sessions > 0
      BY <1>7, <2>2, SnapshotRows DEF ScopeSound
    <3>2. u = t
      BY <1>3, <2>2, <3>1, SnapshotRows DEF ScopeSound
    <3> QED BY <2>1, <3>1, <3>2
  <2> QED BY <2>1, <2>2
<1>9. IsConfigSelected(t.tool, ticked)
  <2>1. IsSelected(t.tool, ticked)
    BY <1>3
  <2>2. CASE ticked # All /\ t.tool \in DOMAIN CardOwners
    <3>1. t.tool \in ticked
      BY <1>6, <1>7, <2>1, <2>2 DEF IsSelected
    <3>2. t.tool \in CardOwners[t.tool]
      BY <2>2, ScopeTools
    <3> QED BY <2>2, <3>1, <3>2 DEF IsConfigSelected
  <2>3. CASE ~(ticked # All /\ t.tool \in DOMAIN CardOwners)
    BY <2>1, <2>3 DEF IsConfigSelected
  <2> QED BY <2>2, <2>3
<1>10. {c \in kept.configs : c.tool = t.tool} = {c \in snap.configs : c.tool = shown}
  BY <1>4, <1>9
<1>11. AgentCalls(t.tool) <= ActivityReport.total
  BY <1>3, CallsCounted
<1>12. IsActive(t) = (shown \in Range(on))
  <2>1. IsActive(t) \in BOOLEAN
    BY DEF IsActive
  <2>2. IsActive(t) => shown \in Range(on)
    BY <1>5, <1>6, <1>7, <2>1
  <2>3. shown \in Range(on) => IsActive(t)
    BY <1>3, <1>5
  <2> QED BY <2>1, <2>2, <2>3
<1> QED BY <1>8, <1>10, <1>11, <1>12

(* The screens agree ---------------------------------------------------------- *)

\* where the filter leaves the overview nothing, it leaves no screen anything
LEMMA EmptyIsEmpty ==
    ASSUME ScopeSound, OverviewEmpty
    PROVE  /\ ContextMapEmpty /\ ShownAgent = NoTool
           /\ \A t \in LiveRows \cup ProcTools \cup CardTools : t.tool = Aictl
<1> DEFINE pass == FilteredSnap.tools
<1>1. \A t \in pass : t.tool = Aictl
  BY DEF OverviewEmpty
<1>2. ContextMapEmpty
  <2>1. MapTools = {}
    BY <1>1 DEF MapTools
  <2>2. MapFiles = {}
    BY <2>1 DEF MapFiles
  <2>3. TokensOf(MapFiles) = SumFunctionOnSet([r \in MapFiles |-> r.file.tokens], {})
    BY <2>2 DEF TokensOf, SumFunction
  <2> QED BY <2>3, SumOfNone DEF ContextMapEmpty
<1>3. ShownAgent = NoTool
  BY <1>1, PicksAreOffered DEF PicksOnOffer
<1> QED BY <1>1, <1>2, <1>3 DEF LiveRows, ProcTools, CardTools

\* a card is in each of its groups, in one unless the groups are the hosts
LEMMA CardsInGroups ==
    ASSUME ScopeSound, groupBy \in GroupModes, NEW t \in CardTools
    PROVE  /\ groupBy # "host" => Cardinality({g \in DOMAIN CardGroups : t \in CardGroups[g]}) = 1
           /\ \E g \in DOMAIN CardGroups : t \in CardGroups[g]
<1> DEFINE all == UNION {GroupsOf(u) : u \in CardTools} by == CardGroups in == {g \in DOMAIN by : t \in by[g]}
<1>1. DOMAIN by = all /\ \A g \in all : by[g] = {u \in CardTools : g \in GroupsOf(u)}
  BY DEF CardGroups
<1>2. GroupsOf(t) \subseteq all
  OBVIOUS
<1> HIDE DEF all, by
<1>3. in = GroupsOf(t)
  BY <1>1, <1>2
<1>4. t \in snap.tools
  <2> DEFINE pass == FilteredSnap.tools
  <2>1. pass = FilteredSnap.tools /\ t \in pass
    BY DEF CardTools
  <2> HIDE DEF pass
  <2> QED BY <2>1, PassIs
<1>5. t.hosts # {}
  BY <1>4, ToolRows DEF ScopeSound
<1>6. groupBy # "host" => \E x : GroupsOf(t) = {x}
  <2>1. groupBy = "product" => GroupsOf(t) = {"all"}
    BY DEF GroupsOf
  <2>2. groupBy = "vendor" => GroupsOf(t) = {t.vendor}
    BY DEF GroupsOf
  <2> QED BY <2>1, <2>2 DEF GroupModes
<1>7. groupBy = "host" => GroupsOf(t) = t.hosts
  BY DEF GroupsOf
<1>8. GroupsOf(t) # {}
  BY <1>5, <1>6, <1>7
<1>9. groupBy # "host" => Cardinality(in) = 1
  BY <1>3, <1>6, FS_Singleton
<1>10. \E g \in DOMAIN by : t \in by[g]
  BY <1>3, <1>8
<1> QED BY <1>9, <1>10 DEF by

\* the overview counts every process that is listed, and no session that the figures leave out
LEMMA TotalsCover ==
    ASSUME ScopeSound
    PROVE  /\ ScopeTotals.processes >= SumFunction([t \in {t \in ProcTools : t.tool # Aictl} |-> Cardinality(t.procs)])
           /\ StatsData.sessions >= ScopeTotals.sessions
<1> DEFINE pass == FilteredSnap.tools S == {t \in pass : t.tool # Aictl} R == {t \in ProcTools : t.tool # Aictl}
           f == [t \in R |-> Cardinality(t.procs)] g == [t \in S |-> Max({Cardinality(t.procs), t.pids})]
           h == [t \in S |-> t.sessions] k == [t \in pass |-> t.sessions]
<1>1. ScopeTotals.processes = SumFunction(g) /\ ScopeTotals.sessions = SumFunction(h) /\ StatsData.sessions = SumFunction(k)
  BY DEF ScopeTotals, StatsData
<1>2. pass = FilteredSnap.tools
  OBVIOUS
<1>3. R \in SUBSET S /\ S \in SUBSET pass
  BY DEF ProcTools
<1>4. SumFunction(g) = SumFunctionOnSet(g, S) /\ SumFunction(h) = SumFunctionOnSet(h, S)
      /\ SumFunction(k) = SumFunctionOnSet(k, pass) /\ SumFunction(f) = SumFunctionOnSet(f, R)
  BY DEF SumFunction
<1> HIDE DEF pass
<1>5. IsFiniteSet(pass) /\ \A t \in pass : t.sessions \in Nat /\ t.pids \in Nat /\ Cardinality(t.procs) \in Nat
  BY <1>2, PassIs
<1>6. IsFiniteSet(S)
  BY <1>3, <1>5, FS_Subset
<1>7. \A t \in S : g[t] \in Nat /\ Cardinality(t.procs) <= g[t]
  <2> TAKE t \in S
  <2>1. Cardinality(t.procs) \in Int /\ t.pids \in Int /\ Cardinality(t.procs) \in Nat /\ t.pids \in Nat
    BY <1>3, <1>5
  <2>2. g[t] = IF Cardinality(t.procs) >= t.pids THEN Cardinality(t.procs) ELSE t.pids
    BY <2>1, LargerIs
  <2> HIDE DEF g, S
  <2> QED BY <2>1, <2>2
<1>8. \A t \in R : f[t] \in Nat /\ f[t] <= g[t]
  BY <1>3, <1>5, <1>7
<1>9. \A t \in S : h[t] \in Nat /\ h[t] <= k[t]
  BY <1>3, <1>5
<1>10. \A t \in pass : k[t] \in Nat
  BY <1>5
<1> HIDE DEF S, R, f, g, h, k
<1>11. SumFunctionOnSet(f, R) <= SumFunctionOnSet(g, S)
  BY <1>3, <1>6, <1>7, <1>8, SumGrows
<1>12. SumFunctionOnSet(h, S) <= SumFunctionOnSet(k, pass)
  BY <1>3, <1>5, <1>9, <1>10, SumGrows
<1>13. SumFunctionOnSet(g, S) \in Nat /\ SumFunctionOnSet(h, S) \in Nat /\ SumFunctionOnSet(k, pass) \in Nat
  BY <1>5, <1>6, <1>7, <1>9, <1>10, SumNatural
<1>14. SumFunctionOnSet(f, R) \in Nat
  BY <1>3, <1>6, <1>8, FS_Subset, SumNatural
<1>15. ScopeTotals.processes >= SumFunction(f) /\ StatsData.sessions >= ScopeTotals.sessions
  BY <1>1, <1>4, <1>11, <1>12, <1>13, <1>14
<1> QED BY <1>15 DEF f, R

\* so the screens agree
LEMMA ScreensAgreed == ASSUME ScopeSound, groupBy \in GroupModes PROVE ScreensAgree
<1>1. ASSUME NEW c \in snap.configs, c.tool \in NonTool, c.content PROVE c \in ConfigCards
  <2> DEFINE kept == FilteredSnap
  <2>1. kept = FilteredSnap
    OBVIOUS
  <2> HIDE DEF kept
  <2>2. kept.configs = {x \in snap.configs : IsConfigSelected(x.tool, ticked)}
    BY <2>1, KeptIs
  <2>3. c.tool \notin DOMAIN CardOwners
    BY <1>1, ScopeTools
  <2>4. IsConfigSelected(c.tool, ticked)
    BY <1>1, <2>3 DEF IsConfigSelected, IsSelected
  <2> QED BY <1>1, <2>1, <2>2, <2>4 DEF ConfigCards
<1> QED BY <1>1, EmptyIsEmpty, CardsInGroups, TotalsCover DEF ScreensAgree

(* What needs attention ------------------------------------------------------- *)

Urgencies == {"error", "warn", "info"}
OwnIds == {<<"memory">>, <<"orphans">>, <<"headless">>, <<"anomalies">>, <<"hooks:silent">>, <<"quality">>, <<"hidden-context">>,
           <<"storage">>, <<"sse">>, <<"stale">>, <<"otel">>}
IssuesOf(ts) == [id : OwnIds \cup {<<"hooks", t>> : t \in ts}, level : Urgencies]

\* an issue that is found or not
LEMMA WhenIs ==
    ASSUME NEW c, NEW ids, NEW id \in ids, NEW level \in Urgencies
    PROVE  When(c, id, level) \in Seq([id : ids, level : Urgencies])
<1> DEFINE one == [id |-> id, level |-> level] S == [id : ids, level : Urgencies] w == When(c, id, level)
<1>1. one \in S
  OBVIOUS
<1>2. w = <<one>> \/ w = <<>>
  BY DEF When
<1> HIDE DEF one, S, w
<1>3. <<one>> \in Seq(S) /\ <<>> \in Seq(S)
  BY <1>1
<1>4. w \in Seq(S)
  BY <1>2, <1>3
<1> QED BY <1>4 DEF w, S

LEMMA OwnIssue ==
    ASSUME NEW c, NEW ts, NEW id \in OwnIds, NEW level \in Urgencies
    PROVE  When(c, id, level) \in Seq(IssuesOf(ts))
<1> DEFINE ids == OwnIds \cup {<<"hooks", t>> : t \in ts}
<1>1. id \in ids
  OBVIOUS
<1> HIDE DEF ids
<1>2. When(c, id, level) \in Seq([id : ids, level : Urgencies])
  BY <1>1, WhenIs
<1> QED BY <1>2 DEF IssuesOf, ids

LEMMA HookIssue ==
    ASSUME NEW c, NEW ts, NEW t \in ts, NEW level \in Urgencies
    PROVE  When(c, <<"hooks", t>>, level) \in Seq(IssuesOf(ts))
<1> DEFINE ids == OwnIds \cup {<<"hooks", u>> : u \in ts} id == <<"hooks", t>>
<1>1. id \in ids
  OBVIOUS
<1> HIDE DEF ids, id
<1>2. When(c, id, level) \in Seq([id : ids, level : Urgencies])
  BY <1>1, WhenIs
<1> QED BY <1>2 DEF IssuesOf, ids, id

LEMMA Joined == ASSUME NEW S, NEW s \in Seq(S), NEW t \in Seq(S) PROVE s \o t \in Seq(S)
OBVIOUS

\* the tools of the hooks that the report is about
HookTools == {t \in DOMAIN health.hooks : IsSelected(t, ticked)}

\* an issue about hooks is of a tool that is ticked
LEMMA HookIssuesAre == ASSUME health \in Reports PROVE HookIssues \in Seq(IssuesOf(HookTools))
<1> DEFINE S == IssuesOf(HookTools)
           running == {FamilyOf[s.tool] : s \in FilteredSnap.sessions}
           T == HookTools
           B == {x \in T \X T : LabelOrder[x[1]] < LabelOrder[x[2]]}
           listed == Arranged(T, B)
           Of(t) == When(health.hooks[t] = "missing" /\ FamilyOf[t] \in running, <<"hooks", t>>, "warn")
                    \o When(health.hooks[t] = "disabled", <<"hooks", t>>, "warn")
                    \o When(health.hooks[t] = "misconfigured", <<"hooks", t>>, "error")
           seqs == [i \in DOMAIN listed |-> Of(listed[i])]
           found == FlattenSeq(seqs)
           silent == When(ticked = All /\ health.silent /\ found = <<>>, <<"hooks:silent">>, "warn")
<1>1. HookIssues = found \o silent
  BY DEF HookIssues, HookTools
<1>2. IsFiniteSet(T) /\ T \subseteq DOMAIN LabelOrder
  <2>1. IsFiniteSet(DOMAIN health.hooks) /\ DOMAIN health.hooks \subseteq DOMAIN LabelOrder
    BY HealthReports
  <2>2. T \in SUBSET DOMAIN health.hooks
    BY DEF HookTools
  <2> QED BY <2>1, <2>2, FS_Subset
<1>3. \A t \in DOMAIN LabelOrder : LabelOrder[t] \in Nat
  BY ScopeTools
<1>4. \A t, u \in DOMAIN LabelOrder : LabelOrder[t] = LabelOrder[u] => t = u
  BY ScopeTools DEF IsInjective
<1> HIDE DEF T
<1>5. \A t, u \in T : <<t, u>> \in B <=> LabelOrder[t] < LabelOrder[u]
  OBVIOUS
<1> HIDE DEF B
<1>6. StrictOrder(B, T)
  <2>1. \A t \in T : <<t, t>> \notin B
    BY <1>2, <1>3, <1>5
  <2>2. \A t, u \in T : t # u => <<t, u>> \in B \/ <<u, t>> \in B
    <3> TAKE t, u \in T
    <3>1. t \in DOMAIN LabelOrder /\ u \in DOMAIN LabelOrder
      BY <1>2
    <3> QED BY <1>3, <1>4, <1>5, <3>1
  <2>3. \A t, u, v \in T : <<t, u>> \in B /\ <<u, v>> \in B => <<t, v>> \in B
    <3> TAKE t, u, v \in T
    <3>1. LabelOrder[t] \in Nat /\ LabelOrder[u] \in Nat /\ LabelOrder[v] \in Nat
      BY <1>2, <1>3
    <3> QED BY <1>5, <3>1
  <2> QED BY <2>1, <2>2, <2>3 DEF StrictOrder
<1>7. listed \in Seq(T)
  BY <1>2, <1>6, ArrangedIs
<1>8. \A t \in T : Of(t) \in Seq(S)
  <2> TAKE t \in T
  <2> DEFINE a == When(health.hooks[t] = "missing" /\ FamilyOf[t] \in running, <<"hooks", t>>, "warn")
             b == When(health.hooks[t] = "disabled", <<"hooks", t>>, "warn")
             c == When(health.hooks[t] = "misconfigured", <<"hooks", t>>, "error")
  <2>1. t \in HookTools /\ "warn" \in Urgencies /\ "error" \in Urgencies
    BY DEF T, Urgencies
  <2>2. a \in Seq(S) /\ b \in Seq(S) /\ c \in Seq(S)
    BY <2>1, HookIssue
  <2>3. Of(t) = (a \o b) \o c
    OBVIOUS
  <2> HIDE DEF a, b, c, S, Of
  <2>4. a \o b \in Seq(S)
    BY <2>2, Joined
  <2>5. (a \o b) \o c \in Seq(S)
    BY <2>2, <2>4, Joined
  <2> QED BY <2>3, <2>5
<1> HIDE DEF Of, S, listed
<1>9. seqs \in Seq(Seq(S))
  <2> DEFINE N == Len(listed)
  <2>1. N \in Nat /\ DOMAIN listed = 1..N /\ \A i \in 1..N : listed[i] \in T
    BY <1>7
  <2>2. seqs = [i \in 1..N |-> Of(listed[i])] /\ \A i \in 1..N : Of(listed[i]) \in Seq(S)
    BY <1>8, <2>1
  <2> QED BY <2>1, <2>2
<1> HIDE DEF seqs
<1>10. found = FlattenSeq(seqs)
  OBVIOUS
<1> HIDE DEF found
<1>11. found \in Seq(S)
  BY <1>9, <1>10, FlattenIs
<1>12. silent \in Seq(S)
  BY OwnIssue DEF S, OwnIds, Urgencies
<1> HIDE DEF silent
<1>13. found \o silent \in Seq(S)
  BY <1>11, <1>12, Joined
<1> QED BY <1>1, <1>13 DEF S

\* each issue has a level and is of no tool that is not ticked
LEMMA IssuesAre == ASSUME health \in Reports PROVE Issues \in Seq(IssuesOf(HookTools))
<1> DEFINE S == IssuesOf(HookTools)
<1>1. health.quality \in {"ok", "error", "warn"}
  BY HealthReports
<1>2. \A c : /\ When(c, <<"memory">>, "error") \in Seq(S) /\ When(c, <<"orphans">>, "warn") \in Seq(S)
             /\ When(c, <<"headless">>, "warn") \in Seq(S) /\ When(c, <<"anomalies">>, "warn") \in Seq(S)
             /\ When(c, <<"hidden-context">>, "warn") \in Seq(S) /\ When(c, <<"hidden-context">>, "info") \in Seq(S)
             /\ When(c, <<"storage">>, "error") \in Seq(S) /\ When(c, <<"storage">>, "warn") \in Seq(S)
             /\ When(c, <<"sse">>, "error") \in Seq(S) /\ When(c, <<"stale">>, "warn") \in Seq(S)
             /\ When(c, <<"otel">>, "info") \in Seq(S)
  <2> TAKE c
  <2>1. {<<"memory">>, <<"orphans">>, <<"headless">>, <<"anomalies">>, <<"hidden-context">>, <<"storage">>, <<"sse">>,
         <<"stale">>, <<"otel">>} \subseteq OwnIds
    BY DEF OwnIds
  <2>2. "error" \in Urgencies /\ "warn" \in Urgencies /\ "info" \in Urgencies
    BY DEF Urgencies
  <2> QED BY <2>1, <2>2, OwnIssue
<1>3. QualityIssues \in Seq(S)
  <2>1. CASE health.quality = "ok"
    BY <2>1 DEF QualityIssues, When
  <2>2. CASE health.quality # "ok"
    <3>1. health.quality \in Urgencies /\ <<"quality">> \in OwnIds
      BY <1>1, <2>2 DEF Urgencies, OwnIds
    <3> QED BY <3>1, OwnIssue DEF QualityIssues
  <2> QED BY <2>1, <2>2
<1>4. HookIssues \in Seq(S)
  BY HookIssuesAre
<1> HIDE DEF S
<1>5. Alerts \in Seq(S)
  BY <1>2, Joined DEF Alerts
<1>6. Issues \in Seq(S)
  BY <1>2, <1>3, <1>4, <1>5, Joined DEF Issues
<1> QED BY <1>6 DEF S

\* those of a level, at the places Q
OfLevel(S, issues, l, Q, t) ==
    /\ t \in Seq(S) /\ Len(t) = Cardinality(Q) /\ IsFiniteSet(Q)
    /\ \A i \in Range(t) : i.level = l
    /\ \A i \in Range(issues) : i.level = l => i \in Range(t)

\* they are picked by their level
LEMMA LevelIs ==
    ASSUME NEW S, NEW issues \in Seq(S), NEW l, NEW Q, Q = {n \in DOMAIN issues : issues[n].level = l},
           NEW t, t = Picked(issues, Q)
    PROVE  OfLevel(S, issues, l, Q, t)
<1>1. Q \in SUBSET DOMAIN issues
  OBVIOUS
<1>2. t \in Seq(S) /\ Range(t) = {issues[n] : n \in Q} /\ Len(t) = Cardinality(Q)
  BY <1>1, PickedRange
<1>3. IsFiniteSet(Q)
  BY <1>1, PlacesFinite
<1>4. \A i \in Range(t) : i.level = l
  BY <1>2
<1>5. ASSUME NEW i \in Range(issues), i.level = l PROVE i \in Range(t)
  <2>1. PICK n \in DOMAIN issues : issues[n] = i
    BY DEF Range
  <2>2. n \in Q
    BY <1>5, <2>1
  <2> QED BY <1>2, <2>1, <2>2
<1> QED BY <1>2, <1>3, <1>4, <1>5 DEF OfLevel

\* what a limit leaves of a sequence
CutTo(limit, s, cut) ==
    /\ Len(cut) \in 0..Len(s) /\ DOMAIN cut = 1..Len(cut) /\ \A n \in 1..Len(cut) : cut[n] = s[n]
    /\ Len(cut) < limit => Len(cut) = Len(s)

\* a list that is cut to its limit
LEMMA CutIs ==
    ASSUME NEW S, NEW s \in Seq(S), NEW limit \in Nat, NEW cut, cut = SubSeq(s, 1, Min({limit, Len(s)}))
    PROVE  CutTo(limit, s, cut)
<1> DEFINE N == Len(s) m == Min({limit, N})
<1>1. N \in Nat
  OBVIOUS
<1>2. m = IF limit <= N THEN limit ELSE N
  BY <1>1, SmallerIs
<1>3. cut = SubSeq(s, 1, m)
  OBVIOUS
<1> HIDE DEF m
<1>4. m \in 0..N /\ (m < limit => m = N)
  BY <1>1, <1>2
<1> DEFINE t == SubSeq(s, 1, m)
<1>5. t = [n \in 1..m |-> s[n]]
  BY <1>4
<1>6. \A n \in 1..m : s[n] \in S
  BY <1>1, <1>4
<1> HIDE DEF t
<1>7. t = [n \in 1..m |-> t[n]] /\ \A n \in 1..m : t[n] = s[n] /\ t[n] \in S
  BY <1>5, <1>6
<1>8. Len(t) = m /\ DOMAIN t = 1..m
  BY <1>4, <1>7, SeqBuilt
<1>9. cut = t
  BY <1>3 DEF t
<1> HIDE DEF N
<1>10. Len(cut) = m /\ DOMAIN cut = 1..m /\ \A n \in 1..m : cut[n] = s[n]
  BY <1>7, <1>8, <1>9, Zenon
<1> QED BY <1>4, <1>10 DEF N, CutTo

BeginsWith(e, s) == Len(e) <= Len(s) /\ \A n \in 1..Len(e) : s[n] = e[n]

\* what comes first of two
LEMMA JoinBegins == ASSUME NEW S, NEW e \in Seq(S), NEW r \in Seq(S) PROVE BeginsWith(e, e \o r)
<1>1. Len(e) \in Nat /\ Len(r) \in Nat /\ Len(e \o r) = Len(e) + Len(r)
  OBVIOUS
<1>2. \A n \in 1..Len(e) : (e \o r)[n] = e[n]
  OBVIOUS
<1> QED BY <1>1, <1>2 DEF BeginsWith

\* what is listed of a sequence that begins with the errors
LEMMA CutKeepsFirst ==
    ASSUME NEW S, NEW e \in Seq(S), NEW s \in Seq(S), BeginsWith(e, s), NEW limit, NEW cut, CutTo(limit, s, cut)
    PROVE  Range(e) \subseteq Range(cut) \/ Range(cut) \subseteq Range(e)
<1> DEFINE E == Len(e) m == Len(cut)
<1>1. E \in Nat /\ DOMAIN e = 1..E /\ \A n \in 1..E : s[n] = e[n]
  BY DEF BeginsWith
<1>2. m \in Nat /\ DOMAIN cut = 1..m /\ \A n \in 1..m : cut[n] = s[n]
  BY DEF CutTo
<1> HIDE DEF E, m
<1>3. CASE E <= m
  <2>1. \A n \in 1..E : n \in 1..m
    BY <1>1, <1>2, <1>3
  <2> QED BY <1>1, <1>2, <2>1, Zenon DEF Range
<1>4. CASE ~(E <= m)
  <2>1. \A n \in 1..m : n \in 1..E
    BY <1>1, <1>2, <1>4
  <2> QED BY <1>1, <1>2, <2>1, Zenon DEF Range
<1> QED BY <1>3, <1>4

\* so what is cut off is never worse than what is listed
LEMMA WorstIsFirst == ASSUME health \in Reports PROVE WorstFirst
<1> DEFINE S == IssuesOf(HookTools) all == Issues
           Of(l) == {n \in DOMAIN all : all[n].level = l}
           e == Picked(all, Of("error")) w == Picked(all, Of("warn")) i == Picked(all, Of("info"))
           cut == ListedIssues
<1>1. all \in Seq(S)
  BY IssuesAre
<1>2. cut = SubSeq(ByLevel(all), 1, Min({IssueRows, Len(ByLevel(all))}))
  BY DEF ListedIssues
<1>3. ByLevel(all) = (e \o w) \o i
  BY DEF ByLevel
<1>4. HealthFigure = Cardinality({n \in DOMAIN all : all[n].level \in {"error", "warn"}})
  BY DEF HealthFigure
<1>5. \A t \in DOMAIN health.hooks : ~IsSelected(t, ticked) => \A x \in Range(all) : x.id # <<"hooks", t>>
  <2> SUFFICES ASSUME NEW t \in DOMAIN health.hooks, ~IsSelected(t, ticked), NEW x \in Range(all), x.id = <<"hooks", t>>
               PROVE  FALSE
    OBVIOUS
  <2>1. x \in S
    <3> HIDE DEF S, all
    <3> QED BY <1>1 DEF Range
  <2>2. x.id \in OwnIds \cup {<<"hooks", u>> : u \in HookTools}
    BY <2>1 DEF IssuesOf
  <2>3. CASE x.id \in OwnIds
    BY <2>3 DEF OwnIds
  <2>4. CASE x.id \in {<<"hooks", u>> : u \in HookTools}
    BY <2>4 DEF HookTools
  <2> QED BY <2>2, <2>3, <2>4
<1> HIDE DEF S, all, cut
<1>6. /\ e \in Seq(S) /\ Len(e) = Cardinality(Of("error")) /\ IsFiniteSet(Of("error"))
      /\ \A x \in Range(e) : x.level = "error"
      /\ \A x \in Range(all) : x.level = "error" => x \in Range(e)
  <2> DEFINE Q == Of("error") t == Picked(all, Q)
  <2>1. Q = {n \in DOMAIN all : all[n].level = "error"} /\ t = Picked(all, Q)
    OBVIOUS
  <2> HIDE DEF Q, t
  <2>2. OfLevel(S, all, "error", Q, t)
    BY <1>1, <2>1, LevelIs
  <2> QED BY <2>2 DEF Q, t, OfLevel
<1>7. w \in Seq(S) /\ Len(w) = Cardinality(Of("warn")) /\ IsFiniteSet(Of("warn"))
  <2> DEFINE Q == Of("warn") t == Picked(all, Q)
  <2>1. Q = {n \in DOMAIN all : all[n].level = "warn"} /\ t = Picked(all, Q)
    OBVIOUS
  <2> HIDE DEF Q, t
  <2>2. OfLevel(S, all, "warn", Q, t)
    BY <1>1, <2>1, LevelIs
  <2> QED BY <2>2 DEF Q, t, OfLevel
<1>8. i \in Seq(S)
  <2> DEFINE Q == Of("info") t == Picked(all, Q)
  <2>1. Q = {n \in DOMAIN all : all[n].level = "info"} /\ t = Picked(all, Q)
    OBVIOUS
  <2> HIDE DEF Q, t
  <2>2. OfLevel(S, all, "info", Q, t)
    BY <1>1, <2>1, LevelIs
  <2> QED BY <2>2 DEF Q, t, OfLevel
<1> DEFINE both == Of("error") \cup Of("warn") ce == Cardinality(Of("error")) cw == Cardinality(Of("warn"))
<1>9. Cardinality(both) <= ce + cw /\ ce \in Nat /\ cw \in Nat /\ Cardinality(both) \in Nat
  <2>1. both = Of("error") \cup Of("warn") /\ ce = Cardinality(Of("error")) /\ cw = Cardinality(Of("warn"))
    OBVIOUS
  <2> HIDE DEF Of, both, ce, cw
  <2>2. ce \in Nat /\ cw \in Nat /\ Cardinality(Of("error") \cap Of("warn")) \in Nat
    BY <1>6, <1>7, <2>1, FS_Intersection, FS_CardinalityType
  <2>3. IsFiniteSet(both) /\ Cardinality(both) = ce + cw - Cardinality(Of("error") \cap Of("warn"))
    BY <1>6, <1>7, <2>1, FS_Union
  <2>4. Cardinality(both) \in Nat
    BY <2>3, FS_CardinalityType
  <2> QED BY <2>2, <2>3, <2>4
<1>10. HealthFigure = Cardinality(both)
  <2>1. both = {n \in DOMAIN all : all[n].level \in {"error", "warn"}}
    OBVIOUS
  <2> HIDE DEF both
  <2> QED BY <1>4, <2>1 DEF all
<1>11. Len(e) = ce /\ Len(w) = cw
  BY <1>6, <1>7
<1> DEFINE r == w \o i sorted == ByLevel(all)
<1>12. sorted = e \o r /\ r \in Seq(S) /\ Len(sorted) = Len(e) + Len(w) + Len(i) /\ Len(i) \in Nat
  <2> HIDE DEF e, w, i
  <2>1. (e \o w) \o i = e \o (w \o i)
    BY <1>6, <1>7, <1>8
  <2>2. Len(e \o w) = Len(e) + Len(w) /\ e \o w \in Seq(S)
    BY <1>6, <1>7
  <2>3. Len((e \o w) \o i) = Len(e \o w) + Len(i) /\ Len(i) \in Nat
    BY <1>8, <2>2
  <2>4. w \o i \in Seq(S)
    BY <1>7, <1>8
  <2> QED BY <1>3, <2>1, <2>2, <2>3, <2>4
<1>13. IssueRows \in Nat \ {0}
  BY ScreenBounds
<1>14. cut = SubSeq(sorted, 1, Min({IssueRows, Len(sorted)}))
  BY <1>2
<1> HIDE DEF e, w, i, r, sorted, both, ce, cw
<1>15. /\ Range(e) \subseteq Range(cut) \/ Range(cut) \subseteq Range(e)
       /\ Len(cut) < IssueRows => Len(cut) = Len(sorted)
  <2>1. BeginsWith(e, sorted)
    BY <1>6, <1>12, JoinBegins
  <2>2. e \in Seq(S) /\ sorted \in Seq(S)
    BY <1>6, <1>12
  <2>3. CutTo(IssueRows, sorted, cut)
    BY <1>13, <1>14, <2>2, CutIs
  <2>4. Range(e) \subseteq Range(cut) \/ Range(cut) \subseteq Range(e)
    BY <2>1, <2>2, <2>3, CutKeepsFirst
  <2> QED BY <2>3, <2>4 DEF CutTo
<1>16. \A x \in Range(all) : x.level = "error" => x \in Range(cut) \/ \A j \in Range(cut) : j.level = "error"
  BY <1>6, <1>15
<1>17. Len(cut) < IssueRows => HealthFigure <= Len(cut)
  BY <1>9, <1>10, <1>11, <1>12, <1>15
<1> QED BY <1>5, <1>16, <1>17 DEF WorstFirst, all, cut

(* All screens ---------------------------------------------------------------- *)

\* what the screens show, in every state
LEMMA ScreensHeld == ASSUME ScreenTypeOK PROVE ScreensHold
<1>1. ScopeSound /\ groupBy \in GroupModes /\ health \in Reports
  BY DEF ScreenTypeOK, ScopeTypeOK, ScopeSound
<1> QED BY <1>1, MapSums, ScreensAgreed, ProcsAreDrawn, ReportsCount, WorstIsFirst DEF ScreensHold

\* The figures of the detail screens add up to the rows that they are of: the map of the context in each of
\* its divisions, the overview, the cards, the trees of processes, the report about an agent, and what needs
\* attention with the errors first.
THEOREM ScreensAddUp == ScreenSpec => []ScreensHold
<1>1. ScreenTypeOK => ScreensHold
  BY ScreensHeld
<1> QED BY <1>1, ScreensTyped, PTL

(* The whole page ----------------------------------------------------------- *)

\* On the whole page the tables of the board lose no row, show each once and in order, and their groups add up
\* (panels.js, Table.js), for any rows.
THEOREM TablesAreShown == Spec => []TablesTell
BY UserPartsRun, TablesKeepRows, PTL DEF TablesTell

\* On the whole page a chart's bands and legend add up to its data, and what is marked is the time it selects
\* (Chart.js), for any series.
THEOREM ChartsAreShown == Spec => ChartsTell
<1>1. [Next]_allVars /\ [MarkedIsSelected]_chartVars => [part = "chart" => MarkedIsSelected]_allVars
  BY DEF Next, allVars, boardPart
<1> QED BY <1>1, UserPartsRun, ChartsAddUp, MarksSelect, PTL DEF Spec, ChartsTell

\* On the whole page the filter hides nothing without a word, the cards agree with the snapshot and with each
\* other, and a tool that is ticked changes no other, for any snapshots.
THEOREM ScreensAreShown == Spec => ScreensTell
<1>1. [Next]_allVars /\ [ToggleChangesOne]_screenVars => [part = "screens" => ToggleChangesOne]_allVars
  BY DEF Next, allVars, detailPart
<1> QED BY <1>1, UserPartsRun, FilterHides, ScreensAddUp, ToolsToggleAlone, PTL DEF Spec, ScreensTell

\* On the whole page every session id that was reported finds one row, the picked one is shown while it is
\* listed, and an agent that is switched changes no other, for any answers.
THEOREM SessionsAreShown == Spec => RowsTell
<1>1. [Next]_allVars /\ [AgentAlone]_rowVars => [part = "rows" => AgentAlone]_allVars
  BY DEF Next, allVars, detailPart
<1> QED BY <1>1, UserPartsRun, ListsHold, AgentsToggleAlone, PTL DEF Spec, RowsTell

\* On the whole page the transcript tells every event of a flow once and in its turn, and all turns unfold or
\* none, for any finite flows.
THEOREM FlowsAreShown == Spec => FlowTells
<1>1. [Next]_allVars /\ [AllOrNone]_flowVars => [part = "flow" => AllOrNone]_allVars
  BY DEF Next, allVars, detailPart
<1> QED BY <1>1, UserPartsRun, FlowTold, UnfoldsAllOrNone, PTL DEF Spec, FlowTells

\* On the whole page the data table lists the rows that the text is found in, in the order chosen, and only
\* the reader folds a row, for any data.
THEOREM GridsAreShown == Spec => GridTells
<1>1. [Next]_allVars /\ [FoldsByRow]_gridVars => [part = "grid" => FoldsByRow]_allVars
  BY DEF Next, allVars, detailPart
<1> QED BY <1>1, UserPartsRun, RowsStayInOrder, RowsFoldByKey, PTL DEF Spec, GridTells

\* On the whole page the key runs the command that is marked, a tab is where it was left, a view that is applied
\* is shown, and a notice waits while it is held, for any commands, views and notices.
THEOREM FrameIsShown == Spec => ShellTells
<1>1. [Next]_allVars /\ [ViewsMatch]_shellVars /\ [HeldPauses]_shellVars => [part = "shell" => ViewsMatch /\ HeldPauses]_allVars
  BY DEF Next, allVars, detailPart
<1> QED BY <1>1, UserPartsRun, FrameHolds, AppliedIsShown, HeldNoticesPause, PTL DEF Spec, ShellTells

=============================================================================
