-------------------------- MODULE AuditCacheProofs --------------------------
(***************************************************************************)
(* Theorems about AuditCache for any number of keys, requests, browsers,   *)
(* entries and changes of the disk: the type invariant, that one scan of a *)
(* key runs at a time, that refresh is answered by a later run, and that   *)
(* the kept audit only becomes newer, each while its key keeps its lock.   *)
(***************************************************************************)
EXTENDS AuditCache, FiniteSetTheorems, TLAPS

(* Types ------------------------------------------------------------------ *)

\* Evict keeps the bound: an entry goes for the one that comes.
LEMMA EvictBounded ==
    ASSUME NEW k \in Keys, kept \subseteq Keys, Cardinality(kept) <= MaxEntries, Evict(k)
    PROVE  Cardinality(kept') <= MaxEntries
<1>1. IsFiniteSet(kept) /\ Cardinality(kept) \in Nat
  BY KeysFinite, FS_Subset, FS_CardinalityType
<1>2. CASE Cardinality(kept) >= MaxEntries /\ k \notin kept
  <2>1. PICK o \in kept : kept' = (kept \ {o}) \cup {k}
    BY <1>2 DEF Evict, Oldest
  <2>2. IsFiniteSet(kept \ {o}) /\ Cardinality(kept \ {o}) = Cardinality(kept) - 1
    BY <1>1, <2>1, FS_RemoveElement
  <2>3. Cardinality(kept') = Cardinality(kept \ {o}) + 1
    BY <1>2, <2>1, <2>2, FS_AddElement
  <2> QED BY <1>1, <2>2, <2>3
<1>3. CASE ~(Cardinality(kept) >= MaxEntries /\ k \notin kept)
  <2>1. kept' = kept \cup {k}
    BY <1>3 DEF Evict
  <2>2. CASE k \in kept
    <3>1. kept' = kept BY <2>1, <2>2
    <3> QED BY <3>1
  <2>3. CASE k \notin kept
    <3>1. Cardinality(kept') = Cardinality(kept) + 1
      BY <1>1, <2>1, <2>3, FS_AddElement
    <3> QED BY <1>1, <1>3, <2>3, <3>1, BoundsAreNumbers
  <2> QED BY <2>2, <2>3
<1> QED BY <1>2, <1>3

\* The part of TypeOK that a step inside get can change.
CallOK ==
    /\ jobs = {k \in Keys : pc[k] # "idle"}
    /\ pc \in [Threads -> {"idle", "start", "enter", "wait", "look", "compare", "scan", "failed", "ended"}]
    /\ refresh \in [Threads -> BOOLEAN]
    /\ arrived \in [Threads -> Nat] /\ got \in [Threads -> Nat] /\ hit \in [Threads -> Nat]
    /\ lock \in [Threads -> Locks \cup {0}]

LEMMA ScanTyped ==
    ASSUME TypeOK, NEW t \in Threads, pc[t] # "idle", Scan(t), UNCHANGED jobs
    PROVE  CallOK'
BY DEF TypeOK, CallOK, Scan, Threads

LEMMA LeaveTyped ==
    ASSUME TypeOK, NEW t \in Threads, pc[t] # "idle", NEW to \in {"ended", "failed"},
           Leave(t, to), UNCHANGED jobs
    PROVE  CallOK'
<1>1. jobs' = {k \in Keys : pc'[k] # "idle"}
  BY NamesApart DEF TypeOK, Leave, Threads
<1> QED BY <1>1 DEF TypeOK, CallOK, Leave

LEMMA TypeStep == TypeOK /\ [AuditNext]_vars => TypeOK'
<1> SUFFICES ASSUME TypeOK, [AuditNext]_vars PROVE TypeOK'
  OBVIOUS
<1> USE NamesApart, LocksNumbered, BoundsAreNumbers DEF TypeOK, Threads
<1>1. ASSUME NEW g \in Getters, NEW k \in Keys, NEW again \in BOOLEAN, Get(g, k, again)
      PROVE  TypeOK'
  BY <1>1 DEF Get, cacheVars, clientVars
<1>2. ASSUME NEW t \in Threads, FindLock(t) PROVE TypeOK'
  <2>1. lock' \in [Threads -> Locks \cup {0}] /\ lockOf' \in [Keys -> Locks \cup {0}]
    BY <1>2 DEF FindLock
  <2>2. /\ pc' = [pc EXCEPT ![t] = "wait"] /\ pc[t] = "enter"
        /\ UNCHANGED <<now, disk, cacheVars, jobs, errors, callVars, got, hit, clientVars, gets, cut>>
    BY <1>2 DEF FindLock
  <2> QED BY <2>1, <2>2 DEF cacheVars, callVars, clientVars
<1>3. ASSUME NEW t \in Threads, Acquire(t) PROVE TypeOK'
  BY <1>3 DEF Acquire, cacheVars, callVars, clientVars
<1>4. ASSUME NEW t \in Threads, Look(t) PROVE TypeOK'
  <2>1. pc[t] # "idle" /\ UNCHANGED jobs
    BY <1>4 DEF Look
  <2>2. CASE Scan(t)
    <3>1. CallOK' BY <2>1, <2>2, ScanTyped
    <3> QED BY <1>4, <3>1 DEF CallOK, Look, cacheVars, clientVars
  <2>3. CASE Leave(t, "ended")
    <3>1. CallOK' BY <2>1, <2>3, LeaveTyped
    <3> QED BY <1>4, <3>1 DEF CallOK, Look, cacheVars, clientVars
  <2>4. CASE /\ pc' = [pc EXCEPT ![t] = "compare"] /\ hit' = [hit EXCEPT ![t] = stored[key[t]]]
             /\ UNCHANGED <<refresh, arrived, lock, got>>
    BY <1>4, <2>1, <2>4 DEF Look, cacheVars, clientVars
  <2> QED BY <1>4, <2>2, <2>3, <2>4 DEF Look
<1>5. ASSUME NEW t \in Threads, Compare(t) PROVE TypeOK'
  <2>1. pc[t] # "idle" /\ UNCHANGED jobs
    BY <1>5 DEF Compare
  <2>2. CASE Scan(t)
    <3>1. CallOK' BY <2>1, <2>2, ScanTyped
    <3> QED BY <1>5, <3>1 DEF CallOK, Compare, cacheVars, clientVars
  <2>3. CASE Leave(t, "ended")
    <3>1. CallOK' BY <2>1, <2>3, LeaveTyped
    <3> QED BY <1>5, <3>1 DEF CallOK, Compare, cacheVars, clientVars
  <2> QED BY <1>5, <2>2, <2>3 DEF Compare
<1>6. ASSUME NEW t \in Threads, ScanEnds(t) PROVE TypeOK'
  <2>1. Cardinality(kept') <= MaxEntries
    BY <1>6, EvictBounded DEF ScanEnds
  <2>2. /\ kept' \subseteq Keys /\ cut' \subseteq Keys
        /\ lockOf' \in [Keys -> Locks \cup {0}]
    BY <1>6 DEF ScanEnds, Evict
  <2>3. stored' \in [Keys -> Nat] /\ result' \in [Keys -> Nat]
    BY <1>6 DEF ScanEnds
  <2>4. CallOK'
    BY <1>6, LeaveTyped DEF ScanEnds
  <2> QED BY <1>6, <2>1, <2>2, <2>3, <2>4 DEF ScanEnds, CallOK, clientVars
<1>7. ASSUME NEW t \in Threads, ScanFails(t) PROVE TypeOK'
  BY <1>7 DEF ScanFails, Leave, cacheVars, clientVars
<1>8. ASSUME NEW k \in Keys, JobBegins(k) PROVE TypeOK'
  BY <1>8 DEF JobBegins, cacheVars, clientVars
<1>9. ASSUME NEW k \in Keys, KeepError(k) PROVE TypeOK'
  BY <1>9 DEF KeepError, cacheVars, callVars, clientVars
<1>10. ASSUME NEW k \in Keys, JobEnds(k) PROVE TypeOK'
  BY <1>10 DEF JobEnds, cacheVars, callVars, clientVars
<1>11. ASSUME NEW c \in Clients, NEW again \in BOOLEAN, Ask(c, again) PROVE TypeOK'
  BY <1>11 DEF Ask, cacheVars, callVars
<1>12. ASSUME NEW c \in Clients, PollAgain(c) PROVE TypeOK'
  BY <1>12 DEF PollAgain, cacheVars, callVars
<1>13. ASSUME NEW c \in Clients, Enlist(c) PROVE TypeOK'
  BY <1>13, WantedAreKeys DEF Enlist, cacheVars, callVars
<1>14. ASSUME World PROVE TypeOK'
  BY <1>14 DEF World, Tick, DiskChanges, cacheVars, callVars, clientVars
<1>15. ASSUME UNCHANGED vars PROVE TypeOK'
  BY <1>15 DEF vars, cacheVars, callVars, clientVars
<1> HIDE DEF TypeOK, Threads
<1> QED
  BY <1>1, <1>2, <1>3, <1>4, <1>5, <1>6, <1>7, <1>8, <1>9, <1>10, <1>11, <1>12, <1>13, <1>14, <1>15
  DEF AuditNext, ThreadStep, JobStep, ClientStep

LEMMA TypeInit == AuditInit => TypeOK
<1> SUFFICES ASSUME AuditInit PROVE TypeOK
  OBVIOUS
<1>1. Cardinality(kept) = 0
  BY FS_EmptySet DEF AuditInit
<1> QED BY <1>1, BoundsAreNumbers DEF AuditInit, TypeOK, Threads

\* The cache stays within its bound, and the jobs it lists are the running
\* ones, so that no browser waits for a job that is gone (_run_job, get).
THEOREM AuditTypeCorrect == AuditSpec => []TypeOK
BY TypeInit, TypeStep, PTL DEF AuditSpec

-----------------------------------------------------------------------------
(* One scan at a time ----------------------------------------------------- *)

\* A request that waits for a lock or has it uses the lock that _key_locks
\* lists for its key, unless eviction took it from there.
LockListed ==
    /\ \A t \in Threads : pc[t] \in Holding \cup {"wait"} <=> lock[t] # 0
    /\ \A t \in Threads : lock[t] # 0 /\ key[t] \notin cut => lock[t] = lockOf[key[t]]

\* No two threads are in the critical section of one lock.
Excludes ==
    \A t, u \in Threads :
        pc[t] \in Holding /\ pc[u] \in Holding /\ lock[t] = lock[u] => t = u

LockInv == LockListed /\ Excludes

\* In the critical section of its lock a thread stays in it or leaves it.
LEMMA StaysOrLeaves ==
    ASSUME TypeOK, LockInv, NEW t \in Threads, pc[t] \in Holding,
           UNCHANGED <<key, lockOf, cut>>,
           \/ \E p \in Holding : pc' = [pc EXCEPT ![t] = p] /\ UNCHANGED lock
           \/ Leave(t, "ended") \/ Leave(t, "failed")
    PROVE  LockInv'
<1> USE DEF TypeOK, LockInv, LockListed, Excludes, Holding
<1>1. CASE \E p \in Holding : pc' = [pc EXCEPT ![t] = p] /\ UNCHANGED lock
  BY <1>1
<1>2. CASE Leave(t, "ended") \/ Leave(t, "failed")
  <2>1. /\ pc'[t] \in {"idle", "ended", "failed"} /\ \A u \in Threads \ {t} : pc'[u] = pc[u]
        /\ lock' = [lock EXCEPT ![t] = 0]
    BY <1>2 DEF Leave
  <2> QED BY <2>1
<1> QED BY <1>1, <1>2

LEMMA LockStep == TypeOK /\ LockInv /\ [AuditNext]_vars => LockInv'
<1> SUFFICES ASSUME TypeOK, LockInv, [AuditNext]_vars PROVE LockInv'
  OBVIOUS
<1> USE DEF TypeOK, Threads, LockInv, LockListed, Excludes, Holding
<1>1. ASSUME NEW g \in Getters, NEW k \in Keys, NEW again \in BOOLEAN, Get(g, k, again)
      PROVE  LockInv'
  BY <1>1 DEF Get
<1>2. ASSUME NEW t \in Threads, FindLock(t) PROVE LockInv'
  <2>1. CASE lockOf[key[t]] # 0
    BY <1>2, <2>1 DEF FindLock, callVars
  <2>2. CASE lockOf[key[t]] = 0
    <3>1. PICK l \in Locks : /\ lock' = [lock EXCEPT ![t] = l]
                             /\ lockOf' = [lockOf EXCEPT ![key[t]] = l]
      BY <1>2, <2>2 DEF FindLock
    <3>2. \A u \in Threads : key[u] = key[t] /\ key[t] \notin cut => lock[u] = 0
      BY <2>2
    <3> QED BY <1>2, <3>1, <3>2, LocksNumbered DEF FindLock, callVars
  <2> QED BY <2>1, <2>2
<1>3. ASSUME NEW t \in Threads, Acquire(t) PROVE LockInv'
  BY <1>3 DEF Acquire, Holds, callVars
<1>4. ASSUME NEW t \in Threads, Look(t) PROVE LockInv'
  <2>1. pc[t] \in Holding /\ UNCHANGED <<key, lockOf, cut>>
    BY <1>4 DEF Look
  <2>2. \/ \E p \in Holding : pc' = [pc EXCEPT ![t] = p] /\ UNCHANGED lock
        \/ Leave(t, "ended")
    BY <1>4 DEF Look, Scan
  <2> QED BY <2>1, <2>2, StaysOrLeaves
<1>5. ASSUME NEW t \in Threads, Compare(t) PROVE LockInv'
  <2>1. pc[t] \in Holding /\ UNCHANGED <<key, lockOf, cut>>
    BY <1>5 DEF Compare
  <2>2. \/ \E p \in Holding : pc' = [pc EXCEPT ![t] = p] /\ UNCHANGED lock
        \/ Leave(t, "ended")
    BY <1>5 DEF Compare, Scan
  <2> QED BY <2>1, <2>2, StaysOrLeaves
<1>6. ASSUME NEW t \in Threads, ScanEnds(t) PROVE LockInv'
  <2>1. /\ pc[t] = "scan" /\ lock' = [lock EXCEPT ![t] = 0] /\ UNCHANGED key
        /\ \A u \in Threads \ {t} : pc'[u] = pc[u]
        /\ pc'[t] \in {"idle", "ended"}
    BY <1>6 DEF ScanEnds, Leave
  <2>2. CASE UNCHANGED <<lockOf, cut>>
    BY <2>1, <2>2
  <2>3. ASSUME NEW o \in Keys, lockOf' = [lockOf EXCEPT ![o] = 0],
               cut' = IF \E u \in Threads : key[u] = o /\ lock[u] # 0 THEN cut \cup {o} ELSE cut
        PROVE  LockInv'
    <3>1. \A u \in Threads : lock[u] # 0 /\ key[u] \notin cut' => key[u] # o /\ key[u] \notin cut
      BY <2>3
    <3> QED BY <2>1, <2>3, <3>1
  <2> QED BY <1>6, <2>2, <2>3 DEF ScanEnds, Evict
<1>7. ASSUME NEW t \in Threads, ScanFails(t) PROVE LockInv'
  BY <1>7, StaysOrLeaves DEF ScanFails
<1>8. ASSUME NEW k \in Keys, JobBegins(k) PROVE LockInv'
  BY <1>8 DEF JobBegins
<1>9. ASSUME NEW k \in Keys, KeepError(k) PROVE LockInv'
  BY <1>9 DEF KeepError, callVars
<1>10. ASSUME NEW k \in Keys, JobEnds(k) PROVE LockInv'
  BY <1>10 DEF JobEnds, callVars
<1>11. ASSUME NEW c \in Clients, NEW again \in BOOLEAN, Ask(c, again) PROVE LockInv'
  BY <1>11 DEF Ask, callVars
<1>12. ASSUME NEW c \in Clients, PollAgain(c) PROVE LockInv'
  BY <1>12 DEF PollAgain, callVars
<1>13. ASSUME NEW c \in Clients, Enlist(c) PROVE LockInv'
  BY <1>13, WantedAreKeys DEF Enlist, callVars
<1>14. ASSUME World PROVE LockInv'
  BY <1>14 DEF World, callVars
<1>15. ASSUME UNCHANGED vars PROVE LockInv'
  BY <1>15 DEF vars, callVars
<1> HIDE DEF TypeOK, Threads, LockInv
<1> QED
  BY <1>1, <1>2, <1>3, <1>4, <1>5, <1>6, <1>7, <1>8, <1>9, <1>10, <1>11, <1>12, <1>13, <1>14, <1>15
  DEF AuditNext, ThreadStep, JobStep, ClientStep

LEMMA LockInit == AuditInit => LockInv
BY DEF AuditInit, LockInv, LockListed, Excludes, Holding, Threads

LEMMA LockScan == TypeOK /\ LockInv => OneScan
BY DEF TypeOK, LockInv, LockListed, Excludes, OneScan, Holding

LEMMA LockAlways == AuditSpec => [](TypeOK /\ LockInv)
<1>1. TypeOK /\ LockInv /\ [AuditNext]_vars => (TypeOK /\ LockInv)'
  BY TypeStep, LockStep
<1> QED BY <1>1, TypeInit, LockInit, PTL DEF AuditSpec

\* Requests for one key wait for one run, whatever else is asked: two scans of
\* a key run at once only after eviction took its lock from a request (get).
THEOREM ScansExclude == AuditSpec => []OneScan
BY LockAlways, LockScan, PTL

-----------------------------------------------------------------------------
(* Refresh ---------------------------------------------------------------- *)

\* The audit that a refreshing request found kept is the one kept still, unless
\* its key lost its lock.
HitKept ==
    \A t \in Threads :
        pc[t] = "compare" /\ key[t] \notin cut => key[t] \in kept /\ hit[t] = stored[key[t]]

LEMMA HitStep == TypeOK /\ LockInv /\ HitKept /\ [AuditNext]_vars => HitKept'
<1> SUFFICES ASSUME TypeOK, LockInv, HitKept, [AuditNext]_vars PROVE HitKept'
  OBVIOUS
<1> USE DEF TypeOK, Threads, HitKept
<1>1. ASSUME NEW g \in Getters, NEW k \in Keys, NEW again \in BOOLEAN, Get(g, k, again)
      PROVE  HitKept'
  BY <1>1 DEF Get, cacheVars
<1>2. ASSUME NEW t \in Threads, FindLock(t) \/ Acquire(t) PROVE HitKept'
  BY <1>2 DEF FindLock, Acquire, cacheVars, callVars
<1>3. ASSUME NEW t \in Threads, Look(t) PROVE HitKept'
  <2>1. UNCHANGED <<kept, stored, key, cut>>
    BY <1>3 DEF Look, cacheVars
  <2>2. CASE Leave(t, "ended") \/ Scan(t)
    <3>1. /\ pc'[t] # "compare"
          /\ \A u \in Threads \ {t} : pc'[u] = pc[u] /\ hit'[u] = hit[u]
      BY <2>2 DEF Leave, Scan
    <3> QED BY <2>1, <3>1
  <2>3. CASE /\ Fresh(key[t]) /\ pc' = [pc EXCEPT ![t] = "compare"]
             /\ hit' = [hit EXCEPT ![t] = stored[key[t]]]
    BY <2>1, <2>3 DEF Fresh
  <2> QED BY <1>3, <2>2, <2>3 DEF Look
<1>4. ASSUME NEW t \in Threads, Compare(t) \/ ScanFails(t) PROVE HitKept'
  <2>1. UNCHANGED <<kept, stored, key, cut>>
    BY <1>4 DEF Compare, ScanFails, cacheVars
  <2>2. /\ pc'[t] # "compare"
        /\ \A u \in Threads \ {t} : pc'[u] = pc[u] /\ hit'[u] = hit[u]
    BY <1>4 DEF Compare, ScanFails, Leave, Scan
  <2> QED BY <2>1, <2>2
<1>5. ASSUME NEW t \in Threads, ScanEnds(t) PROVE HitKept'
  <2>1. /\ UNCHANGED key /\ pc[t] = "scan" /\ pc'[t] # "compare"
        /\ \A u \in Threads \ {t} : pc'[u] = pc[u] /\ hit'[u] = hit[u]
    BY <1>5 DEF ScanEnds, Leave
  <2>2. stored' = [stored EXCEPT ![key[t]] = now]
    BY <1>5 DEF ScanEnds
  <2>3. ASSUME NEW u \in Threads, pc'[u] = "compare", key[u] \notin cut'
        PROVE  key[u] \in kept' /\ hit'[u] = stored'[key[u]]
    <3>1. u # t /\ pc[u] = "compare" /\ lock[u] # 0
      BY <2>1, <2>3 DEF LockInv, LockListed, Holding
    <3>2. key[u] \notin cut /\ key[u] \in kept /\ hit[u] = stored[key[u]]
      BY <1>5, <2>3, <3>1 DEF ScanEnds, Evict
    <3>3. key[u] # key[t]
      BY <2>1, <3>1, <3>2 DEF LockInv, LockListed, Excludes, Holding
    <3>4. key[u] \in kept'
      BY <1>5, <2>3, <3>1, <3>2 DEF ScanEnds, Evict
    <3> QED BY <2>1, <2>2, <3>1, <3>2, <3>3, <3>4
  <2> QED BY <2>1, <2>3
<1>6. ASSUME NEW k \in Keys, JobStep(k) PROVE HitKept'
  BY <1>6 DEF JobStep, JobBegins, KeepError, JobEnds, cacheVars, callVars
<1>7. ASSUME NEW c \in Clients, NEW again \in BOOLEAN, Ask(c, again) PROVE HitKept'
  BY <1>7 DEF Ask, cacheVars, callVars
<1>8. ASSUME NEW c \in Clients, ClientStep(c) PROVE HitKept'
  BY <1>8, WantedAreKeys DEF ClientStep, PollAgain, Enlist, cacheVars, callVars
<1>9. ASSUME World \/ UNCHANGED vars PROVE HitKept'
  BY <1>9 DEF World, vars, cacheVars, callVars
<1> HIDE DEF TypeOK, Threads, HitKept
<1> QED
  BY <1>1, <1>2, <1>3, <1>4, <1>5, <1>6, <1>7, <1>8, <1>9 DEF AuditNext, ThreadStep

\* Only Compare takes a thread from the comparison out of get.
LEMMA OnlyCompare ==
    ASSUME TypeOK, [AuditNext]_vars, NEW t \in Threads, pc[t] = "compare", pc'[t] \in {"idle", "ended"}
    PROVE  Compare(t)
<1> USE DEF TypeOK, Threads
<1>1. ASSUME NEW u \in Threads, ThreadStep(u) PROVE u = t
  BY <1>1 DEF ThreadStep, FindLock, Acquire, Look, Compare, ScanEnds, ScanFails, Scan, Leave
<1>2. ASSUME NEW u \in Threads, ThreadStep(u) PROVE Compare(t)
  BY <1>1, <1>2 DEF ThreadStep, FindLock, Acquire, Look, ScanEnds, ScanFails
<1>3. \A g \in Getters, k \in Keys, again \in BOOLEAN : ~Get(g, k, again)
  BY DEF Get
<1>4. \A k \in Keys : ~JobStep(k)
  BY DEF JobStep, JobBegins, KeepError, JobEnds
<1>5. \A c \in Clients : ~ClientStep(c) /\ \A again \in BOOLEAN : ~Ask(c, again)
  BY WantedAreKeys DEF ClientStep, PollAgain, Enlist, Ask
<1>6. ~World /\ ~UNCHANGED vars
  BY DEF World, vars
<1> HIDE DEF TypeOK, Threads
<1> QED BY <1>2, <1>3, <1>4, <1>5, <1>6 DEF AuditNext

\* A request with refresh that is answered with what another run stored is
\* answered with what was stored after it arrived, unless its key lost its lock
\* meanwhile: what Look found is what Compare looks at (get).
THEOREM RefreshIsLater == AuditSpec => RefreshRunsAgain
<1>1. AuditInit => HitKept
  BY DEF AuditInit, HitKept, Threads
<1>2. ASSUME TypeOK, HitKept, [AuditNext]_vars,
             NEW t \in Threads, pc[t] = "compare", pc'[t] \in {"idle", "ended"}, key[t] \notin cut
      PROVE  hit[t] > arrived[t]
  <2>1. Compare(t)
    BY <1>2, OnlyCompare
  <2>2. key[t] \in kept /\ stored[key[t]] > arrived[t]
    BY <1>2, <2>1 DEF Compare, Scan, TypeOK
  <2> QED BY <1>2, <2>2 DEF HitKept
<1>3. TypeOK /\ HitKept /\ [AuditNext]_vars
        => [\A t \in Threads :
              pc[t] = "compare" /\ pc'[t] \in {"idle", "ended"} /\ key[t] \notin cut
                => hit[t] > arrived[t]]_vars
  BY <1>2
<1> QED BY <1>1, <1>3, HitStep, LockAlways, TypeInit, TypeStep, LockInit, LockStep, PTL
        DEF AuditSpec, RefreshRunsAgain

-----------------------------------------------------------------------------
(* What is kept becomes newer --------------------------------------------- *)

\* What is kept was on the disk, and a scan under way began after what is kept
\* for its key was read, unless the key lost its lock.
Ordered ==
    /\ \A k \in Keys : result[k] <= disk
    /\ \A t \in Threads :
          pc[t] = "scan" /\ key[t] \notin cut /\ key[t] \in kept => result[key[t]] <= got[t]

LEMMA OrderedStep == TypeOK /\ OneScan /\ Ordered /\ [AuditNext]_vars => Ordered'
<1> SUFFICES ASSUME TypeOK, OneScan, Ordered, [AuditNext]_vars PROVE Ordered'
  OBVIOUS
<1> USE DEF TypeOK, Threads, Ordered
<1>1. ASSUME NEW g \in Getters, NEW k \in Keys, NEW again \in BOOLEAN, Get(g, k, again)
      PROVE  Ordered'
  BY <1>1 DEF Get, cacheVars
<1>2. ASSUME NEW t \in Threads, FindLock(t) \/ Acquire(t) PROVE Ordered'
  BY <1>2 DEF FindLock, Acquire, cacheVars, callVars
<1>3. ASSUME NEW t \in Threads, Look(t) \/ Compare(t) \/ ScanFails(t) PROVE Ordered'
  <2>1. UNCHANGED <<disk, kept, result, key, cut>>
    BY <1>3 DEF Look, Compare, ScanFails, cacheVars
  <2>2. CASE Leave(t, "ended") \/ Leave(t, "failed")
    <3>1. /\ pc'[t] # "scan"
          /\ \A u \in Threads \ {t} : pc'[u] = pc[u] /\ got'[u] = got[u]
      BY <2>2 DEF Leave
    <3> QED BY <2>1, <3>1
  <2>3. CASE Scan(t)
    <3>1. /\ got'[t] = disk
          /\ \A u \in Threads \ {t} : pc'[u] = pc[u] /\ got'[u] = got[u]
      BY <2>3 DEF Scan
    <3> QED BY <2>1, <3>1
  <2>4. CASE pc' = [pc EXCEPT ![t] = "compare"] /\ UNCHANGED got
    BY <2>1, <2>4
  <2> QED BY <1>3, <2>2, <2>3, <2>4 DEF Look, Compare, ScanFails
<1>4. ASSUME NEW t \in Threads, ScanEnds(t) PROVE Ordered'
  <2>1. PICK seen \in got[t] .. disk : result' = [result EXCEPT ![key[t]] = seen]
    BY <1>4 DEF ScanEnds
  <2>2. /\ pc'[t] # "scan"
        /\ \A u \in Threads \ {t} : pc'[u] = pc[u] /\ got'[u] = got[u]
    BY <1>4 DEF ScanEnds, Leave
  <2>3. cut \subseteq cut' /\ \A k \in Keys \ {key[t]} : k \in kept' => k \in kept
    BY <1>4 DEF ScanEnds, Evict
  <2>4. pc[t] = "scan" /\ UNCHANGED <<disk, key>>
    BY <1>4 DEF ScanEnds
  <2>5. ASSUME NEW u \in Threads, pc'[u] = "scan", key'[u] \notin cut', key'[u] \in kept'
        PROVE  result'[key'[u]] <= got'[u]
    <3>1. u # t /\ key[u] # key[t]
      BY <2>2, <2>3, <2>4, <2>5 DEF OneScan
    <3> QED BY <2>1, <2>2, <2>3, <2>4, <2>5, <3>1
  <2> QED BY <2>1, <2>4, <2>5
<1>5. ASSUME NEW k \in Keys, JobStep(k) PROVE Ordered'
  BY <1>5 DEF JobStep, JobBegins, KeepError, JobEnds, cacheVars, callVars
<1>6. ASSUME NEW c \in Clients, NEW again \in BOOLEAN, Ask(c, again) PROVE Ordered'
  BY <1>6 DEF Ask, cacheVars, callVars
<1>7. ASSUME NEW c \in Clients, ClientStep(c) PROVE Ordered'
  BY <1>7, WantedAreKeys DEF ClientStep, PollAgain, Enlist, cacheVars, callVars
<1>8. ASSUME World PROVE Ordered'
  BY <1>8 DEF World, Tick, DiskChanges, cacheVars, callVars
<1>9. ASSUME UNCHANGED vars PROVE Ordered'
  BY <1>9 DEF vars, cacheVars, callVars
<1> HIDE DEF TypeOK, Threads, Ordered
<1> QED
  BY <1>1, <1>2, <1>3, <1>4, <1>5, <1>6, <1>7, <1>8, <1>9 DEF AuditNext, ThreadStep

\* What is kept changes only where a scan ends.
LEMMA OnlyScanEnds ==
    [AuditNext]_vars => UNCHANGED result \/ \E t \in Threads : ScanEnds(t)
BY DEF AuditNext, ThreadStep, JobStep, ClientStep, Get, FindLock, Acquire, Look, Compare, ScanFails,
       JobBegins, KeepError, JobEnds, Ask, PollAgain, Enlist, World, vars, cacheVars

\* A scan never replaces what a later one found, as long as its key has kept
\* its lock (get).
THEOREM KeptBecomesNewer == AuditSpec => NeverOlder
<1>1. AuditInit => Ordered
  BY DEF AuditInit, Ordered
<1>2. ASSUME TypeOK, Ordered, [AuditNext]_vars, NEW k \in kept \cap kept', k \notin cut
      PROVE  result[k] <= result'[k]
  <2>1. CASE UNCHANGED result
    BY <1>2, <2>1 DEF TypeOK
  <2>2. ASSUME NEW t \in Threads, ScanEnds(t) PROVE result[k] <= result'[k]
    <3>1. PICK seen \in got[t] .. disk : result' = [result EXCEPT ![key[t]] = seen]
      BY <2>2 DEF ScanEnds
    <3>2. pc[t] = "scan"
      BY <2>2 DEF ScanEnds
    <3> QED BY <1>2, <3>1, <3>2 DEF TypeOK, Ordered
  <2> QED BY <1>2, <2>1, <2>2, OnlyScanEnds
<1>3. TypeOK /\ Ordered /\ [AuditNext]_vars
        => [\A k \in kept \cap kept' : k \notin cut => result[k] <= result'[k]]_vars
  BY <1>2
<1>4. TypeOK /\ LockInv /\ Ordered /\ [AuditNext]_vars => Ordered'
  BY LockScan, OrderedStep
<1> QED BY <1>1, <1>3, <1>4, LockAlways, PTL DEF AuditSpec, NeverOlder
=============================================================================
