----------------------------- MODULE AuditCache -----------------------------
(***************************************************************************)
(* dashboard/audit_cache.py: the hidden-context audit kept for a while.    *)
(* Requests call get, which waits for the audit, or poll, which leaves it  *)
(* to a job thread and answers at once; the browser polls until it has an  *)
(* answer.  An audit walks the disk outside the cache's lock and under the *)
(* lock of its key, of which eviction may deprive it.                      *)
(*                                                                         *)
(* Every critical section of the cache's own lock is one step.  What an    *)
(* audit finds is the number of changes of the disk it has seen.           *)
(***************************************************************************)
EXTENDS Naturals, FiniteSets

CONSTANTS
    Keys,        \* (project, tool, home): what an audit is kept under
    Getters,     \* request threads that call get
    Clients,     \* browsers that poll,
    Wanted,      \* and what each asks for
    MaxEntries,  \* _MAX_ENTRIES
    TTL,         \* TTL_S in ticks of the clock
    Locks,       \* numbers for the lock objects of keys
    MaxNow,      \* bound: ticks of the clock
    MaxDisk,     \* bound: changes of the disk
    MaxGets      \* bound: requests that call get

\* The job thread of a key is named after it: there is one at a time.
Threads == Getters \cup Keys

ASSUME NamesApart == Getters \cap Keys = {} /\ Clients \cap Threads = {}
ASSUME KeysFinite == IsFiniteSet(Keys)
ASSUME WantedAreKeys == Wanted \in [Clients -> Keys]
ASSUME LocksNumbered == Locks \subseteq Nat \ {0}
ASSUME BoundsAreNumbers ==
    /\ TTL \in Nat /\ MaxEntries \in Nat \ {0}
    /\ MaxNow \in Nat /\ MaxDisk \in Nat /\ MaxGets \in Nat

VARIABLES
    now, disk,             \* the clock, and how often the disk has changed
    kept, stored, result,  \* _items: its keys, when each was stored, what it says
    lockOf,                \* _key_locks: the lock of a key, 0 if it has none
    jobs, errors,          \* the keys of _jobs and of _errors
    pc, key, refresh,      \* get: where a thread is in it, and its arguments,
    arrived, lock, got,    \* when it arrived, its lock, the disk it saw,
    hit,                   \* and when the audit was stored that it found kept
    stage,                 \* a client: where it is
    gets,                  \* how many requests have called get
    cut, rescan            \* ghosts: see Evict and Ask

cacheVars == <<kept, stored, result>>
callVars == <<key, refresh, arrived>>
clientVars == <<stage, rescan>>
vars == <<now, disk, cacheVars, lockOf, jobs, errors, pc, callVars, lock, got,
          hit, clientVars, gets, cut>>

AuditInit ==
    /\ now = 0 /\ disk = 0 /\ gets = 0
    /\ kept = {} /\ stored = [k \in Keys |-> 0] /\ result = [k \in Keys |-> 0]
    /\ lockOf = [k \in Keys |-> 0]
    /\ jobs = {} /\ errors = {}
    /\ pc = [t \in Threads |-> "idle"]
    /\ key \in [Threads -> Keys] /\ \A k \in Keys : key[k] = k
    /\ \A g, h \in Getters : key[g] = key[h]
    /\ refresh = [t \in Threads |-> FALSE]
    /\ arrived = [t \in Threads |-> 0]
    /\ lock = [t \in Threads |-> 0]
    /\ got = [t \in Threads |-> 0]
    /\ stage = [c \in Clients |-> "new"]
    /\ rescan = [c \in Clients |-> FALSE]
    /\ hit = [t \in Threads |-> 0]
    /\ cut = {}

-----------------------------------------------------------------------------
(* get *)

Fresh(k) == k \in kept /\ now < stored[k] + TTL

\* A request that the kept audit answers at once leaves no trace and is left out.
Get(g, k, again) ==
    /\ pc[g] = "idle" /\ gets < MaxGets
    /\ again \/ ~Fresh(k)
    /\ gets' = gets + 1
    /\ pc' = [pc EXCEPT ![g] = "enter"]
    /\ key' = [key EXCEPT ![g] = k]
    /\ refresh' = [refresh EXCEPT ![g] = again]
    /\ arrived' = [arrived EXCEPT ![g] = now]
    /\ UNCHANGED <<now, disk, cacheVars, lockOf, jobs, errors, lock, got, hit, clientVars, cut>>

\* The job thread enters get, always with refresh.
JobBegins(k) ==
    /\ pc[k] = "start"
    /\ pc' = [pc EXCEPT ![k] = "enter"]
    /\ refresh' = [refresh EXCEPT ![k] = TRUE]
    /\ arrived' = [arrived EXCEPT ![k] = now]
    /\ UNCHANGED <<now, disk, cacheVars, lockOf, jobs, errors, key, lock, got, hit, clientVars, gets, cut>>

\* A lock object that nobody refers to, the smallest: objects have no order.
Unused(l) == (\A k \in Keys : lockOf[k] # l) /\ (\A t \in Threads : lock[t] # l)
NewLock(l) == l \in Locks /\ Unused(l) /\ \A m \in Locks : m < l => ~Unused(m)

\* defect: the lock is looked up and stored without regard to the one there
FindLockAlwaysNew(t) ==
    /\ pc[t] = "enter"
    /\ \E l \in Locks :
          /\ NewLock(l)
          /\ lock' = [lock EXCEPT ![t] = l]
          /\ lockOf' = [lockOf EXCEPT ![key[t]] = l]
    /\ pc' = [pc EXCEPT ![t] = "wait"]
    /\ UNCHANGED <<now, disk, cacheVars, jobs, errors, callVars, got, hit, clientVars, gets, cut>>

\* _key_locks.setdefault(key, Lock())
FindLock(t) ==
    /\ pc[t] = "enter"
    /\ \/ /\ lockOf[key[t]] # 0
          /\ lock' = [lock EXCEPT ![t] = lockOf[key[t]]]
          /\ UNCHANGED lockOf
       \/ /\ lockOf[key[t]] = 0
          /\ \E l \in Locks :
                /\ NewLock(l)
                /\ lock' = [lock EXCEPT ![t] = l]
                /\ lockOf' = [lockOf EXCEPT ![key[t]] = l]
    /\ pc' = [pc EXCEPT ![t] = "wait"]
    /\ UNCHANGED <<now, disk, cacheVars, jobs, errors, callVars, got, hit, clientVars, gets, cut>>

Holding == {"look", "compare", "scan"}
Holds(t, l) == pc[t] \in Holding /\ lock[t] = l

\* with key_lock
Acquire(t) ==
    /\ pc[t] = "wait"
    /\ \A u \in Threads : ~Holds(u, lock[t])
    /\ pc' = [pc EXCEPT ![t] = "look"]
    /\ UNCHANGED <<now, disk, cacheVars, lockOf, jobs, errors, callVars, lock, got, hit, clientVars, gets, cut>>

\* The caller leaves get: a request is answered, a job thread has yet to end.
Leave(t, to) ==
    /\ pc' = [pc EXCEPT ![t] = IF t \in Getters THEN "idle" ELSE to]
    /\ refresh' = [refresh EXCEPT ![t] = FALSE]
    /\ arrived' = [arrived EXCEPT ![t] = 0]
    /\ lock' = [lock EXCEPT ![t] = 0]
    /\ got' = [got EXCEPT ![t] = 0]
    /\ hit' = [hit EXCEPT ![t] = 0]

\* defect: the key's lock is given back before the audit runs
ScanUnlocked(t) ==
    /\ pc' = [pc EXCEPT ![t] = "scan"]
    /\ got' = [got EXCEPT ![t] = disk]
    /\ hit' = [hit EXCEPT ![t] = 0]
    /\ lock' = [lock EXCEPT ![t] = 0]
    /\ UNCHANGED <<refresh, arrived>>

\* run_audit is called
Scan(t) ==
    /\ pc' = [pc EXCEPT ![t] = "scan"]
    /\ got' = [got EXCEPT ![t] = disk]
    /\ hit' = [hit EXCEPT ![t] = 0]
    /\ UNCHANGED <<refresh, arrived, lock>>

\* hit = self._fresh(key): another request may have run the audit meanwhile
Look(t) ==
    /\ pc[t] = "look"
    /\ \/ /\ ~Fresh(key[t])
          /\ Scan(t)
       \/ /\ Fresh(key[t]) /\ ~refresh[t]
          /\ Leave(t, "ended")
       \/ /\ Fresh(key[t]) /\ refresh[t]
          /\ pc' = [pc EXCEPT ![t] = "compare"]
          /\ hit' = [hit EXCEPT ![t] = stored[key[t]]]
          /\ UNCHANGED <<refresh, arrived, lock, got>>
    /\ UNCHANGED <<now, disk, cacheVars, lockOf, jobs, errors, key, clientVars, gets, cut>>

\* defect: an audit stored in the tick of the request counts as newer than it
CompareNotOlder(t) ==
    /\ pc[t] = "compare"
    /\ IF key[t] \in kept /\ stored[key[t]] >= arrived[t] THEN Leave(t, "ended") ELSE Scan(t)
    /\ UNCHANGED <<now, disk, cacheVars, lockOf, jobs, errors, key, clientVars, gets, cut>>

\* self._stored_at(key) > arrived; it is -inf if the key was evicted since Look.
\* The request is answered with what Look found, stored at hit[t], even if
\* another entry has taken its place.
Compare(t) ==
    /\ pc[t] = "compare"
    /\ IF key[t] \in kept /\ stored[key[t]] > arrived[t] THEN Leave(t, "ended") ELSE Scan(t)
    /\ UNCHANGED <<now, disk, cacheVars, lockOf, jobs, errors, key, clientVars, gets, cut>>

Oldest(o) == o \in kept /\ \A k \in kept : stored[o] <= stored[k]

\* defect: the bound is noticed one entry late
EvictLate(k) ==
    IF Cardinality(kept) > MaxEntries /\ k \notin kept
    THEN \E o \in Keys :
            /\ Oldest(o)
            /\ kept' = (kept \ {o}) \cup {k}
            /\ lockOf' = [lockOf EXCEPT ![o] = 0]
            /\ cut' = IF \E t \in Threads : key[t] = o /\ lock[t] # 0 THEN cut \cup {o} ELSE cut
    ELSE /\ kept' = kept \cup {k}
         /\ UNCHANGED <<lockOf, cut>>

\* Room for k: the oldest entry goes, its lock too.  "cut" holds the keys that
\* lost their lock while a request used it.
Evict(k) ==
    IF Cardinality(kept) >= MaxEntries /\ k \notin kept
    THEN \E o \in Keys :
            /\ Oldest(o)
            /\ kept' = (kept \ {o}) \cup {k}
            /\ lockOf' = [lockOf EXCEPT ![o] = 0]
            /\ cut' = IF \E t \in Threads : key[t] = o /\ lock[t] # 0 THEN cut \cup {o} ELSE cut
    ELSE /\ kept' = kept \cup {k}
         /\ UNCHANGED <<lockOf, cut>>

\* The audit returns what it read while it ran, and is stored.
ScanEnds(t) ==
    /\ pc[t] = "scan"
    /\ Evict(key[t])
    /\ stored' = [stored EXCEPT ![key[t]] = now]
    /\ \E seen \in got[t] .. disk : result' = [result EXCEPT ![key[t]] = seen]
    /\ Leave(t, "ended")
    /\ UNCHANGED <<now, disk, jobs, errors, key, clientVars, gets>>

\* run_audit raises: a request answers with it, a job keeps it in _errors.
ScanFails(t) ==
    /\ pc[t] = "scan"
    /\ Leave(t, "failed")
    /\ UNCHANGED <<now, disk, cacheVars, lockOf, jobs, errors, key, clientVars, gets, cut>>

-----------------------------------------------------------------------------
(* the rest of _run_job *)

\* defect: the job is taken off the list only when its audit did not fail
KeepErrorOnly(k) ==
    /\ pc[k] = "failed"
    /\ errors' = errors \cup {k}
    /\ pc' = [pc EXCEPT ![k] = "idle"]
    /\ UNCHANGED <<now, disk, cacheVars, lockOf, jobs, callVars, lock, got, hit, clientVars, gets, cut>>

KeepError(k) ==
    /\ pc[k] = "failed"
    /\ errors' = errors \cup {k}
    /\ pc' = [pc EXCEPT ![k] = "ended"]
    /\ UNCHANGED <<now, disk, cacheVars, lockOf, jobs, callVars, lock, got, hit, clientVars, gets, cut>>

JobEnds(k) ==
    /\ pc[k] = "ended"
    /\ jobs' = jobs \ {k}
    /\ pc' = [pc EXCEPT ![k] = "idle"]
    /\ UNCHANGED <<now, disk, cacheVars, lockOf, errors, callVars, lock, got, hit, clientVars, gets, cut>>

-----------------------------------------------------------------------------
(* poll, and the browser that calls it: once with refresh or without, then *)
(* without until it is answered                                            *)

\* The first call, up to the test of what is kept.  "rescan" remembers the Rescan button.
Ask(c, again) ==
    /\ stage[c] = "new"
    /\ stage' = [stage EXCEPT ![c] = CASE again -> "asked"
                                       [] ~again /\ Fresh(Wanted[c]) -> "done"
                                       [] OTHER -> "missed"]
    /\ rescan' = [rescan EXCEPT ![c] = again]
    /\ UNCHANGED <<now, disk, cacheVars, lockOf, jobs, errors, pc, callVars, lock, got, hit, gets, cut>>

\* A later call, up to the same test.
PollAgain(c) ==
    /\ stage[c] = "waiting"
    /\ stage' = [stage EXCEPT ![c] = IF Fresh(Wanted[c]) THEN "done" ELSE "missed"]
    /\ UNCHANGED <<now, disk, cacheVars, lockOf, jobs, errors, pc, callVars, lock, got, hit, rescan, gets, cut>>

\* The rest of either call: a running job, an error, or a new job.
Enlist(c) ==
    /\ stage[c] \in {"asked", "missed"}
    /\ \/ /\ Wanted[c] \in jobs
          /\ stage' = [stage EXCEPT ![c] = "waiting"]
          /\ UNCHANGED <<errors, jobs, pc>>
       \/ /\ Wanted[c] \notin jobs
          /\ errors' = errors \ {Wanted[c]}
          /\ IF Wanted[c] \in errors /\ stage[c] = "missed"
             THEN /\ stage' = [stage EXCEPT ![c] = "done"]
                  /\ UNCHANGED <<jobs, pc>>
             ELSE /\ stage' = [stage EXCEPT ![c] = "waiting"]
                  /\ jobs' = jobs \cup {Wanted[c]}
                  /\ pc' = [pc EXCEPT ![Wanted[c]] = "start"]
    /\ UNCHANGED <<now, disk, cacheVars, lockOf, callVars, lock, got, hit, rescan, gets, cut>>

-----------------------------------------------------------------------------
Tick == now < MaxNow /\ now' = now + 1
DiskChanges == disk < MaxDisk /\ disk' = disk + 1

World ==
    /\ \/ Tick /\ UNCHANGED disk
       \/ DiskChanges /\ UNCHANGED now
    /\ UNCHANGED <<cacheVars, lockOf, jobs, errors, pc, callVars, lock, got, hit, clientVars, gets, cut>>

ThreadStep(t) == FindLock(t) \/ Acquire(t) \/ Look(t) \/ Compare(t) \/ ScanEnds(t) \/ ScanFails(t)
JobStep(k) == JobBegins(k) \/ KeepError(k) \/ JobEnds(k)
ClientStep(c) == PollAgain(c) \/ Enlist(c)

AuditNext ==
    \/ \E g \in Getters, k \in Keys, again \in BOOLEAN : Get(g, k, again)
    \/ \E t \in Threads : ThreadStep(t)
    \/ \E k \in Keys : JobStep(k)
    \/ \E c \in Clients : (\E again \in BOOLEAN : Ask(c, again)) \/ ClientStep(c)
    \/ World

AuditSpec == AuditInit /\ [][AuditNext]_vars

\* Threads run, an audit ends, and a browser that waits asks again.
AuditFairSpec ==
    /\ AuditSpec
    /\ \A t \in Threads : WF_vars(ThreadStep(t))
    /\ \A k \in Keys : WF_vars(JobStep(k))
    /\ \A c \in Clients : WF_vars(ClientStep(c))

-----------------------------------------------------------------------------
\* Types; the cache keeps at most MaxEntries audits, and a job is listed
\* exactly while its thread runs.
TypeOK ==
    /\ Cardinality(kept) <= MaxEntries
    /\ jobs = {k \in Keys : pc[k] # "idle"}
    /\ now \in Nat /\ disk \in Nat /\ gets \in Nat
    /\ kept \subseteq Keys /\ stored \in [Keys -> Nat] /\ result \in [Keys -> Nat]
    /\ lockOf \in [Keys -> Locks \cup {0}]
    /\ errors \subseteq Keys
    /\ pc \in [Threads -> {"idle", "start", "enter", "wait", "look", "compare", "scan", "failed", "ended"}]
    /\ key \in [Threads -> Keys] /\ refresh \in [Threads -> BOOLEAN]
    /\ arrived \in [Threads -> Nat] /\ got \in [Threads -> Nat] /\ hit \in [Threads -> Nat]
    /\ lock \in [Threads -> Locks \cup {0}]
    /\ stage \in [Clients -> {"new", "asked", "missed", "waiting", "done"}]
    /\ rescan \in [Clients -> BOOLEAN]
    /\ cut \subseteq Keys

\* Requests for one key wait for one run of its audit, and so never make the
\* disk be walked twice at once, unless eviction took the key's lock away from
\* a request that used it (the docstring of get).
OneScan ==
    \A t, u \in Threads :
        pc[t] = "scan" /\ pc[u] = "scan" /\ key[t] = key[u] /\ key[t] \notin cut => t = u

\* While a key stays in the cache what is kept for it only becomes newer: an
\* audit that read the disk earlier does not replace one that read it later.
NeverOlder ==
    [][\A k \in kept \cap kept' : k \notin cut => result[k] <= result'[k]]_vars

\* A request with refresh is answered with another run's audit only when that
\* audit was stored after the request arrived (the comment in get), unless its
\* key lost its lock to eviction meanwhile: then another audit of the key can end
\* between Look and Compare, and the code compares that one but answers with the
\* earlier one.
RefreshRunsAgain ==
    [][\A t \in Threads :
          pc[t] = "compare" /\ pc'[t] \in {"idle", "ended"} /\ key[t] \notin cut
            => hit[t] > arrived[t]]_vars

\* A browser that goes on polling is told the result or an error, whatever other
\* requests collect, evict or break meanwhile.
Answered == \A c \in Clients : stage[c] = "waiting" ~> stage[c] = "done"
=============================================================================
