-------------------------- MODULE CtxDeployProofs --------------------------
(***************************************************************************)
(* The memory swap (MemorySwap) for any number of processes, profiles and  *)
(* memories and any number of crashes and failing calls: its variables     *)
(* keep their types, no memory is lost or duplicated, and one process at a *)
(* time is under the swap lock.  With one process at a time the marker     *)
(* covers the renames and recovery finishes an interrupted swap.           *)
(*                                                                         *)
(* The deploy pipeline (CtxDeploy) for any files, profiles, processes and  *)
(* bounds: its variables keep their types, it uses the memory only as      *)
(* MemorySwap says, and so no deploy, complete, aborted or killed, loses a *)
(* memory.  With one deploy at a time every generated file is tracked; if  *)
(* moreover no rename fails and nobody dies inside a swap or a save, no    *)
(* profile sees another's memories and each finds its own.                 *)
(***************************************************************************)
EXTENDS CtxDeploy, TLAPS

(* The swap ----------------------------------------------------------------- *)

\* a directory that does not exist holds nothing: without it a directory that
\* is created would bring memories back
NoGhostDirs == \A d \in DirNames \ present : held[d] = {}

\* memory/ is only ever stashed for a profile: there is no memory--None
StashIsNamed == \A p \in Procs : pc[p] \in {"stashLook", "setAside", "stashMove"} => from[p] \in Profiles

Local == TypeOK /\ StashIsNamed

Inv == Local /\ MemoryKept /\ NoGhostDirs

USE DEF DirNames

\* A move keeps every memory, in one directory, wherever source and destination are
LEMMA MoveKeeps ==
  ASSUME Inv, NEW src \in present, src # "aside", NEW dst \in DirNames, src # dst, Move(src, dst),
         UNCHANGED written
  PROVE  /\ present' \subseteq DirNames /\ "aside" \in present'
         /\ held' \in [DirNames -> SUBSET Notes]
         /\ MemoryKept' /\ NoGhostDirs'
<1> DEFINE into == IF dst \in present THEN "aside" ELSE dst
<1>1. /\ into \in DirNames /\ into # src /\ src \in DirNames
      /\ present' = (present \ {src}) \cup {into}
      /\ held' = [held EXCEPT ![src] = {}, ![into] = @ \cup held[src]]
  BY DEF Move, Inv, Local, TypeOK
<1> HIDE DEF into
<1>2. present' \subseteq DirNames /\ "aside" \in present'
  BY <1>1 DEF Inv, Local, TypeOK
<1>3. held \in [DirNames -> SUBSET Notes]
  BY DEF Inv, Local, TypeOK
<1>4. /\ held'[src] = {} /\ held'[into] = held[into] \cup held[src]
      /\ \A d \in DirNames \ {src, into} : held'[d] = held[d]
  BY <1>1, <1>3
<1>5. held' \in [DirNames -> SUBSET Notes]
  BY <1>1, <1>3
<1>6. KeptOnce'
  BY <1>1, <1>4 DEF Inv, MemoryKept, KeptOnce
<1>7. NothingLost'
  <2> SUFFICES ASSUME NEW n \in Notes
               PROVE  n \in written <=> \E d \in present' : n \in held'[d]
    BY DEF NothingLost
  <2>1. n \in written <=> \E d \in present : n \in held[d]
    BY DEF Inv, MemoryKept, NothingLost
  <2>2. ASSUME NEW d \in present, n \in held[d] PROVE \E e \in present' : n \in held'[e]
    <3>1. CASE d \in {src, into}
      BY <1>1, <1>4, <2>2, <3>1
    <3>2. CASE d \notin {src, into}
      BY <1>1, <1>4, <2>2, <3>2 DEF Inv, Local, TypeOK
    <3> QED BY <3>1, <3>2
  <2>3. ASSUME NEW e \in present', n \in held'[e] PROVE \E d \in present : n \in held[d]
    <3>1. CASE e = into
      <4>1. n \in held[into] \/ n \in held[src]
        BY <1>4, <2>3, <3>1
      <4>2. CASE into \in present
        BY <4>1, <4>2
      <4>3. CASE into \notin present
        BY <1>1, <4>1, <4>3 DEF Inv, NoGhostDirs
      <4> QED BY <4>2, <4>3
    <3>2. CASE e # into
      BY <1>1, <1>4, <2>3, <3>2, <1>2
    <3> QED BY <3>1, <3>2
  <2> QED BY <2>1, <2>2, <2>3
<1>8. NoGhostDirs'
  BY <1>1, <1>4 DEF Inv, NoGhostDirs
<1> QED BY <1>2, <1>5, <1>6, <1>7, <1>8 DEF MemoryKept

LEMMA InitInv == MemoryInit => Inv
<1> SUFFICES ASSUME MemoryInit PROVE Inv
  OBVIOUS
<1>1. PICK old \in SUBSET Notes :
        /\ written = old
        /\ held = [d \in DirNames |-> IF d = "memory" THEN old ELSE {}]
        /\ present \in {{"aside"}, {"aside", "memory"}}
        /\ old # {} => "memory" \in present
  BY DEF MemoryInit
<1>2. Local
  BY <1>1, FaultBounds DEF MemoryInit, Local, TypeOK, StashIsNamed, Steps
<1>3. MemoryKept
  BY <1>1, NamesApart DEF MemoryKept, NothingLost, KeptOnce
<1>4. NoGhostDirs
  BY <1>1 DEF NoGhostDirs
<1> QED BY <1>2, <1>3, <1>4 DEF Inv

\* The steps that touch neither directories nor memories only have to keep the types
LEMMA RestKeeps ==
  ASSUME Inv, UNCHANGED <<dirVars, written>>, Local'
  PROVE  Inv'
BY DEF Inv, MemoryKept, NothingLost, KeptOnce, NoGhostDirs, dirVars

LEMMA MovesKeep ==
  ASSUME Inv, NEW p \in Procs, RecoverMove(p) \/ SwapMove(p)
  PROVE  Inv'
<1>1. PICK src \in present, dst \in DirNames : src # "aside" /\ src # dst /\ Move(src, dst)
  <2>1. CASE RecoverMove(p)
    BY <2>1, NamesApart DEF RecoverMove, Inv, Local, TypeOK
  <2>2. CASE SwapMove(p)
    BY <2>2, NamesApart DEF SwapMove, Moving, MoveOf, Inv, Local, TypeOK, StashIsNamed
  <2> QED BY <2>1, <2>2
<1>2. UNCHANGED written
  BY DEF RecoverMove, SwapMove
<1>3. /\ present' \subseteq DirNames /\ "aside" \in present'
      /\ held' \in [DirNames -> SUBSET Notes]
      /\ MemoryKept' /\ NoGhostDirs'
  BY <1>1, <1>2, MoveKeeps
<1>4. pc' \in [Procs -> Steps]
  BY DEF RecoverMove, SwapMove, Moving, MoveOf, Goto, Inv, Local, TypeOK, Steps, InRecovery, UnderLock
<1>5. TypeOK'
  BY <1>3, <1>4 DEF RecoverMove, SwapMove, Inv, Local, TypeOK, callVars, faults
<1>6. StashIsNamed'
  BY NamesApart DEF RecoverMove, SwapMove, Moving, MoveOf, Goto, Inv, Local, TypeOK, StashIsNamed, callVars
<1> QED BY <1>3, <1>5, <1>6 DEF Inv, Local

LEMMA WriteKeeps ==
  ASSUME Inv, NEW n \in Notes, Write(n)
  PROVE  Inv'
<1>1. held \in [DirNames -> SUBSET Notes] /\ present \subseteq DirNames
  BY DEF Inv, Local, TypeOK
<1>2. /\ held'["memory"] = held["memory"] \cup {n}
      /\ \A d \in DirNames \ {"memory"} : held'[d] = held[d]
      /\ present' = present \cup {"memory"} /\ written' = written \cup {n} /\ n \notin written
  BY <1>1 DEF Write
<1>3. Local'
  BY DEF Write, Inv, Local, TypeOK, StashIsNamed, callVars, faults
<1>4. \A d \in DirNames : n \notin held[d]
  BY <1>2 DEF Inv, MemoryKept, NothingLost, NoGhostDirs
<1>5. KeptOnce'
  BY <1>2, <1>4 DEF Inv, MemoryKept, KeptOnce
<1>6. NothingLost'
  BY <1>1, <1>2, <1>4 DEF Inv, MemoryKept, NothingLost, NoGhostDirs
<1>7. NoGhostDirs'
  BY <1>2 DEF Inv, NoGhostDirs
<1> QED BY <1>3, <1>5, <1>6, <1>7 DEF Inv, MemoryKept

LEMMA MakeMemoryKeeps ==
  ASSUME Inv, NEW p \in Procs, MakeMemory(p)
  PROVE  Inv'
<1>1. Local'
  BY DEF MakeMemory, Goto, Inv, Local, TypeOK, StashIsNamed, Steps, UnderLock, callVars, faults
<1>2. /\ present' = present \cup {"memory"} /\ UNCHANGED <<held, written>>
      /\ "memory" \notin present
  BY DEF MakeMemory
<1>3. MemoryKept' /\ NoGhostDirs'
  BY <1>2 DEF Inv, MemoryKept, NothingLost, KeptOnce, NoGhostDirs
<1> QED BY <1>1, <1>3 DEF Inv

\* The remaining steps keep types and names
LEMMA LocalKept ==
  ASSUME Inv, NEW p \in Procs
  PROVE  /\ ReadMarker(p) \/ RecoverCheck(p) \/ RecoverLook(p) \/ RecoverMoveFails(p) \/ RecoverUnlink(p) => Local'
         /\ Lock(p) \/ OpenMarker(p) \/ WriteMarker(p) \/ StashCheck(p) \/ StashLook(p) \/ RestoreCheck(p) \/ RestoreLook(p) => Local'
         /\ RemoveMarker(p) \/ Release(p) \/ SwapFails(p) \/ Return(p) \/ Crash(p) => Local'
         /\ \A old, new \in Profiles \cup {NoProfile} : Call(p, old, new) => Local'
<1> USE DEF Inv, Local, TypeOK, StashIsNamed, Goto, Steps, InRecovery, UnderLock, dirVars, callVars, faults
<1>1. ReadMarker(p) => Local'
  BY DEF ReadMarker
<1>2. RecoverCheck(p) \/ RecoverLook(p) \/ RecoverUnlink(p) => Local'
  BY DEF RecoverCheck, RecoverLook, RecoverUnlink
<1>3. RecoverMoveFails(p) => Local'
  BY FaultBounds DEF RecoverMoveFails, FailOnce
<1>4. Lock(p) \/ OpenMarker(p) \/ WriteMarker(p) => Local'
  BY DEF Lock, OpenMarker, WriteMarker
<1>5. StashCheck(p) \/ StashLook(p) => Local'
  BY DEF StashCheck, StashLook
<1>6. RestoreCheck(p) \/ RestoreLook(p) => Local'
  BY DEF RestoreCheck, RestoreLook
<1>7. RemoveMarker(p) \/ Release(p) => Local'
  BY DEF RemoveMarker, Release
<1>8. SwapFails(p) => Local'
  BY FaultBounds DEF SwapFails, FailOnce
<1>9. Return(p) => Local'
  BY DEF Return, Forget
<1>10. Crash(p) => Local'
  BY FaultBounds DEF Crash, Forget
<1>11. \A old, new \in Profiles \cup {NoProfile} : Call(p, old, new) => Local'
  BY DEF Call
<1> QED BY <1>1, <1>2, <1>3, <1>4, <1>5, <1>6, <1>7, <1>8, <1>9, <1>10, <1>11

LEMMA InvKept == Inv /\ [MemoryNext]_swapVars => Inv'
<1> SUFFICES ASSUME Inv, [MemoryNext]_swapVars PROVE Inv'
  OBVIOUS
<1>1. CASE UNCHANGED swapVars
  BY <1>1 DEF swapVars, Inv, Local, TypeOK, StashIsNamed, MemoryKept, NothingLost, KeptOnce, NoGhostDirs
<1>2. ASSUME NEW n \in Notes, Write(n) PROVE Inv'
  BY <1>2, WriteKeeps
<1>3. ASSUME NEW p \in Procs, RecoverMove(p) \/ SwapMove(p) PROVE Inv'
  BY <1>3, MovesKeep
<1>4. ASSUME NEW p \in Procs, MakeMemory(p) PROVE Inv'
  BY <1>4, MakeMemoryKeeps
<1>5. ASSUME NEW p \in Procs,
             \/ ReadMarker(p) \/ RecoverCheck(p) \/ RecoverLook(p) \/ RecoverMoveFails(p) \/ RecoverUnlink(p)
             \/ Lock(p) \/ OpenMarker(p) \/ WriteMarker(p) \/ StashCheck(p) \/ StashLook(p) \/ RestoreCheck(p) \/ RestoreLook(p)
             \/ RemoveMarker(p) \/ Release(p) \/ SwapFails(p) \/ Return(p) \/ Crash(p)
             \/ \E old, new \in Profiles \cup {NoProfile} : Call(p, old, new)
      PROVE Inv'
  <2>1. Local'
    BY <1>5, LocalKept
  <2>2. UNCHANGED <<dirVars, written>>
    BY <1>5 DEF ReadMarker, RecoverCheck, RecoverLook, RecoverMoveFails, RecoverUnlink, Lock, OpenMarker, WriteMarker,
                StashCheck, StashLook, RestoreCheck, RestoreLook, RemoveMarker, Release, SwapFails, Return, Crash, Call
  <2> QED BY <2>1, <2>2, RestKeeps
<1> QED BY <1>1, <1>2, <1>3, <1>4, <1>5 DEF MemoryNext, SwapStep

\* The variables keep their types (the steps of swap_memory and recover_swap)
THEOREM TypeCorrect == MemorySpec => []TypeOK
<1>1. Inv => TypeOK
  BY DEF Inv, Local
<1> QED BY <1>1, InitInv, InvKept, PTL DEF MemorySpec

\* docs/memory.md:35, "never deletes memory content": swaps that race, fail or
\* die keep every memory in exactly one existing directory
THEOREM MemoryIsKept == MemorySpec => []MemoryKept
<1>1. Inv => MemoryKept
  BY DEF Inv
<1> QED BY <1>1, InitInv, InvKept, PTL DEF MemorySpec

\* The swap lock excludes (memory.py:31): exactly the process under it holds it
THEOREM LockExcludes == MemorySpec => []OneSwapper
<1> DEFINE Both == Inv /\ OneSwapper
<1>1. MemoryInit => Both
  BY InitInv, NamesApart DEF MemoryInit, OneSwapper, UnderLock
<1>2. Both /\ [MemoryNext]_swapVars => Both'
  <2> SUFFICES ASSUME Both, [MemoryNext]_swapVars PROVE OneSwapper'
    BY InvKept
  <2> USE DEF OneSwapper, Goto, UnderLock, InRecovery
  <2>0. pc \in [Procs -> Steps]
    BY DEF Inv, Local, TypeOK
  <2>1. CASE UNCHANGED swapVars
    BY <2>1 DEF swapVars
  <2>2. ASSUME NEW n \in Notes, Write(n) PROVE OneSwapper'
    BY <2>2 DEF Write
  <2>3. ASSUME NEW p \in Procs, ReadMarker(p) \/ RecoverCheck(p) \/ RecoverLook(p) \/ RecoverMove(p) \/ RecoverMoveFails(p)
                                 \/ RecoverUnlink(p)
        PROVE OneSwapper'
    BY <2>0, <2>3 DEF ReadMarker, RecoverCheck, RecoverLook, RecoverMove, RecoverMoveFails, RecoverUnlink
  <2>4. ASSUME NEW p \in Procs, Lock(p) PROVE OneSwapper'
    BY <2>0, <2>4, NamesApart DEF Lock
  <2>5. ASSUME NEW p \in Procs, OpenMarker(p) \/ WriteMarker(p) \/ StashCheck(p) \/ StashLook(p) \/ RestoreCheck(p) \/ RestoreLook(p)
                                 \/ MakeMemory(p) \/ RemoveMarker(p)
        PROVE OneSwapper'
    BY <2>0, <2>5 DEF OpenMarker, WriteMarker, StashCheck, StashLook, RestoreCheck, RestoreLook, MakeMemory, RemoveMarker
  <2>6. ASSUME NEW p \in Procs, SwapMove(p) PROVE OneSwapper'
    BY <2>0, <2>6 DEF SwapMove, Moving, MoveOf
  <2>7. ASSUME NEW p \in Procs, Release(p) \/ SwapFails(p) \/ Return(p) PROVE OneSwapper'
    BY <2>0, <2>7, NamesApart DEF Release, SwapFails, Return
  <2>8. ASSUME NEW p \in Procs, Crash(p) PROVE OneSwapper'
    BY <2>0, <2>8, NamesApart DEF Crash, Running
  <2>9. ASSUME NEW p \in Procs, NEW old \in Profiles \cup {NoProfile}, NEW new \in Profiles \cup {NoProfile},
               Call(p, old, new)
        PROVE OneSwapper'
    BY <2>0, <2>9 DEF Call
  <2> QED BY <2>1, <2>2, <2>3, <2>4, <2>5, <2>6, <2>7, <2>8, <2>9 DEF MemoryNext, SwapStep
<1>3. Both => OneSwapper
  OBVIOUS
<1> QED BY <1>1, <1>2, <1>3, PTL DEF MemorySpec
-----------------------------------------------------------------------------
(***************************************************************************)
(* The marker and recovery.  Recovery runs without the lock, so these      *)
(* hold only while one aictl process at a time works on a project: another *)
(* one would remove the marker of a swap under way.                        *)
(***************************************************************************)
Alone == \A p, q \in Procs : p = q

\* recover_swap has nothing to restore any more, unless a rename failed
Recovered(p) == "memory" \in present \/ plan[p] \notin present
RecoveryInv == \A p \in Procs :
  /\ pc[p] \in {"idle", "recover"} => plan[p] = NoProfile
  /\ pc[p] = "recoverUnlink" /\ failures = 0 => Recovered(p)

LEMMA MarkerKept ==
  ASSUME Alone, Inv, MarkerCoversSwap, [MemoryNext]_swapVars
  PROVE  MarkerCoversSwap'
<1> USE DEF MarkerCoversSwap, Renaming, UnderLock, InRecovery, Goto
<1>1. pc \in [Procs -> Steps] /\ to \in [Procs -> Profiles \cup {NoProfile}]
  BY DEF Inv, Local, TypeOK
<1>2. CASE UNCHANGED swapVars
  BY <1>2 DEF swapVars
<1>3. ASSUME NEW n \in Notes, Write(n) PROVE MarkerCoversSwap'
  BY <1>3 DEF Write, callVars
<1>4. ASSUME NEW p \in Procs, ReadMarker(p) \/ RecoverCheck(p) \/ RecoverLook(p) \/ RecoverMove(p) \/ RecoverMoveFails(p)
                              \/ RecoverUnlink(p) \/ Lock(p)
      PROVE MarkerCoversSwap'
  BY <1>1, <1>4 DEF Alone, ReadMarker, RecoverCheck, RecoverLook, RecoverMove, RecoverMoveFails, RecoverUnlink, Lock, callVars
<1>5. ASSUME NEW p \in Procs, OpenMarker(p) \/ WriteMarker(p) \/ StashCheck(p) \/ StashLook(p) \/ RestoreCheck(p) \/ RestoreLook(p)
                              \/ MakeMemory(p) \/ RemoveMarker(p) \/ Release(p)
      PROVE MarkerCoversSwap'
  BY <1>1, <1>5 DEF Alone, OpenMarker, WriteMarker, StashCheck, StashLook, RestoreCheck, RestoreLook, MakeMemory, RemoveMarker, Release,
                    callVars
<1>6. ASSUME NEW p \in Procs, SwapMove(p) PROVE MarkerCoversSwap'
  BY <1>1, <1>6 DEF Alone, SwapMove, Moving, MoveOf, callVars
<1>7. ASSUME NEW p \in Procs, SwapFails(p) \/ Return(p) \/ Crash(p) PROVE MarkerCoversSwap'
  BY <1>1, <1>7 DEF Alone, SwapFails, Return, Crash, callVars
<1>8. ASSUME NEW p \in Procs, NEW old \in Profiles \cup {NoProfile}, NEW new \in Profiles \cup {NoProfile},
             Call(p, old, new)
      PROVE MarkerCoversSwap'
  BY <1>1, <1>8 DEF Alone, Call
<1> QED BY <1>2, <1>3, <1>4, <1>5, <1>6, <1>7, <1>8 DEF MemoryNext, SwapStep

LEMMA MarkerInit == MemoryInit => MarkerCoversSwap
BY DEF MemoryInit, MarkerCoversSwap, Renaming, UnderLock

\* memory.py:218: from the first rename until the swap is complete the marker
\* names the swap's target, if no other process recovers meanwhile
LEMMA SwapIsMarked == Alone => (MemorySpec => []MarkerCoversSwap)
<1> SUFFICES ASSUME Alone PROVE MemorySpec => []MarkerCoversSwap
  OBVIOUS
<1>1. Inv /\ MarkerCoversSwap /\ [MemoryNext]_swapVars => MarkerCoversSwap'
  BY MarkerKept
<1> QED BY <1>1, MarkerInit, InitInv, InvKept, PTL DEF MemorySpec

LEMMA InterruptionStep ==
  ASSUME Alone, Inv, MarkerCoversSwap, [MemoryNext]_swapVars, NEW p \in Procs,
         pc[p] \in Renaming, pc'[p] \in {"idle", "raised"}
  PROVE  marker' = to[p]
<1> USE DEF Renaming, UnderLock, InRecovery, Goto
<1>1. pc \in [Procs -> Steps] /\ marker = to[p]
  BY DEF Inv, Local, TypeOK, MarkerCoversSwap
<1>2. CASE UNCHANGED swapVars
  BY <1>2 DEF swapVars
<1>3. ASSUME NEW n \in Notes, Write(n) PROVE marker' = to[p]
  BY <1>1, <1>3 DEF Write
<1>4. ASSUME NEW q \in Procs, SwapFails(q) \/ Return(q) \/ Crash(q) PROVE marker' = to[p]
  BY <1>1, <1>4 DEF SwapFails, Return, Crash
<1>5. ASSUME NEW q \in Procs,
             \/ ReadMarker(q) \/ RecoverCheck(q) \/ RecoverLook(q) \/ RecoverMove(q) \/ RecoverMoveFails(q) \/ RecoverUnlink(q)
             \/ Lock(q) \/ OpenMarker(q) \/ WriteMarker(q) \/ StashCheck(q) \/ StashLook(q) \/ RestoreCheck(q) \/ RestoreLook(q)
             \/ MakeMemory(q) \/ RemoveMarker(q) \/ Release(q)
             \/ \E old, new \in Profiles \cup {NoProfile} : Call(q, old, new)
      PROVE pc'[q] \notin {"idle", "raised"} \/ pc[q] \notin Renaming
  BY <1>1, <1>5 DEF ReadMarker, RecoverCheck, RecoverLook, RecoverMove, RecoverMoveFails, RecoverUnlink, Lock, OpenMarker,
                    WriteMarker, StashCheck, StashLook, RestoreCheck, RestoreLook, MakeMemory, RemoveMarker, Release, Call
<1>6. ASSUME NEW q \in Procs, SwapMove(q) PROVE pc'[q] \notin {"idle", "raised"}
  BY <1>1, <1>6 DEF SwapMove, Moving, MoveOf
<1>7. \A q \in Procs : q = p
  BY DEF Alone
<1> QED BY <1>2, <1>3, <1>4, <1>5, <1>6, <1>7 DEF MemoryNext, SwapStep

\* test_memory.py:99: a swap that fails or dies among its renames leaves the
\* marker that names its target
THEOREM InterruptionIsMarked == Alone => (MemorySpec => InterruptionMarked)
<1> SUFFICES ASSUME Alone PROVE MemorySpec => InterruptionMarked
  OBVIOUS
<1>1. Inv /\ MarkerCoversSwap /\ [MemoryNext]_swapVars
        => [\A p \in Procs : pc[p] \in Renaming /\ pc'[p] \in {"idle", "raised"} => marker' = to[p]]_swapVars
  BY InterruptionStep
<1> QED BY <1>1, SwapIsMarked, InitInv, InvKept, PTL DEF MemorySpec, InterruptionMarked

LEMMA RecoveryInit == MemoryInit => RecoveryInv
BY DEF MemoryInit, RecoveryInv

\* Recovery restores what its marker names, step by step
LEMMA RecoveryKept ==
  ASSUME Alone, Inv, RecoveryInv, [MemoryNext]_swapVars
  PROVE  RecoveryInv'
<1>a. NoProfile \notin DirNames /\ "memory" \notin Profiles
  BY NamesApart
<1>b. failures \in 0..MaxFailures /\ MaxFailures \in Nat
  BY FaultBounds DEF Inv, Local, TypeOK
<1>c. failures \in Nat
  BY <1>b
<1>d. /\ pc \in [Procs -> Steps] /\ plan \in [Procs -> Profiles \cup {NoProfile}]
      /\ present \subseteq DirNames
  BY DEF Inv, Local, TypeOK
<1>1. /\ pc \in [Procs -> Steps] /\ plan \in [Procs -> Profiles \cup {NoProfile}]
      /\ NoProfile \notin present /\ NoProfile # "memory" /\ "memory" \notin Profiles /\ failures \in Nat
  BY <1>a, <1>c, <1>d
<1> USE DEF RecoveryInv, Recovered, Goto, InRecovery, UnderLock
<1>2. CASE UNCHANGED swapVars
  BY <1>2 DEF swapVars
<1>3. ASSUME NEW n \in Notes, Write(n) PROVE RecoveryInv'
  BY <1>3 DEF Write, callVars, faults
<1>4. ASSUME NEW p \in Procs, ReadMarker(p) PROVE RecoveryInv'
  BY <1>1, <1>4 DEF Alone, ReadMarker, dirVars, faults
<1>5. ASSUME NEW p \in Procs, RecoverCheck(p) \/ RecoverLook(p) PROVE RecoveryInv'
  BY <1>1, <1>5 DEF Alone, RecoverCheck, RecoverLook, dirVars, callVars, faults
<1>6. ASSUME NEW p \in Procs, RecoverMove(p) PROVE RecoveryInv'
  <2>1. plan[p] \in present /\ plan[p] # "memory" /\ Move(plan[p], "memory") /\ UNCHANGED callVars
    BY <1>1, <1>6, NamesApart DEF RecoverMove
  <2>2. "memory" \in present'
    BY <2>1 DEF Move
  <2> QED BY <1>1, <1>6, <2>2 DEF Alone, RecoverMove, callVars
<1>7. ASSUME NEW p \in Procs, RecoverMoveFails(p) PROVE RecoveryInv'
  BY <1>1, <1>7 DEF Alone, RecoverMoveFails, FailOnce, dirVars, callVars
<1>8. ASSUME NEW p \in Procs, RecoverUnlink(p) \/ Lock(p) \/ OpenMarker(p) \/ WriteMarker(p) \/ StashCheck(p) \/ StashLook(p)
                              \/ RestoreCheck(p) \/ RestoreLook(p) \/ MakeMemory(p) \/ RemoveMarker(p) \/ Release(p) \/ SwapFails(p)
      PROVE RecoveryInv'
  BY <1>1, <1>8 DEF Alone, RecoverUnlink, Lock, OpenMarker, WriteMarker, StashCheck, StashLook, RestoreCheck, RestoreLook, MakeMemory,
                    RemoveMarker, Release, SwapFails, callVars
<1>9. ASSUME NEW p \in Procs, SwapMove(p) PROVE RecoveryInv'
  BY <1>1, <1>9 DEF Alone, SwapMove, Moving, MoveOf, callVars
<1>10. ASSUME NEW p \in Procs, Return(p) \/ Crash(p) PROVE RecoveryInv'
  BY <1>1, <1>10 DEF Alone, Return, Crash, Forget
<1>11. ASSUME NEW p \in Procs, NEW old \in Profiles \cup {NoProfile}, NEW new \in Profiles \cup {NoProfile},
              Call(p, old, new)
       PROVE RecoveryInv'
  BY <1>1, <1>11 DEF Alone, Call
<1> QED BY <1>2, <1>3, <1>4, <1>5, <1>6, <1>7, <1>8, <1>9, <1>10, <1>11 DEF MemoryNext, SwapStep

LEMMA RecoveryEnds ==
  ASSUME Alone, Inv, RecoveryInv, [MemoryNext]_swapVars, NEW p \in Procs,
         pc[p] \in InRecovery, pc'[p] = "lock", failures = 0
  PROVE  "memory" \in present' \/ plan[p] \notin present'
<1>0. NoProfile \notin DirNames
  BY NamesApart
<1>1. pc \in [Procs -> Steps] /\ NoProfile \notin present
  BY <1>0 DEF Inv, Local, TypeOK
<1> USE DEF Goto, InRecovery, UnderLock
<1>2. ~UNCHANGED swapVars
  BY DEF swapVars
<1>3. ASSUME NEW n \in Notes PROVE ~Write(n)
  BY DEF Write
<1>4. ASSUME NEW q \in Procs, SwapStep(q) \/ Return(q) \/ Crash(q)
                              \/ \E old, new \in Profiles \cup {NoProfile} : Call(q, old, new)
      PROVE ReadMarker(q) \/ RecoverUnlink(q)
  BY <1>1, <1>4 DEF Alone, SwapStep, RecoverCheck, RecoverLook, RecoverMove, RecoverMoveFails, Lock, OpenMarker, WriteMarker,
     StashCheck, StashLook, RestoreCheck, RestoreLook, MakeMemory, RemoveMarker, Release, SwapFails, SwapMove, Moving, Return, Crash, Call
<1>5. ReadMarker(p) \/ RecoverUnlink(p)
  BY <1>2, <1>3, <1>4 DEF MemoryNext, Alone
<1> QED BY <1>1, <1>5 DEF RecoveryInv, Recovered, ReadMarker, RecoverUnlink, dirVars

\* Recovery finishes what the marker says before the next swap starts, unless
\* the rename itself fails (recover_swap, memory.py:222)
THEOREM RecoveryFinishes == Alone => (MemorySpec => RecoveryRestores)
<1> SUFFICES ASSUME Alone PROVE MemorySpec => RecoveryRestores
  OBVIOUS
<1>1. Inv /\ RecoveryInv /\ [MemoryNext]_swapVars => RecoveryInv'
  BY RecoveryKept
<1>2. Inv /\ RecoveryInv /\ [MemoryNext]_swapVars
        => [\A p \in Procs : pc[p] \in InRecovery /\ pc'[p] = "lock" /\ failures = 0
                               => "memory" \in present' \/ plan[p] \notin present']_swapVars
  BY RecoveryEnds
<1> QED BY <1>1, <1>2, RecoveryInit, InitInv, InvKept, PTL DEF MemorySpec, RecoveryRestores

(* The pipeline ------------------------------------------------------------- *)

HIDE DEF DirNames

ProfileArgs == Profiles \cup {NoProfile}
Manifests == [profile : ProfileArgs, files : SUBSET Files]

\* the part of DeployTypeOK that is about CtxDeploy's own variables
OwnTypes ==
  /\ gen \subseteq Files /\ user \subseteq Files /\ bak \subseteq Files /\ strays \subseteq Files
  /\ manifest \in Manifests
  /\ stage \in [Procs -> Stages]
  /\ asked \in [Procs -> ProfileArgs]
  /\ base \in [Procs -> Manifests]
  /\ todo \in [Procs -> SUBSET Files]
  /\ author \in [Notes -> ProfileArgs \cup {"unknown"}]
  /\ deploys \in 0..MaxDeploys /\ aborts \in 0..MaxAborts /\ kills \in 0..MaxKills

\* swap_memory runs in p exactly while p's deploy waits for it
Waiting == \A p \in Procs : stage[p] = "swapping" <=> pc[p] # "idle"

\* a deploy goes to the swap only for another profile than the one it loaded
SwapWanted == \A p \in Procs : stage[p] = "swap" => base[p].profile # asked[p]

DeployInv == OwnTypes /\ Waiting /\ SwapWanted

LEMMA DeployInitInv == DeployInit => DeployInv /\ MemoryInit
<1> SUFFICES ASSUME DeployInit PROVE DeployInv
  BY DEF DeployInit
<1>1. OwnTypes
  BY DeployBounds DEF DeployInit, OwnTypes, ProfileArgs, Manifests, NoManifest, Stages
<1>2. Waiting /\ SwapWanted
  BY DEF DeployInit, MemoryInit, Waiting, SwapWanted
<1> QED BY <1>1, <1>2 DEF DeployInv

\* Every step of the pipeline is a step of MemorySwap or leaves the memory alone
LEMMA StepImplements ==
  ASSUME DeployInv, [DeployNext]_vars
  PROVE  [MemoryNext]_swapVars
<1>1. CASE UNCHANGED vars
  BY <1>1 DEF vars
<1>2. ASSUME NEW p \in Procs, CallSwap(p) PROVE MemoryNext
  <2>1. base[p].profile # asked[p] /\ base[p].profile \in ProfileArgs /\ asked[p] \in ProfileArgs
    BY <1>2 DEF CallSwap, DeployInv, OwnTypes, SwapWanted, Manifests
  <2>2. Call(p, base[p].profile, asked[p])
    BY <1>2 DEF CallSwap
  <2> QED BY <2>1, <2>2 DEF MemoryNext, ProfileArgs
<1>3. ASSUME NEW p \in Procs, Swap(p) \/ SwapReturns(p) \/ KilledInSwap(p) PROVE MemoryNext
  BY <1>3 DEF Swap, SwapReturns, KilledInSwap, MemoryNext
<1>4. ASSUME NEW n \in Notes, ClaudeWrites(n) PROVE MemoryNext
  BY <1>4 DEF ClaudeWrites, MemoryNext
<1>5. ASSUME NEW p \in Procs,
             \/ Load(p) \/ Emit(p) \/ EndEmit(p) \/ Clean(p) \/ CleanFails(p) \/ CleanSkips(p) \/ EndClean(p)
             \/ OpenManifest(p) \/ SaveManifest(p) \/ Abort(p) \/ KilledInSave(p)
             \/ \E profile \in Profiles \cup {NoProfile} : Start(p, profile)
      PROVE UNCHANGED swapVars
  BY <1>5 DEF Load, Emit, EndEmit, Clean, CleanFails, CleanSkips, EndClean, OpenManifest, SaveManifest, Abort,
              KilledInSave, Start
<1>6. ASSUME NEW f \in Files, UserWrites(f) PROVE UNCHANGED swapVars
  BY <1>6 DEF UserWrites
<1> QED BY <1>1, <1>2, <1>3, <1>4, <1>5, <1>6 DEF DeployNext, DeployStep

LEMMA OwnTypesKept ==
  ASSUME OwnTypes, [DeployNext]_vars
  PROVE  OwnTypes'
<1> USE DEF OwnTypes, ProfileArgs, Manifests, Stages, At, fileVars, jobVars, boundVars
<1>1. CASE UNCHANGED vars
  BY <1>1 DEF vars, deployVars
<1>2. ASSUME NEW p \in Procs, NEW profile \in Profiles \cup {NoProfile}, Start(p, profile) PROVE OwnTypes'
  BY <1>2, DeployBounds DEF Start
<1>3. ASSUME NEW p \in Procs, Load(p) PROVE OwnTypes'
  BY <1>3, FileKinds DEF Load
<1>4. ASSUME NEW p \in Procs, Emit(p) PROVE OwnTypes'
  BY <1>4 DEF Emit, WriteSafe
<1>5. ASSUME NEW p \in Procs, EndEmit(p) PROVE OwnTypes'
  BY <1>5, FileKinds DEF EndEmit
<1>6. ASSUME NEW p \in Procs, Clean(p) PROVE OwnTypes'
  BY <1>6 DEF Clean
<1>7. ASSUME NEW p \in Procs, CleanFails(p) \/ CleanSkips(p) PROVE OwnTypes'
  BY <1>7, DeployBounds DEF CleanFails, CleanSkips
<1>8. ASSUME NEW p \in Procs, EndClean(p) \/ CallSwap(p) \/ OpenManifest(p) PROVE OwnTypes'
  BY <1>8 DEF EndClean, CallSwap, OpenManifest, NoManifest
<1>9. ASSUME NEW p \in Procs, Swap(p) PROVE OwnTypes'
  BY <1>9 DEF Swap, deployVars
<1>10. ASSUME NEW p \in Procs, Leave(p)
       PROVE /\ stage' \in [Procs -> Stages] /\ asked' \in [Procs -> ProfileArgs]
             /\ base' \in [Procs -> Manifests] /\ todo' \in [Procs -> SUBSET Files]
  BY <1>10 DEF Leave, NoManifest
<1>11. ASSUME NEW p \in Procs, SaveManifest(p) PROVE OwnTypes'
  BY <1>10, <1>11, FileKinds DEF SaveManifest
<1>12. ASSUME NEW p \in Procs, Unrecorded(p) PROVE strays' \subseteq Files /\ Leave(p)
  BY <1>12 DEF Unrecorded
<1>13. ASSUME NEW p \in Procs, SwapReturns(p) PROVE OwnTypes'
  BY <1>10, <1>12, <1>13 DEF SwapReturns
<1>14. ASSUME NEW p \in Procs, Abort(p) PROVE OwnTypes'
  BY <1>10, <1>12, <1>14, DeployBounds DEF Abort
<1>15. ASSUME NEW p \in Procs, KilledInSwap(p) PROVE OwnTypes'
  BY <1>10, <1>12, <1>15 DEF KilledInSwap
<1>16. ASSUME NEW p \in Procs, KilledInSave(p) PROVE OwnTypes'
  BY <1>10, <1>12, <1>16, DeployBounds DEF KilledInSave
<1>17. ASSUME NEW f \in Files, UserWrites(f) PROVE OwnTypes'
  BY <1>17 DEF UserWrites
<1>18. ASSUME NEW n \in Notes, ClaudeWrites(n) PROVE OwnTypes'
  BY <1>18 DEF ClaudeWrites
<1> QED BY <1>1, <1>2, <1>3, <1>4, <1>5, <1>6, <1>7, <1>8, <1>9, <1>11, <1>13, <1>14, <1>15, <1>16,
           <1>17, <1>18 DEF DeployNext, DeployStep

\* swap_memory is called and left together with the stages of the deploy around it
LEMMA WaitingKept ==
  ASSUME OwnTypes, pc \in [Procs -> Steps], Waiting, [DeployNext]_vars
  PROVE  Waiting'
<1> USE DEF Waiting, OwnTypes, At, Goto
<1>1. CASE UNCHANGED vars
  BY <1>1 DEF vars, deployVars, swapVars
<1>2. ASSUME NEW p \in Procs,
             \/ Load(p) \/ EndEmit(p) \/ EndClean(p) \/ OpenManifest(p)
             \/ \E profile \in Profiles \cup {NoProfile} : Start(p, profile)
      PROVE Waiting'
  BY <1>2 DEF Load, EndEmit, EndClean, OpenManifest, Start, swapVars
<1>3. ASSUME NEW p \in Procs, Emit(p) \/ Clean(p) \/ CleanFails(p) \/ CleanSkips(p) PROVE Waiting'
  BY <1>3 DEF Emit, Clean, CleanFails, CleanSkips, swapVars
<1>4. ASSUME NEW p \in Procs, SaveManifest(p) \/ Abort(p) \/ KilledInSave(p) PROVE Waiting'
  BY <1>4 DEF SaveManifest, Abort, KilledInSave, Unrecorded, Leave, swapVars
<1>5. ASSUME NEW p \in Procs, CallSwap(p) PROVE Waiting'
  BY <1>5 DEF CallSwap, Call
<1>6. ASSUME NEW p \in Procs, Swap(p) PROVE Waiting'
  <2>1. stage' = stage /\ SwapStep(p)
    BY <1>6 DEF Swap, deployVars
  <2>2. pc[p] # "idle" /\ \E s \in Steps : s # "idle" /\ pc' = [pc EXCEPT ![p] = s]
    BY <2>1 DEF SwapStep, ReadMarker, RecoverCheck, RecoverLook, RecoverMove, RecoverMoveFails, RecoverUnlink, Lock,
                OpenMarker, WriteMarker, StashCheck, StashLook, SwapMove, RestoreCheck, RestoreLook, MakeMemory, RemoveMarker,
                Release, SwapFails, Moving, MoveOf, Steps, InRecovery, UnderLock
  <2> QED BY <2>1, <2>2
<1>7. ASSUME NEW p \in Procs, SwapReturns(p) PROVE Waiting'
  BY <1>7 DEF SwapReturns, Return, Unrecorded, Leave
<1>8. ASSUME NEW p \in Procs, KilledInSwap(p) PROVE Waiting'
  BY <1>8 DEF KilledInSwap, Crash, Unrecorded, Leave
<1>9. ASSUME NEW f \in Files, UserWrites(f) PROVE Waiting'
  BY <1>9 DEF UserWrites, swapVars
<1>10. ASSUME NEW n \in Notes, ClaudeWrites(n) PROVE Waiting'
  BY <1>10 DEF ClaudeWrites, Write
<1> QED BY <1>1, <1>2, <1>3, <1>4, <1>5, <1>6, <1>7, <1>8, <1>9, <1>10 DEF DeployNext, DeployStep

LEMMA SwapWantedKept ==
  ASSUME OwnTypes, SwapWanted, [DeployNext]_vars
  PROVE  SwapWanted'
<1> USE DEF SwapWanted, OwnTypes, At
<1>1. CASE UNCHANGED vars
  BY <1>1 DEF vars, deployVars
<1>2. ASSUME NEW p \in Procs,
             \/ Load(p) \/ EndEmit(p) \/ EndClean(p) \/ OpenManifest(p)
             \/ \E profile \in Profiles \cup {NoProfile} : Start(p, profile)
      PROVE SwapWanted'
  BY <1>2 DEF Load, EndEmit, EndClean, OpenManifest, Start, jobVars
<1>3. ASSUME NEW p \in Procs, Emit(p) \/ Clean(p) \/ CleanFails(p) \/ CleanSkips(p) \/ CallSwap(p) \/ Swap(p) PROVE SwapWanted'
  BY <1>3 DEF Emit, Clean, CleanFails, CleanSkips, CallSwap, Swap, jobVars, deployVars
<1>4. ASSUME NEW p \in Procs,
             SaveManifest(p) \/ Abort(p) \/ KilledInSave(p) \/ KilledInSwap(p) \/ SwapReturns(p)
      PROVE SwapWanted'
  BY <1>4 DEF SaveManifest, Abort, KilledInSave, KilledInSwap, SwapReturns, Unrecorded, Leave, jobVars
<1>5. ASSUME NEW f \in Files, UserWrites(f) PROVE SwapWanted'
  BY <1>5 DEF UserWrites, jobVars
<1>6. ASSUME NEW n \in Notes, ClaudeWrites(n) PROVE SwapWanted'
  BY <1>6 DEF ClaudeWrites, jobVars
<1> QED BY <1>1, <1>2, <1>3, <1>4, <1>5, <1>6 DEF DeployNext, DeployStep

LEMMA DeployInvKept == DeployInv /\ Inv /\ [DeployNext]_vars => DeployInv' /\ Inv'
<1> SUFFICES ASSUME DeployInv, Inv, [DeployNext]_vars PROVE DeployInv' /\ Inv'
  OBVIOUS
<1>1. pc \in [Procs -> Steps]
  BY DEF Inv, Local, TypeOK
<1>2. DeployInv'
  BY <1>1, OwnTypesKept, WaitingKept, SwapWantedKept DEF DeployInv
<1>3. Inv'
  BY StepImplements, InvKept
<1> QED BY <1>2, <1>3

\* The pipeline uses the memory only through swap_memory (ctx_pipeline.py:142):
\* every behaviour of the deploys is one of MemorySwap
THEOREM DeployImplementsSwap == DeploySpec => SwapProtocol
<1>1. DeployInv /\ [DeployNext]_vars => [MemoryNext]_swapVars
  BY StepImplements
<1> QED BY <1>1, DeployInitInv, InitInv, DeployInvKept, PTL DEF DeploySpec, SwapProtocol, MemorySpec

\* The variables of the pipeline keep their types, and swap_memory runs exactly
\* while a deploy waits for it
THEOREM DeployTypeCorrect == DeploySpec => []DeployTypeOK
<1>1. DeployInv /\ Inv => DeployTypeOK
  BY DEF DeployInv, OwnTypes, Waiting, Inv, Local, DeployTypeOK, ProfileArgs, Manifests
<1> QED BY <1>1, DeployInitInv, InitInv, DeployInvKept, PTL DEF DeploySpec

\* No deploy loses a memory, wherever it stops and whatever runs beside it
THEOREM DeployKeepsMemory == DeploySpec => []MemoryKept
BY DeployImplementsSwap, MemoryIsKept, PTL DEF SwapProtocol
-----------------------------------------------------------------------------
(***************************************************************************)
(* One deploy at a time.  Nothing stops two deploys on one project, and    *)
(* then neither manifest is true; what follows is about a project on which *)
(* one process at a time deploys.                                          *)
(***************************************************************************)
OneDeploy == Alone /\ Procs # {}

\* what a deploy under way owes to the manifest, by its stage
Tracks(p) ==
  LET out == Output[asked[p]] IN
  /\ stage[p] \in {"off", "load"} => gen \subseteq manifest.files \cup strays
  /\ stage[p] = "emit" => /\ base[p] = manifest /\ todo[p] \subseteq out /\ out \ todo[p] \subseteq gen
                          /\ gen \subseteq manifest.files \cup strays \cup out
  /\ stage[p] = "clean" => /\ todo[p] \subseteq manifest.files \ out /\ out \subseteq gen
                           /\ gen \subseteq strays \cup out \cup todo[p]
  /\ stage[p] \in {"swap", "swapping", "save", "write"} => out \subseteq gen /\ gen \subseteq strays \cup out
TracksInv == \A p \in Procs : Tracks(p)

LEMMA TracksInit == DeployInit => TracksInv
BY DEF DeployInit, TracksInv, Tracks

\* a deploy that stops leaves what it wrote to strays
LEMMA LeavesTracked ==
  ASSUME Alone, OwnTypes, TracksInv, NEW p \in Procs, stage[p] # "off", stage[p] # "load",
         Unrecorded(p), UNCHANGED <<gen, manifest>>
  PROVE  TracksInv'
<1>1. \A q \in Procs : q = p
  BY DEF Alone
<1>2. stage'[p] = "off" /\ strays' = strays \cup (Output[asked[p]] \cap gen)
  BY DEF Unrecorded, Leave, At, OwnTypes
<1>3. gen \subseteq manifest.files \cup strays \cup Output[asked[p]]
  BY DEF TracksInv, Tracks, OwnTypes, Stages
<1>4. Tracks(p)'
  BY <1>2, <1>3 DEF Tracks
<1> QED BY <1>1, <1>4 DEF TracksInv

LEMMA TracksKept ==
  ASSUME Alone, OwnTypes, TracksInv, [DeployNext]_vars
  PROVE  TracksInv'
<1> USE DEF TracksInv, Tracks, OwnTypes, At, jobVars, fileVars
<1>0. \A p, q \in Procs : p = q
  BY DEF Alone
<1>1. CASE UNCHANGED vars
  BY <1>1 DEF vars, deployVars
<1>2. ASSUME NEW p \in Procs, NEW profile \in Profiles \cup {NoProfile}, Start(p, profile) PROVE TracksInv'
  BY <1>0, <1>2 DEF Start
<1>3. ASSUME NEW p \in Procs, Load(p) PROVE TracksInv'
  BY <1>0, <1>3 DEF Load
<1>4. ASSUME NEW p \in Procs, Emit(p) PROVE TracksInv'
  <2>1. PICK f \in todo[p] : gen' = gen \cup {f} /\ todo' = [todo EXCEPT ![p] = @ \ {f}]
    BY <1>4 DEF Emit, WriteSafe
  <2> QED BY <1>0, <1>4, <2>1 DEF Emit
<1>5. ASSUME NEW p \in Procs, EndEmit(p) PROVE TracksInv'
  BY <1>0, <1>5 DEF EndEmit
<1>6. ASSUME NEW p \in Procs, Clean(p) PROVE TracksInv'
  <2>1. PICK f \in todo[p] : gen' = gen \ {f} /\ todo' = [todo EXCEPT ![p] = @ \ {f}]
    BY <1>6 DEF Clean
  <2> QED BY <1>0, <1>6, <2>1 DEF Clean
<1>7. ASSUME NEW p \in Procs, CleanFails(p) PROVE TracksInv'
  <2>1. PICK f \in todo[p] : todo' = [todo EXCEPT ![p] = @ \ {f}] /\ strays' = strays \cup {f}
    BY <1>7 DEF CleanFails
  <2> QED BY <1>0, <1>7, <2>1 DEF CleanFails
<1>15. ASSUME NEW p \in Procs, CleanSkips(p) PROVE TracksInv'
  <2>1. PICK f \in todo[p] : todo' = [todo EXCEPT ![p] = @ \ {f}] /\ strays' = strays \cup (gen \cap {f})
    BY <1>15 DEF CleanSkips
  <2> QED BY <1>0, <1>15, <2>1 DEF CleanSkips
<1>8. ASSUME NEW p \in Procs, EndClean(p) \/ CallSwap(p) \/ OpenManifest(p) PROVE TracksInv'
  BY <1>0, <1>8 DEF EndClean, CallSwap, OpenManifest
<1>9. ASSUME NEW p \in Procs, Swap(p) PROVE TracksInv'
  BY <1>9 DEF Swap, deployVars
<1>10. ASSUME NEW p \in Procs, SaveManifest(p) PROVE TracksInv'
  BY <1>0, <1>10 DEF SaveManifest, Leave
<1>11. ASSUME NEW p \in Procs, SwapReturns(p) PROVE TracksInv'
  <2>1. CASE pc[p] = "done"
    BY <1>0, <1>11, <2>1 DEF SwapReturns
  <2>2. CASE pc[p] # "done"
    BY <1>11, <2>2, LeavesTracked DEF SwapReturns
  <2> QED BY <2>1, <2>2
<1>12. ASSUME NEW p \in Procs, Abort(p) \/ KilledInSwap(p) \/ KilledInSave(p) PROVE TracksInv'
  BY <1>12, LeavesTracked DEF Abort, KilledInSwap, KilledInSave
<1>13. ASSUME NEW f \in Files, UserWrites(f) PROVE TracksInv'
  BY <1>13 DEF UserWrites
<1>14. ASSUME NEW n \in Notes, ClaudeWrites(n) PROVE TracksInv'
  BY <1>14 DEF ClaudeWrites
<1> QED BY <1>1, <1>2, <1>3, <1>4, <1>5, <1>6, <1>7, <1>8, <1>9, <1>10, <1>11, <1>12, <1>13, <1>14, <1>15
        DEF DeployNext, DeployStep

LEMMA TracksAlways == Alone => (DeploySpec => [](DeployInv /\ Inv /\ TracksInv))
<1> SUFFICES ASSUME Alone PROVE DeploySpec => [](DeployInv /\ Inv /\ TracksInv)
  OBVIOUS
<1>1. DeployInv /\ Inv /\ TracksInv /\ [DeployNext]_vars => TracksInv'
  BY TracksKept DEF DeployInv
<1> QED BY <1>1, TracksInit, DeployInitInv, InitInv, DeployInvKept, PTL DEF DeploySpec

\* docs/architecture.md:245: with one deploy at a time, whatever stops it, every
\* generated file is in the manifest or is one a deploy left behind
\* (_run_deploy, cleanup_stale and save_manifest)
THEOREM GeneratedAreTracked == OneDeploy => (DeploySpec => []GeneratedIsTracked)
<1> SUFFICES ASSUME OneDeploy PROVE DeploySpec => []GeneratedIsTracked
  OBVIOUS
<1>1. TracksInv => GeneratedIsTracked
  BY DEF OneDeploy, TracksInv, Tracks, GeneratedIsTracked, Quiet
<1> QED BY <1>1, TracksAlways, PTL DEF OneDeploy

\* A deploy that runs to its end lists only files that are there (save_manifest,
\* resolver.py:210), also after deploys that stopped half way
THEOREM SavedAreDeployed == Alone => (DeploySpec => SavedIsDeployed)
<1> SUFFICES ASSUME Alone PROVE DeploySpec => SavedIsDeployed
  OBVIOUS
<1>1. DeployInv /\ Inv /\ TracksInv /\ [DeployNext]_vars
        => [\A p \in Procs : SaveManifest(p) => manifest'.files \subseteq gen]_vars
  BY DEF TracksInv, Tracks, SaveManifest
<1> QED BY <1>1, TracksAlways, PTL DEF DeploySpec, SavedIsDeployed

-----------------------------------------------------------------------------
\* no rename fails and nobody dies after the renames began
NoFaults == MaxCrashes = 0 /\ MaxFailures = 0 /\ MaxKills = 0

\* before the stash, between stash and restore, after the restore
Between == {"restore", "replace", "fresh", "unstash", "restoreMove", "mkdir"}
After == {"unmark", "release", "done"}

\* the profile whose memories are in memory/ while p's deploy is where it is
ActiveOf(p) ==
  IF stage[p] \in {"save", "write"} \/ (stage[p] = "swapping" /\ pc[p] \in After) THEN asked[p]
  ELSE IF stage[p] = "swapping" /\ pc[p] \in Between THEN NoProfile
  ELSE manifest.profile

\* the swap is between the profile deployed and the one asked for
ArgsInv == \A p \in Procs :
  /\ stage[p] \in {"emit", "clean", "swap", "swapping", "save"} => base[p].profile = manifest.profile
  /\ pc[p] # "idle" => from[p] = base[p].profile /\ to[p] = asked[p]

\* what swap_memory tested stays true until it moves, but for a memory/ that Claude Code creates
DirsInv == \A p \in Procs :
  /\ pc[p] # "recoverMove"
  /\ pc[p] \in {"idle", "recover", "raised"} /\ marker # "none" => "memory" \in present
  /\ pc[p] \in {"recoverCheck", "recoverLook", "recoverUnlink", "stashLook", "setAside", "stashMove", "unstash"} => "memory" \in present
  /\ pc[p] \in {"lock", "release", "done"} => marker = "none"
  /\ pc[p] = "setAside" => from[p] \in present
  /\ pc[p] = "stashMove" => from[p] \notin present
  /\ pc[p] \in {"replace", "unstash", "restoreMove"} => to[p] \in present
  /\ pc[p] \in {"fresh", "mkdir"} => to[p] \notin present
  /\ pc[p] \in {"replace", "fresh", "unstash", "restoreMove", "mkdir"} => to[p] \in Profiles

\* no memory of a profile is where another profile finds it
IsolatedInv == \A p \in Procs : \A n \in written : author[n] \in Profiles =>
  /\ n \in held["memory"] => author[n] = ActiveOf(p)
  /\ \A q \in Profiles : n \in held[q] => author[n] = q

\* every memory of a profile is where the profile finds it, if Claude Code wrote none during a deploy
Home(a, active) == IF a = active THEN "memory" ELSE a
AllKnown == \A n \in written : author[n] # "unknown"
HomeInv == \A p \in Procs : AllKnown =>
  /\ \A n \in written : author[n] \in Profiles => n \in held[Home(author[n], ActiveOf(p))]
  /\ pc[p] \in {"restoreMove", "mkdir"} => "memory" \notin present

LEMMA ArgsInit == DeployInit => ArgsInv
BY DEF DeployInit, MemoryInit, ArgsInv

LEMMA ArgsKept ==
  ASSUME Alone, DeployInv, Inv, ArgsInv, [DeployNext]_vars
  PROVE  ArgsInv'
<1>0. \A p, q \in Procs : p = q
  BY DEF Alone
<1>t. /\ pc \in [Procs -> Steps] /\ from \in [Procs -> ProfileArgs] /\ to \in [Procs -> ProfileArgs]
      /\ stage \in [Procs -> Stages] /\ asked \in [Procs -> ProfileArgs] /\ base \in [Procs -> Manifests]
  BY DEF Inv, Local, TypeOK, DeployInv, OwnTypes, ProfileArgs
<1>w. Waiting
  BY DEF DeployInv
<1> USE DEF ArgsInv, Waiting, At, Goto, jobVars
<1>1. CASE UNCHANGED vars
  BY <1>1 DEF vars, deployVars, swapVars
<1>2. ASSUME NEW p \in Procs,
             \/ Load(p) \/ Emit(p) \/ EndEmit(p) \/ Clean(p) \/ CleanFails(p) \/ CleanSkips(p) \/ EndClean(p)
             \/ \E profile \in Profiles \cup {NoProfile} : Start(p, profile)
      PROVE ArgsInv'
  BY <1>0, <1>t, <1>w, <1>2 DEF Load, Emit, EndEmit, Clean, CleanFails, CleanSkips, EndClean, Start, swapVars
<1>3. ASSUME NEW p \in Procs, CallSwap(p) PROVE ArgsInv'
  BY <1>0, <1>t, <1>w, <1>3 DEF CallSwap, Call
<1>4. ASSUME NEW p \in Procs, Swap(p) PROVE ArgsInv'
  <2>1. UNCHANGED <<stage, asked, base, manifest, from, to>> /\ pc[p] # "idle"
    BY <1>4 DEF Swap, deployVars, SwapStep, ReadMarker, RecoverCheck, RecoverLook, RecoverMove, RecoverMoveFails,
                RecoverUnlink, Lock, OpenMarker, WriteMarker, StashCheck, StashLook, SwapMove, RestoreCheck, RestoreLook, MakeMemory,
                RemoveMarker, Release, SwapFails, Moving, UnderLock, callVars
  <2> QED BY <1>0, <1>t, <2>1
<1>5. ASSUME NEW p \in Procs, SwapReturns(p) PROVE ArgsInv'
  BY <1>0, <1>t, <1>w, <1>5 DEF SwapReturns, Return, Unrecorded, Leave
<1>6. ASSUME NEW p \in Procs, OpenManifest(p) \/ SaveManifest(p) \/ Abort(p) \/ KilledInSave(p) PROVE ArgsInv'
  BY <1>0, <1>t, <1>w, <1>6 DEF OpenManifest, SaveManifest, Abort, KilledInSave, Unrecorded, Leave, swapVars
<1>7. ASSUME NEW p \in Procs, KilledInSwap(p) PROVE ArgsInv'
  BY <1>0, <1>t, <1>w, <1>7 DEF KilledInSwap, Crash, Unrecorded, Leave
<1>8. ASSUME NEW f \in Files, UserWrites(f) PROVE ArgsInv'
  BY <1>8 DEF UserWrites, swapVars
<1>9. ASSUME NEW n \in Notes, ClaudeWrites(n) PROVE ArgsInv'
  BY <1>9 DEF ClaudeWrites, Write, callVars
<1> QED BY <1>1, <1>2, <1>3, <1>4, <1>5, <1>6, <1>7, <1>8, <1>9 DEF DeployNext, DeployStep

LEMMA DirsInit == MemoryInit => DirsInv
BY DEF MemoryInit, DirsInv

\* without faults a swap only fails because another one is under way, or because
\* Claude Code has created memory/ before it
LEMMA FailsForMkdir ==
  ASSUME NoFaults, Inv, DirsInv, NEW p \in Procs, SwapFails(p)
  PROVE  pc[p] = "mkdir" /\ "memory" \in present
<1>1. failures = 0 /\ ~FailOnce
  BY DEF NoFaults, Inv, Local, TypeOK, FailOnce
<1> QED BY <1>1 DEF SwapFails, DirsInv, Moving, MoveOf

LEMMA DirsKept ==
  ASSUME Alone, NoFaults, Inv, DirsInv, [MemoryNext]_swapVars
  PROVE  DirsInv'
<1>0. \A p, q \in Procs : p = q
  BY DEF Alone
<1>a. NoProfile \notin DirNames /\ "memory" \notin Profiles /\ "aside" \notin Profiles
  BY NamesApart DEF DirNames
<1>t. /\ pc \in [Procs -> Steps] /\ from \in [Procs -> ProfileArgs] /\ to \in [Procs -> ProfileArgs]
      /\ plan \in [Procs -> ProfileArgs] /\ present \subseteq DirNames /\ "aside" \in present
      /\ \A p \in Procs : pc[p] \in {"stashLook", "setAside", "stashMove"} => from[p] \in Profiles
      /\ crashes = 0 /\ failures = 0
  BY DEF Inv, Local, TypeOK, ProfileArgs, StashIsNamed, NoFaults
<1> USE DEF DirsInv, Goto, ProfileArgs
<1>1. CASE UNCHANGED swapVars
  BY <1>1 DEF swapVars
<1>2. ASSUME NEW n \in Notes, Write(n) PROVE DirsInv'
  BY <1>a, <1>t, <1>2 DEF Write, callVars
<1>3. ASSUME NEW p \in Procs, ReadMarker(p) \/ RecoverCheck(p) \/ RecoverLook(p) \/ RecoverUnlink(p) \/ Lock(p) PROVE DirsInv'
  BY <1>0, <1>a, <1>t, <1>3 DEF ReadMarker, RecoverCheck, RecoverLook, RecoverUnlink, Lock, dirVars, callVars
<1>4. ASSUME NEW p \in Procs, RecoverMove(p) \/ RecoverMoveFails(p) PROVE DirsInv'
  BY <1>4 DEF RecoverMove, RecoverMoveFails
<1>5. ASSUME NEW p \in Procs, OpenMarker(p) \/ WriteMarker(p) \/ RemoveMarker(p) \/ Release(p) PROVE DirsInv'
  BY <1>0, <1>t, <1>5 DEF OpenMarker, WriteMarker, RemoveMarker, Release, dirVars, callVars
<1>6. ASSUME NEW p \in Procs, StashCheck(p) \/ StashLook(p) PROVE DirsInv'
  BY <1>0, <1>t, <1>6 DEF StashCheck, StashLook, dirVars, callVars
<1>7. ASSUME NEW p \in Procs, RestoreCheck(p) \/ RestoreLook(p) PROVE DirsInv'
  BY <1>0, <1>a, <1>t, <1>7 DEF RestoreCheck, RestoreLook, dirVars, callVars
<1>8. ASSUME NEW p \in Procs, MakeMemory(p) PROVE DirsInv'
  BY <1>0, <1>a, <1>t, <1>8 DEF MakeMemory, callVars
<1>9. ASSUME NEW p \in Procs, SwapMove(p) PROVE DirsInv'
  <2>1. UNCHANGED <<from, to, marker>> /\ Move(MoveOf(p).src, MoveOf(p).dst) /\ pc' = [pc EXCEPT ![p] = MoveOf(p).next]
    BY <1>9 DEF SwapMove, callVars
  <2>2. CASE pc[p] = "setAside"
    <3>1. present' = (present \ {from[p]}) \cup {"aside"} /\ pc'[p] = "stashMove"
      BY <1>t, <2>1, <2>2 DEF Move, MoveOf
    <3> QED BY <1>0, <1>a, <1>t, <2>1, <2>2, <3>1
  <2>3. CASE pc[p] = "stashMove"
    <3>1. pc'[p] = "restore"
      BY <1>t, <2>1, <2>3 DEF MoveOf
    <3> QED BY <1>0, <2>1, <3>1
  <2>4. CASE pc[p] = "unstash"
    <3>1. present' = (present \ {"memory"}) \cup {"aside"} /\ pc'[p] = "restoreMove"
      BY <1>t, <2>1, <2>4 DEF Move, MoveOf
    <3> QED BY <1>0, <1>a, <1>t, <2>1, <2>4, <3>1
  <2>5. CASE pc[p] = "restoreMove"
    <3>1. pc'[p] = "unmark"
      BY <1>t, <2>1, <2>5 DEF MoveOf
    <3> QED BY <1>0, <2>1, <3>1
  <2> QED BY <1>9, <2>2, <2>3, <2>4, <2>5 DEF SwapMove, Moving
<1>10. ASSUME NEW p \in Procs, SwapFails(p) PROVE DirsInv'
  <2>1. "memory" \in present
    BY <1>10, FailsForMkdir
  <2> QED BY <1>0, <1>t, <1>10, <2>1 DEF SwapFails, dirVars, callVars
<1>11. ASSUME NEW p \in Procs, Return(p) PROVE DirsInv'
  BY <1>0, <1>t, <1>11 DEF Return, dirVars
<1>12. ASSUME NEW p \in Procs PROVE ~Crash(p)
  BY <1>t DEF NoFaults, Crash
<1>13. ASSUME NEW p \in Procs, NEW old \in Profiles \cup {NoProfile}, NEW new \in Profiles \cup {NoProfile},
              Call(p, old, new)
       PROVE DirsInv'
  BY <1>0, <1>t, <1>13 DEF Call, dirVars
<1> QED BY <1>1, <1>2, <1>3, <1>4, <1>5, <1>6, <1>7, <1>8, <1>9, <1>10, <1>11, <1>12, <1>13
        DEF MemoryNext, SwapStep

(***************************************************************************)
(* A step that moves no memory leaves the active profile, or makes memory/ *)
(* nobody's when it is empty, or gives it, when it is nobody's, to a       *)
(* profile that has no stash; only with a memory/ of Claude Code's own     *)
(* under way does a swap fail and give it back.                            *)
(***************************************************************************)
Shift(p) ==
  \/ ActiveOf(p)' = ActiveOf(p)
  \/ ActiveOf(p)' = NoProfile /\ held["memory"] = {}
  \/ ActiveOf(p) = NoProfile /\ (ActiveOf(p)' \in Profiles => held[ActiveOf(p)'] = {})
  \/ ActiveOf(p) = NoProfile /\ pc[p] = "mkdir" /\ "memory" \in present

LEMMA SwapShifts ==
  ASSUME NoFaults, DeployInv, Inv, ArgsInv, DirsInv, NEW p \in Procs, Swap(p), ~SwapMove(p)
  PROVE  Shift(p) /\ UNCHANGED held
<1>a. /\ pc \in [Procs -> Steps] /\ to \in [Procs -> Profiles \cup {NoProfile}]
      /\ present \subseteq DirNames /\ NoGhostDirs
  BY DEF Inv, Local, TypeOK
<1>b. /\ stage[p] = "swapping" /\ pc[p] # "idle" /\ UNCHANGED <<stage, asked, manifest, base>>
  BY DEF Swap, deployVars, SwapStep, ReadMarker, RecoverCheck, RecoverLook, RecoverMove, RecoverMoveFails, RecoverUnlink, Lock,
         OpenMarker, WriteMarker, StashCheck, StashLook, RestoreCheck, RestoreLook, MakeMemory, RemoveMarker, Release, SwapFails, UnderLock,
         DeployInv, Waiting
<1>c. from[p] = manifest.profile /\ to[p] = asked[p]
  BY <1>b DEF ArgsInv
<1>d. ASSUME NEW d \in DirNames, d \notin present PROVE held[d] = {}
  BY <1>a, <1>d DEF NoGhostDirs
<1>e. "memory" \in DirNames /\ Profiles \subseteq DirNames
  BY DEF DirNames
<1> USE DEF Shift, ActiveOf, Between, After, Goto
<1>1. CASE \/ ReadMarker(p) \/ RecoverCheck(p) \/ RecoverLook(p) \/ RecoverUnlink(p) \/ Lock(p) \/ OpenMarker(p) \/ WriteMarker(p)
           \/ RemoveMarker(p) \/ Release(p)
  BY <1>1, <1>a, <1>b DEF ReadMarker, RecoverCheck, RecoverLook, RecoverUnlink, Lock, OpenMarker, WriteMarker, RemoveMarker,
                          Release, dirVars
<1>2. CASE RecoverMove(p) \/ RecoverMoveFails(p)
  BY <1>2 DEF RecoverMove, RecoverMoveFails, DirsInv
<1>3. CASE StashCheck(p) \/ StashLook(p)
  <2>1. pc'[p] \in {"restore", "stashLook", "setAside", "stashMove"} /\ UNCHANGED held /\ pc[p] \in {"stash", "stashLook"}
    BY <1>3, <1>a DEF StashCheck, StashLook, dirVars
  <2>2. pc'[p] = "restore" => from[p] = NoProfile \/ "memory" \notin present
    BY <1>3, <1>a DEF StashCheck, StashLook
  <2>3. pc'[p] = "restore" => ActiveOf(p)' = NoProfile /\ ActiveOf(p) = manifest.profile
    BY <1>b, <2>1
  <2>4. pc'[p] # "restore" => ActiveOf(p)' = ActiveOf(p)
    BY <1>b, <2>1
  <2> QED BY <1>c, <1>d, <1>e, <2>1, <2>2, <2>3, <2>4
<1>4. CASE RestoreCheck(p) \/ RestoreLook(p)
  <2>1. /\ pc'[p] \in {"unmark", "replace", "fresh", "unstash", "restoreMove", "mkdir"} /\ UNCHANGED held
        /\ pc[p] \in {"restore", "replace", "fresh"}
    BY <1>4, <1>a DEF RestoreCheck, RestoreLook, dirVars
  <2>2. pc'[p] = "unmark" => to[p] = NoProfile \/ to[p] \notin present
    BY <1>4, <1>a DEF RestoreCheck, RestoreLook, DirsInv
  <2>3. ActiveOf(p) = NoProfile /\ ActiveOf(p)' = IF pc'[p] = "unmark" THEN to[p] ELSE NoProfile
    BY <1>b, <1>c, <2>1
  <2> QED BY <1>a, <1>d, <1>e, <2>1, <2>2, <2>3, NamesApart
<1>5. CASE MakeMemory(p)
  <2>1. ActiveOf(p) = NoProfile /\ ActiveOf(p)' = to[p] /\ UNCHANGED held
    BY <1>5, <1>a, <1>b, <1>c DEF MakeMemory
  <2>2. to[p] \notin present
    BY <1>5 DEF MakeMemory, DirsInv
  <2> QED BY <1>d, <1>e, <2>1, <2>2
<1>6. CASE SwapFails(p)
  <2>1. pc[p] = "mkdir" /\ "memory" \in present
    BY <1>6, FailsForMkdir
  <2> QED BY <1>6, <1>b, <2>1 DEF SwapFails, dirVars
<1> QED BY <1>1, <1>2, <1>3, <1>4, <1>5, <1>6 DEF Swap, SwapStep

LEMMA StepShifts ==
  ASSUME Alone, NoFaults, DeployInv, Inv, ArgsInv, DirsInv, [DeployNext]_vars, NEW p \in Procs,
         ~\E n \in Notes : ClaudeWrites(n), ~(Swap(p) /\ SwapMove(p))
  PROVE  Shift(p) /\ UNCHANGED <<held, written, author>>
<1>a. /\ stage \in [Procs -> Stages] /\ asked \in [Procs -> ProfileArgs] /\ base \in [Procs -> Manifests]
      /\ pc \in [Procs -> Steps] /\ crashes = 0 /\ kills = 0
  BY DEF DeployInv, OwnTypes, Inv, Local, TypeOK, NoFaults
<1>b. \A q \in Procs : q = p
  BY DEF Alone
<1>c. stage[p] \in {"emit", "clean", "swap", "swapping", "save"} => base[p].profile = manifest.profile
  BY DEF ArgsInv
<1>d. stage[p] = "swapping" <=> pc[p] # "idle"
  BY DEF DeployInv, Waiting
<1>s. ActiveOf(p)' = ActiveOf(p) => Shift(p)
  BY DEF Shift
<1>1. CASE UNCHANGED vars
  BY <1>1, <1>s DEF vars, deployVars, swapVars, ActiveOf
<1>2. CASE \/ Load(p) \/ Emit(p) \/ EndEmit(p) \/ Clean(p) \/ CleanFails(p) \/ CleanSkips(p)
           \/ \E profile \in Profiles \cup {NoProfile} : Start(p, profile)
  BY <1>2, <1>a, <1>s DEF Load, Emit, EndEmit, Clean, CleanFails, CleanSkips, Start, At, ActiveOf, swapVars, jobVars
<1>3. CASE EndClean(p) \/ OpenManifest(p)
  BY <1>3, <1>a, <1>c, <1>s DEF EndClean, OpenManifest, At, ActiveOf, swapVars, jobVars
<1>4. CASE CallSwap(p)
  BY <1>4, <1>a, <1>s DEF CallSwap, Call, Goto, At, ActiveOf, After, Between, dirVars, jobVars
<1>5. CASE Swap(p)
  <2>1. UNCHANGED <<author, written>>
    BY <1>5 DEF Swap, deployVars, SwapStep, ReadMarker, RecoverCheck, RecoverLook, RecoverMove, RecoverMoveFails, RecoverUnlink,
         Lock, OpenMarker, WriteMarker, StashCheck, StashLook, SwapMove, RestoreCheck, RestoreLook, MakeMemory, RemoveMarker, Release, SwapFails
  <2> QED BY <1>5, <2>1, SwapShifts
<1>6. CASE SwapReturns(p)
  BY <1>6, <1>a, <1>s DEF SwapReturns, Return, Unrecorded, Leave, Goto, At, ActiveOf, After, Between, dirVars, jobVars
<1>7. CASE SaveManifest(p)
  BY <1>7, <1>a, <1>s DEF SaveManifest, Leave, At, ActiveOf, swapVars
<1>8. CASE Abort(p)
  BY <1>8, <1>a, <1>s DEF Abort, Unrecorded, Leave, At, ActiveOf, swapVars
<1>9. ~KilledInSwap(p) /\ ~KilledInSave(p)
  BY <1>a DEF KilledInSwap, Crash, KilledInSave, NoFaults
<1>10. CASE \E f \in Files : UserWrites(f)
  BY <1>10, <1>s DEF UserWrites, swapVars, jobVars, ActiveOf
<1> QED BY <1>b, <1>1, <1>2, <1>3, <1>4, <1>5, <1>6, <1>7, <1>8, <1>9, <1>10 DEF DeployNext, DeployStep

\* where a rename leaves the memories
LEMMA MoveHeld ==
  ASSUME Inv, NEW src \in DirNames, src # "aside", NEW dst \in DirNames, src # dst, Move(src, dst)
  PROVE  LET into == IF dst \in present THEN "aside" ELSE dst
         IN  /\ held'[src] = {} /\ held'[into] = held[into] \cup held[src]
             /\ \A d \in DirNames \ {src, into} : held'[d] = held[d]
<1>1. held \in [DirNames -> SUBSET Notes] /\ "aside" \in DirNames
  BY DEF Inv, Local, TypeOK, DirNames
<1> QED BY <1>1 DEF Move

\* a memory not yet written is in no directory
LEMMA Unwritten ==
  ASSUME Inv, NEW n \in Notes, n \notin written, NEW d \in DirNames
  PROVE  n \notin held[d]
BY DEF Inv, MemoryKept, NothingLost, NoGhostDirs

\* what the four renames of a swap do to memory/, the stashes and the active profile
LEMMA SwapMoves ==
  ASSUME Alone, NoFaults, DeployInv, Inv, ArgsInv, DirsInv, NEW p \in Procs, Swap(p), SwapMove(p)
  PROVE  /\ UNCHANGED <<written, author>>
         /\ \/ /\ pc[p] = "setAside" /\ ActiveOf(p)' = ActiveOf(p) /\ ActiveOf(p) = from[p] /\ from[p] \in Profiles
               /\ held'[from[p]] = {}
               /\ \A d \in DirNames \ {from[p], "aside"} : held'[d] = held[d]
            \/ /\ pc[p] = "stashMove" /\ ActiveOf(p)' = NoProfile /\ ActiveOf(p) = from[p] /\ from[p] \in Profiles
               /\ held'["memory"] = {} /\ held'[from[p]] = held[from[p]] \cup held["memory"]
               /\ \A d \in DirNames \ {from[p], "memory"} : held'[d] = held[d]
            \/ /\ pc[p] = "unstash" /\ ActiveOf(p)' = NoProfile /\ ActiveOf(p) = NoProfile
               /\ held'["memory"] = {} /\ pc'[p] = "restoreMove" /\ "memory" \notin present'
               /\ \A d \in DirNames \ {"aside", "memory"} : held'[d] = held[d]
            \/ /\ pc[p] = "restoreMove" /\ ActiveOf(p)' = to[p] /\ ActiveOf(p) = NoProfile /\ to[p] \in Profiles
               /\ held'[to[p]] = {}
               /\ held'["memory"] = IF "memory" \in present THEN held["memory"] ELSE held["memory"] \cup held[to[p]]
               /\ \A d \in DirNames \ {to[p], "memory", "aside"} : held'[d] = held[d]
<1>a. /\ pc \in [Procs -> Steps] /\ "aside" \in present /\ present \subseteq DirNames
      /\ stage[p] = "swapping" /\ pc[p] # "idle"
  BY DEF Inv, Local, TypeOK, DeployInv, Waiting, SwapMove, Moving
<1>b. /\ UNCHANGED <<written, author, stage, asked, manifest>> /\ Move(MoveOf(p).src, MoveOf(p).dst)
      /\ pc' = [pc EXCEPT ![p] = MoveOf(p).next]
  BY DEF Swap, SwapMove, deployVars, callVars, Goto
<1>c. from[p] = manifest.profile /\ to[p] = asked[p]
  BY <1>a DEF ArgsInv
<1>d. {"memory", "aside"} \subseteq DirNames /\ Profiles \subseteq DirNames /\ {"memory", "aside"} \cap Profiles = {}
  BY NamesApart DEF DirNames
<1>1. CASE pc[p] = "setAside"
  <2>1. from[p] \in Profiles
    BY <1>1 DEF Inv, Local, StashIsNamed
  <2>2. pc'[p] = "stashMove" /\ Move(from[p], "aside")
    BY <1>a, <1>b, <1>1 DEF MoveOf
  <2>3. ActiveOf(p)' = ActiveOf(p) /\ ActiveOf(p) = from[p]
    BY <1>a, <1>b, <1>c, <1>1, <2>2 DEF ActiveOf, Between, After
  <2>4. held'[from[p]] = {} /\ \A d \in DirNames \ {from[p], "aside"} : held'[d] = held[d]
    BY <1>a, <1>d, <2>1, <2>2, MoveHeld
  <2> QED BY <1>b, <1>1, <2>1, <2>3, <2>4
<1>2. CASE pc[p] = "stashMove"
  <2>1. from[p] \in Profiles /\ from[p] \notin present
    BY <1>2 DEF Inv, Local, StashIsNamed, DirsInv
  <2>2. pc'[p] = "restore" /\ Move("memory", from[p])
    BY <1>a, <1>b, <1>2 DEF MoveOf
  <2>3. ActiveOf(p)' = NoProfile /\ ActiveOf(p) = from[p]
    BY <1>a, <1>b, <1>c, <1>2, <2>2 DEF ActiveOf, Between, After
  <2>4. /\ held'["memory"] = {} /\ held'[from[p]] = held[from[p]] \cup held["memory"]
        /\ \A d \in DirNames \ {from[p], "memory"} : held'[d] = held[d]
    BY <1>a, <1>d, <2>1, <2>2, MoveHeld
  <2> QED BY <1>b, <1>2, <2>1, <2>3, <2>4
<1>3. CASE pc[p] = "unstash"
  <2>1. pc'[p] = "restoreMove" /\ Move("memory", "aside")
    BY <1>a, <1>b, <1>3 DEF MoveOf
  <2>2. ActiveOf(p)' = NoProfile /\ ActiveOf(p) = NoProfile
    BY <1>a, <1>b, <1>c, <1>3, <2>1 DEF ActiveOf, Between, After
  <2>3. held'["memory"] = {} /\ \A d \in DirNames \ {"aside", "memory"} : held'[d] = held[d]
    BY <1>a, <1>d, <2>1, MoveHeld
  <2>4. "memory" \notin present'
    BY <1>a, <2>1 DEF Move
  <2> QED BY <1>b, <1>3, <2>1, <2>2, <2>3, <2>4
<1>4. CASE pc[p] = "restoreMove"
  <2>1. to[p] \in Profiles
    BY <1>4 DEF DirsInv
  <2>2. pc'[p] = "unmark" /\ Move(to[p], "memory")
    BY <1>a, <1>b, <1>4 DEF MoveOf
  <2>3. ActiveOf(p)' = to[p] /\ ActiveOf(p) = NoProfile
    BY <1>a, <1>b, <1>c, <1>4, <2>2 DEF ActiveOf, Between, After
  <2>4. /\ held'[to[p]] = {}
        /\ held'["memory"] = IF "memory" \in present THEN held["memory"] ELSE held["memory"] \cup held[to[p]]
        /\ \A d \in DirNames \ {to[p], "memory", "aside"} : held'[d] = held[d]
    BY <1>a, <1>d, <2>1, <2>2, MoveHeld
  <2> QED BY <1>b, <1>4, <2>1, <2>3, <2>4
<1> QED BY <1>1, <1>2, <1>3, <1>4 DEF SwapMove, Moving

\* what Claude Code's write does to the active profile and to the author of the memory
LEMMA WriteBelongs ==
  ASSUME Alone, DeployInv, Inv, NEW p \in Procs, NEW n \in Notes, ClaudeWrites(n)
  PROVE  /\ n \notin written /\ written' = written \cup {n} /\ ActiveOf(p)' = ActiveOf(p)
         /\ author'[n] = ActiveOf(p) \/ author'[n] = "unknown"
         /\ pc[p] # "idle" => author'[n] = "unknown"
         /\ \A m \in Notes \ {n} : author'[m] = author[m]
         /\ held'["memory"] = held["memory"] \cup {n}
         /\ \A d \in DirNames \ {"memory"} : held'[d] = held[d]
         /\ pc' = pc
<1>1. author \in [Notes -> Profiles \cup {NoProfile, "unknown"}] /\ held \in [DirNames -> SUBSET Notes]
      /\ "memory" \in DirNames
  BY DEF DeployInv, OwnTypes, ProfileArgs, Inv, Local, TypeOK, DirNames
<1>2. /\ n \notin written /\ written' = written \cup {n} /\ held' = [held EXCEPT !["memory"] = @ \cup {n}]
      /\ UNCHANGED <<stage, asked, manifest, pc>>
      /\ author' = [author EXCEPT ![n] = IF Quiet THEN manifest.profile ELSE "unknown"]
  BY DEF ClaudeWrites, Write, jobVars
<1>3. Quiet => ActiveOf(p) = manifest.profile
  BY DEF Quiet, ActiveOf
<1>4. pc[p] # "idle" => ~Quiet
  BY DEF Quiet, DeployInv, Waiting
<1> QED BY <1>1, <1>2, <1>3, <1>4 DEF ActiveOf

LEMMA IsolatedInit == DeployInit => IsolatedInv
<1> SUFFICES ASSUME DeployInit, NEW n \in written PROVE author[n] \notin Profiles
  BY DEF IsolatedInv
<1> QED BY NamesApart DEF DeployInit, MemoryInit

LEMMA IsolatedKept ==
  ASSUME Alone, NoFaults, DeployInv, Inv, ArgsInv, DirsInv, IsolatedInv, [DeployNext]_vars
  PROVE  IsolatedInv'
<1> SUFFICES ASSUME NEW p \in Procs, NEW n \in written', author'[n] \in Profiles
             PROVE  /\ n \in held'["memory"] => author'[n] = ActiveOf(p)'
                    /\ \A q \in Profiles : n \in held'[q] => author'[n] = q
  BY DEF IsolatedInv
<1>a. \A m \in written : author[m] \in Profiles =>
        /\ m \in held["memory"] => author[m] = ActiveOf(p)
        /\ \A q \in Profiles : m \in held[q] => author[m] = q
  BY DEF IsolatedInv
<1>d. "memory" \notin Profiles /\ "aside" \notin Profiles /\ NoProfile \notin Profiles /\ "unknown" \notin Profiles
  BY NamesApart
<1>e. Profiles \subseteq DirNames /\ "memory" \in DirNames /\ "aside" # "memory"
  BY DEF DirNames
<1>1. CASE \E m \in Notes : ClaudeWrites(m)
  <2> PICK m \in Notes : ClaudeWrites(m)
    BY <1>1
  <2>1. /\ m \notin written /\ written' = written \cup {m} /\ ActiveOf(p)' = ActiveOf(p)
        /\ author'[m] = ActiveOf(p) \/ author'[m] = "unknown"
        /\ \A k \in Notes \ {m} : author'[k] = author[k]
        /\ held'["memory"] = held["memory"] \cup {m}
        /\ \A d \in DirNames \ {"memory"} : held'[d] = held[d]
    BY WriteBelongs
  <2>2. \A d \in DirNames : m \notin held[d]
    BY <2>1, Unwritten
  <2>3. CASE n = m
    BY <1>d, <1>e, <2>1, <2>2, <2>3
  <2>4. CASE n # m
    <3>1. n \in written /\ n \in Notes /\ author'[n] = author[n]
      BY <2>1, <2>4 DEF Inv, Local, TypeOK
    <3> QED BY <1>a, <1>d, <1>e, <2>1, <2>4, <3>1
  <2> QED BY <2>3, <2>4
<1>2. CASE Swap(p) /\ SwapMove(p)
  <2>1. n \in written /\ author'[n] = author[n]
    BY <1>2, SwapMoves
  <2>2. CASE pc[p] = "setAside"
    <3>1. /\ ActiveOf(p)' = ActiveOf(p) /\ from[p] \in Profiles /\ held'[from[p]] = {}
          /\ \A d \in DirNames \ {from[p], "aside"} : held'[d] = held[d]
      BY <1>2, <2>2, SwapMoves
    <3>2. held'["memory"] = held["memory"]
      BY <1>d, <1>e, <3>1
    <3>3. ASSUME NEW q \in Profiles, n \in held'[q] PROVE n \in held[q]
      BY <1>d, <1>e, <3>1, <3>3
    <3> QED BY <1>a, <2>1, <3>1, <3>2, <3>3
  <2>3. CASE pc[p] = "stashMove"
    <3>1. /\ ActiveOf(p) = from[p] /\ from[p] \in Profiles
          /\ held'["memory"] = {} /\ held'[from[p]] = held[from[p]] \cup held["memory"]
          /\ \A d \in DirNames \ {from[p], "memory"} : held'[d] = held[d]
      BY <1>2, <2>3, SwapMoves
    <3>2. ASSUME NEW q \in Profiles, n \in held'[q] PROVE n \in held[q] \/ (q = from[p] /\ n \in held["memory"])
      BY <1>d, <1>e, <3>1, <3>2
    <3> QED BY <1>a, <2>1, <3>1, <3>2
  <2>4. CASE pc[p] = "unstash"
    <3>1. held'["memory"] = {} /\ \A d \in DirNames \ {"aside", "memory"} : held'[d] = held[d]
      BY <1>2, <2>4, SwapMoves
    <3>2. ASSUME NEW q \in Profiles, n \in held'[q] PROVE n \in held[q]
      BY <1>d, <1>e, <3>1, <3>2
    <3> QED BY <1>a, <2>1, <3>1, <3>2
  <2>5. CASE pc[p] = "restoreMove"
    <3>1. /\ ActiveOf(p)' = to[p] /\ ActiveOf(p) = NoProfile /\ to[p] \in Profiles /\ held'[to[p]] = {}
          /\ held'["memory"] = IF "memory" \in present THEN held["memory"] ELSE held["memory"] \cup held[to[p]]
          /\ \A d \in DirNames \ {to[p], "memory", "aside"} : held'[d] = held[d]
      BY <1>2, <2>5, SwapMoves
    <3>2. n \in held'["memory"] => n \in held["memory"] \/ n \in held[to[p]]
      BY <3>1
    <3>3. ASSUME NEW q \in Profiles, n \in held'[q] PROVE n \in held[q]
      BY <1>d, <1>e, <3>1, <3>3
    <3> QED BY <1>a, <1>d, <2>1, <3>1, <3>2, <3>3
  <2> QED BY <1>2, <2>2, <2>3, <2>4, <2>5, SwapMoves
<1>3. CASE ~(\E m \in Notes : ClaudeWrites(m)) /\ ~(Swap(p) /\ SwapMove(p))
  <2>1. Shift(p) /\ UNCHANGED <<held, written, author>>
    BY <1>3, StepShifts
  <2> QED BY <2>1, <1>a, <1>d DEF Shift
<1> QED BY <1>1, <1>2, <1>3

(***************************************************************************)
(* The memories of the profiles stay apart (docs/architecture.md:237) for  *)
(* any number of profiles, memories, files and deploys, whatever Claude    *)
(* Code writes and however many deploys are stopped before their swap, as  *)
(* long as one process deploys and no system call of a swap fails.         *)
(***************************************************************************)
THEOREM MemoryStaysIsolated == Alone /\ NoFaults => (DeploySpec => MemoryIsolated)
<1> SUFFICES ASSUME Alone, NoFaults PROVE DeploySpec => MemoryIsolated
  OBVIOUS
<1> DEFINE Together == DeployInv /\ Inv /\ ArgsInv /\ DirsInv /\ IsolatedInv
<1>1. DeployInit => Together
  BY DeployInitInv, InitInv, ArgsInit, DirsInit, IsolatedInit
<1>2. Together /\ [DeployNext]_vars => Together'
  BY DeployInvKept, StepImplements, InvKept, ArgsKept, DirsKept, IsolatedKept
<1>3. ASSUME Together, NEW p \in Procs, SaveManifest(p), NEW n \in written, author[n] \in Profiles
      PROVE  /\ n \in held["memory"] => author[n] = asked[p]
             /\ \A q \in Profiles : n \in held[q] => author[n] = q
  BY <1>3 DEF IsolatedInv, SaveManifest, ActiveOf
<1>4. Together => [\A p \in Procs : SaveManifest(p) =>
                     \A n \in written : author[n] \in Profiles =>
                       /\ n \in held["memory"] => author[n] = asked[p]
                       /\ \A q \in Profiles : n \in held[q] => author[n] = q]_vars
  BY <1>3
<1> QED BY <1>1, <1>2, <1>4, PTL DEF DeploySpec, MemoryIsolated

-----------------------------------------------------------------------------
LEMMA HomeInit == DeployInit => HomeInv
<1> SUFFICES ASSUME DeployInit PROVE HomeInv
  OBVIOUS
<1>1. \A n \in written : author[n] \notin Profiles
  BY NamesApart DEF DeployInit, MemoryInit
<1>2. \A p \in Procs : pc[p] = "idle"
  BY DEF DeployInit, MemoryInit
<1> QED BY <1>1, <1>2 DEF HomeInv

\* only RestoreLook leads to the rename or the mkdir of an absent memory/
LEMMA RestoresIntoNothing ==
  ASSUME Alone, NoFaults, Inv, [MemoryNext]_swapVars, NEW p \in Procs, ~\E n \in Notes : Write(n),
         pc'[p] \in {"restoreMove", "mkdir"}
  PROVE  "memory" \notin present' \/ (pc'[p] = pc[p] /\ present' = present)
<1>0. \A q \in Procs : q = p
  BY DEF Alone
<1>t. pc \in [Procs -> Steps] /\ crashes = 0
  BY DEF Inv, Local, TypeOK, NoFaults
<1> USE DEF Goto
<1>1. CASE UNCHANGED swapVars
  BY <1>1 DEF swapVars
<1>2. CASE ReadMarker(p) \/ RecoverCheck(p) \/ RecoverLook(p) \/ RecoverMove(p) \/ RecoverMoveFails(p) \/ RecoverUnlink(p) \/ Lock(p)
  BY <1>2, <1>t DEF ReadMarker, RecoverCheck, RecoverLook, RecoverMove, RecoverMoveFails, RecoverUnlink, Lock
<1>3. CASE OpenMarker(p) \/ WriteMarker(p) \/ StashCheck(p) \/ StashLook(p) \/ MakeMemory(p) \/ RemoveMarker(p) \/ Release(p) \/ SwapFails(p)
  BY <1>3, <1>t DEF OpenMarker, WriteMarker, StashCheck, StashLook, MakeMemory, RemoveMarker, Release, SwapFails
<1>4. CASE RestoreCheck(p) \/ RestoreLook(p)
  BY <1>4, <1>t DEF RestoreCheck, RestoreLook, dirVars
<1>5. CASE Return(p) \/ \E old, new \in Profiles \cup {NoProfile} : Call(p, old, new)
  BY <1>5, <1>t DEF Return, Call
<1>6. CASE SwapMove(p)
  <2>1. pc[p] = "unstash"
    BY <1>6, <1>t DEF SwapMove, Moving, MoveOf
  <2>2. Move("memory", "aside")
    BY <1>6, <2>1 DEF SwapMove, MoveOf
  <2> QED BY <2>2 DEF Move, Inv, Local, TypeOK
<1>7. ~Crash(p)
  BY <1>t DEF Crash, NoFaults
<1> QED BY <1>0, <1>1, <1>2, <1>3, <1>4, <1>5, <1>6, <1>7 DEF MemoryNext, SwapStep

LEMMA HomeKept ==
  ASSUME Alone, NoFaults, DeployInv, Inv, ArgsInv, DirsInv, HomeInv, [DeployNext]_vars
  PROVE  HomeInv'
<1> SUFFICES ASSUME NEW p \in Procs, AllKnown'
             PROVE  /\ \A n \in written' : author'[n] \in Profiles => n \in held'[Home(author'[n], ActiveOf(p)')]
                    /\ pc'[p] \in {"restoreMove", "mkdir"} => "memory" \notin present'
  BY DEF HomeInv, Home
<1>d. "memory" \notin Profiles /\ "aside" \notin Profiles /\ NoProfile \notin Profiles /\ "unknown" \notin Profiles
  BY NamesApart
<1>e. Profiles \subseteq DirNames /\ "memory" \in DirNames /\ "aside" # "memory"
  BY DEF DirNames
<1> USE DEF Home
<1>1. CASE \E m \in Notes : ClaudeWrites(m)
  <2> PICK m \in Notes : ClaudeWrites(m)
    BY <1>1
  <2>1. /\ m \notin written /\ written' = written \cup {m} /\ ActiveOf(p)' = ActiveOf(p)
        /\ author'[m] = ActiveOf(p) \/ author'[m] = "unknown"
        /\ pc[p] # "idle" => author'[m] = "unknown"
        /\ \A k \in Notes \ {m} : author'[k] = author[k]
        /\ held'["memory"] = held["memory"] \cup {m}
        /\ \A d \in DirNames \ {"memory"} : held'[d] = held[d]
        /\ pc' = pc
    BY WriteBelongs
  <2>2. author'[m] # "unknown"
    BY <2>1 DEF AllKnown
  <2>3. \A n \in written : n \in Notes /\ n # m
    BY <2>1 DEF Inv, Local, TypeOK
  <2>4. AllKnown
    BY <2>1, <2>3 DEF AllKnown
  <2>5. \A n \in written : author[n] \in Profiles => n \in held[Home(author[n], ActiveOf(p))]
    BY <2>4 DEF HomeInv
  <2>6. ASSUME NEW n \in written', author'[n] \in Profiles PROVE n \in held'[Home(author'[n], ActiveOf(p)')]
    <3>1. CASE n = m
      BY <2>1, <2>2, <2>6, <3>1
    <3>2. CASE n # m
      <4>1. n \in written /\ author'[n] = author[n]
        BY <2>1, <2>3, <3>2
      <4> QED BY <1>d, <1>e, <2>1, <2>5, <2>6, <4>1
    <3> QED BY <3>1, <3>2
  <2>7. pc'[p] = "idle"
    BY <2>1, <2>2
  <2> QED BY <2>6, <2>7
<1>2. CASE Swap(p) /\ SwapMove(p)
  <2>1. UNCHANGED <<written, author>>
    BY <1>2, SwapMoves
  <2>2. AllKnown
    BY <2>1 DEF AllKnown
  <2>3. /\ \A n \in written : author[n] \in Profiles => n \in held[Home(author[n], ActiveOf(p))]
        /\ pc[p] \in {"restoreMove", "mkdir"} => "memory" \notin present
    BY <2>2 DEF HomeInv
  <2>4. pc'[p] \in {"restoreMove", "mkdir"} => "memory" \notin present'
    <3>1. pc \in [Procs -> Steps]
      BY DEF Inv, Local, TypeOK
    <3>2. pc'[p] = "restoreMove" => pc[p] = "unstash"
      BY <1>2, <3>1 DEF SwapMove, Moving, MoveOf, Goto
    <3>3. pc'[p] # "mkdir"
      BY <1>2, <3>1 DEF SwapMove, Moving, MoveOf, Goto
    <3> QED BY <1>2, <3>2, <3>3, SwapMoves
  <2> SUFFICES ASSUME NEW n \in written, author[n] \in Profiles
               PROVE  n \in held'[Home(author[n], ActiveOf(p)')]
    BY <2>1, <2>4
  <2>5. n \in held[Home(author[n], ActiveOf(p))]
    BY <2>3
  <2>6. CASE pc[p] = "setAside"
    <3>1. /\ ActiveOf(p)' = ActiveOf(p) /\ ActiveOf(p) = from[p]
          /\ \A d \in DirNames \ {from[p], "aside"} : held'[d] = held[d]
      BY <1>2, <2>6, SwapMoves
    <3>2. from[p] # "memory"
      BY <1>2, <2>6, <1>d, SwapMoves
    <3> QED BY <1>d, <1>e, <2>5, <3>1, <3>2
  <2>7. CASE pc[p] = "stashMove"
    <3>1. /\ ActiveOf(p)' = NoProfile /\ ActiveOf(p) = from[p] /\ held'[from[p]] = held[from[p]] \cup held["memory"]
          /\ \A d \in DirNames \ {from[p], "memory"} : held'[d] = held[d]
      BY <1>2, <2>7, SwapMoves
    <3> QED BY <1>d, <1>e, <2>5, <3>1
  <2>8. CASE pc[p] = "unstash"
    <3>1. /\ ActiveOf(p)' = NoProfile /\ ActiveOf(p) = NoProfile
          /\ \A d \in DirNames \ {"aside", "memory"} : held'[d] = held[d]
      BY <1>2, <2>8, SwapMoves
    <3> QED BY <1>d, <1>e, <2>5, <3>1
  <2>9. CASE pc[p] = "restoreMove"
    <3>1. /\ ActiveOf(p)' = to[p] /\ ActiveOf(p) = NoProfile
          /\ held'["memory"] = IF "memory" \in present THEN held["memory"] ELSE held["memory"] \cup held[to[p]]
          /\ \A d \in DirNames \ {to[p], "memory", "aside"} : held'[d] = held[d]
      BY <1>2, <2>9, SwapMoves
    <3>2. held'["memory"] = held["memory"] \cup held[to[p]]
      BY <2>3, <2>9, <3>1
    <3>3. n \in held[author[n]]
      BY <1>d, <2>5, <3>1
    <3> QED BY <1>d, <1>e, <3>1, <3>2, <3>3
  <2> QED BY <1>2, <2>6, <2>7, <2>8, <2>9 DEF SwapMove, Moving
<1>3. CASE ~(\E m \in Notes : ClaudeWrites(m)) /\ ~(Swap(p) /\ SwapMove(p))
  <2>1. Shift(p) /\ UNCHANGED <<held, written, author>>
    BY <1>3, StepShifts
  <2>2. AllKnown
    BY <2>1 DEF AllKnown
  <2>3. /\ \A n \in written : author[n] \in Profiles => n \in held[Home(author[n], ActiveOf(p))]
        /\ pc[p] \in {"restoreMove", "mkdir"} => "memory" \notin present
    BY <2>2 DEF HomeInv
  <2>4. ASSUME NEW n \in written, author[n] \in Profiles PROVE n \in held[Home(author[n], ActiveOf(p)')]
    BY <1>d, <2>1, <2>3, <2>4 DEF Shift
  <2>5. pc'[p] \in {"restoreMove", "mkdir"} => "memory" \notin present'
    <3>1. [MemoryNext]_swapVars
      BY StepImplements
    <3>2. ~\E n \in Notes : Write(n)
      BY <2>1 DEF Write
    <3> QED BY <2>3, <3>1, <3>2, RestoresIntoNothing
  <2> QED BY <2>1, <2>4, <2>5
<1> QED BY <1>1, <1>2, <1>3

(***************************************************************************)
(* Each profile finds its own memory (docs/memory.md:9): whenever the      *)
(* deploying process is between two deploys, every memory that was written *)
(* between deploys is in memory/ if its profile is the deployed one and in *)
(* its profile's stash otherwise, for any number of profiles, memories and *)
(* deploys, if no system call of a swap fails and no deploy is killed.     *)
(***************************************************************************)
THEOREM ProfilesFindTheirMemory == OneDeploy /\ NoFaults => (DeploySpec => []OwnMemoryReachable)
<1> SUFFICES ASSUME OneDeploy, NoFaults PROVE DeploySpec => []OwnMemoryReachable
  OBVIOUS
<1>0. Alone
  BY DEF OneDeploy
<1> DEFINE Together == DeployInv /\ Inv /\ ArgsInv /\ DirsInv /\ HomeInv
<1>1. DeployInit => Together
  BY DeployInitInv, InitInv, ArgsInit, DirsInit, HomeInit
<1>2. Together /\ [DeployNext]_vars => Together'
  BY <1>0, DeployInvKept, StepImplements, InvKept, ArgsKept, DirsKept, HomeKept
<1>3. ASSUME Together PROVE OwnMemoryReachable
  <2>1. PICK p \in Procs : TRUE
    BY DEF OneDeploy
  <2>2. Quiet => ActiveOf(p) = manifest.profile
    BY DEF Quiet, ActiveOf
  <2> QED BY <1>3, <2>2 DEF HomeInv, AllKnown, Home, HomeOf, OwnMemoryReachable
<1> QED BY <1>1, <1>2, <1>3, PTL DEF DeploySpec
-----------------------------------------------------------------------------
(* The user's originals, for any number of deploys at once                 *)

Covered == Marked \ Merged

\* a file that is not merged holds what the deploy generated or what the user wrote, never both
OneOwner == \A f \in Covered : ~(f \in gen /\ f \in user)

\* every step but those of an emission, a deletion and the user leaves the files alone
LEMMA FilesUntouched ==
  ASSUME NEW p \in Procs,
         \/ Load(p) \/ EndEmit(p) \/ CleanFails(p) \/ CleanSkips(p) \/ EndClean(p) \/ CallSwap(p) \/ Swap(p) \/ SwapReturns(p)
         \/ OpenManifest(p) \/ SaveManifest(p) \/ Abort(p) \/ KilledInSwap(p) \/ KilledInSave(p)
         \/ \E profile \in Profiles \cup {NoProfile} : Start(p, profile)
  PROVE  UNCHANGED fileVars
BY DEF Load, EndEmit, CleanFails, CleanSkips, EndClean, CallSwap, Swap, SwapReturns, OpenManifest, SaveManifest, Abort,
       KilledInSwap, KilledInSave, Start, deployVars, fileVars

\* the steps that touch the files
LEMMA FileSteps ==
  ASSUME [DeployNext]_vars
  PROVE  \/ UNCHANGED fileVars
         \/ \E p \in Procs : Emit(p) \/ Clean(p)
         \/ \E f \in Files : UserWrites(f)
<1>1. CASE UNCHANGED vars \/ \E n \in Notes : ClaudeWrites(n)
  BY <1>1 DEF vars, deployVars, fileVars, ClaudeWrites
<1>2. CASE \E f \in Files : UserWrites(f)
  BY <1>2
<1>3. ASSUME NEW p \in Procs,
             DeployStep(p) \/ Abort(p) \/ KilledInSwap(p) \/ KilledInSave(p)
               \/ \E profile \in Profiles \cup {NoProfile} : Start(p, profile)
      PROVE  UNCHANGED fileVars \/ Emit(p) \/ Clean(p)
  BY <1>3, FilesUntouched DEF DeployStep
<1> QED BY <1>1, <1>2, <1>3 DEF DeployNext

LEMMA OneOwnerKept == OneOwner /\ [DeployNext]_vars => OneOwner'
<1> SUFFICES ASSUME OneOwner, [DeployNext]_vars PROVE OneOwner'
  OBVIOUS
<1>1. ASSUME NEW p \in Procs, Emit(p) PROVE OneOwner'
  BY <1>1 DEF Emit, WriteSafe, OneOwner, Covered
<1>2. ASSUME NEW p \in Procs, Clean(p) PROVE OneOwner'
  BY <1>2 DEF Clean, OneOwner
<1>3. ASSUME NEW f \in Files, UserWrites(f) PROVE OneOwner'
  BY <1>3 DEF UserWrites, OneOwner, Covered
<1>4. CASE UNCHANGED fileVars
  BY <1>4 DEF fileVars, OneOwner
<1> QED BY <1>1, <1>2, <1>3, <1>4, FileSteps

(***************************************************************************)
(* The user's originals can be had back (write_safe's .aictl.bak), for any *)
(* number of deploys of any number of processes, whatever stops them: an   *)
(* emission that replaces a file of the user's has a copy of it, and no    *)
(* step overwrites or removes a copy of a marked file.                     *)
(***************************************************************************)
THEOREM BackupsAreKept == DeploySpec => BackupsKept
<1>1. DeployInit => OneOwner
  BY DEF DeployInit, OneOwner
<1>2. ASSUME OneOwner, OwnTypes, [DeployNext]_vars, NEW f \in Covered
      PROVE  /\ Emission /\ f \in user \ user' => f \in bak'
             /\ f \in bak => f \in bak'
  <2>1. CASE UNCHANGED fileVars
    BY <2>1 DEF fileVars
  <2>2. ASSUME NEW p \in Procs, Emit(p)
        PROVE  (f \in user \ user' => f \in bak') /\ (f \in bak => f \in bak')
    BY <1>2, <2>2 DEF Emit, WriteSafe, OneOwner, Covered
  <2>3. ASSUME NEW p \in Procs, Clean(p), Emission PROVE FALSE
    <3>1. PICK q \in Procs : stage[q] = "emit" /\ todo[q] # todo'[q]
      BY <2>3 DEF Emission
    <3>2. stage[p] = "clean" /\ \E g \in todo[p] : todo' = [todo EXCEPT ![p] = @ \ {g}]
      BY <2>3 DEF Clean
    <3> QED BY <1>2, <3>1, <3>2 DEF OwnTypes
  <2>4. ASSUME NEW p \in Procs, Clean(p) PROVE UNCHANGED bak
    BY <2>4 DEF Clean
  <2>5. ASSUME NEW g \in Files, UserWrites(g) PROVE user \subseteq user' /\ UNCHANGED bak
    BY <2>5 DEF UserWrites
  <2> QED BY <1>2, <2>1, <2>2, <2>3, <2>4, <2>5, FileSteps
<1>3. OneOwner /\ DeployInv /\ [DeployNext]_vars
        => [\A f \in Covered : /\ Emission /\ f \in user \ user' => f \in bak'
                               /\ f \in bak => f \in bak']_vars
  BY <1>2 DEF DeployInv
<1> QED BY <1>1, <1>3, OneOwnerKept, DeployInitInv, InitInv, DeployInvKept, PTL DEF DeploySpec, BackupsKept, Covered
=============================================================================
