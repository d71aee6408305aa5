----------------------------- MODULE MemorySwap -----------------------------
(***************************************************************************)
(* The profile memory of aictl (src/src/aictl/memory.py): swap_memory      *)
(* renames Claude Code's directory memory/ to memory--<old> and            *)
(* memory--<new> to memory/, under a non-blocking file lock and a marker   *)
(* file; recover_swap, which every swap runs first and WITHOUT the lock,   *)
(* finishes a swap whose marker was left behind.  One action per file      *)
(* system call or directory test, so that another aictl process, Claude    *)
(* Code writing a memory, an OSError or a crash can come between any two.  *)
(*                                                                         *)
(* Who asks for a swap, and with which profiles, is left to the caller:    *)
(* CtxDeploy composes this module with the deploy pipeline.                *)
(***************************************************************************)
EXTENDS Naturals

CONSTANTS Profiles,    \* profile names
          NoProfile,   \* deploy without a profile (Python's None)
          Procs,       \* aictl processes (or watch threads) on one project
          NoProc,      \* the swap lock is free
          Notes,       \* memories Claude Code may write
          MaxCrashes,  \* bound on processes dying inside a swap
          MaxFailures  \* bound on system calls that fail with an OSError

ASSUME NamesApart == /\ {"memory", "aside", "none", "torn", "unknown"} \cap (Profiles \cup {NoProfile}) = {}
                     /\ NoProfile \notin Profiles
                     /\ NoProc \notin Procs
ASSUME FaultBounds == MaxCrashes \in Nat /\ MaxFailures \in Nat

VARIABLES
  present,   \* the directories that exist
  held,      \* the memories inside each directory
  marker,    \* ".aictl-swap-in-progress": "none", "torn" (half written) or the target profile
  holder,    \* the process holding ".aictl-swap.lock"
  pc,        \* where each process is in recover_swap / swap_memory
  from, to,  \* arguments old_profile and new_profile of the running call
  plan,      \* the target profile recover_swap read from the marker
  written,   \* ghost: every memory Claude Code has written
  crashes,   \* processes that died inside a swap so far
  failures   \* system calls that failed so far

dirVars  == <<present, held>>
callVars == <<from, to, plan>>
faults   == <<crashes, failures>>
swapVars == <<present, held, marker, holder, pc, from, to, plan, written, crashes, failures>>

(***************************************************************************)
(* "memory" is the active directory, a profile p stands for memory--p, and *)
(* "aside" for every directory no swap reads by name: memory--p.bak.<ts>,  *)
(* memory--_unstashed.<ts> and a directory nested in another by a move     *)
(* onto an existing one.                                                   *)
(***************************************************************************)
DirNames == {"memory", "aside"} \cup Profiles

InRecovery == {"recover", "recoverCheck", "recoverLook", "recoverMove", "recoverUnlink"}
UnderLock  == {"mark", "record", "stash", "stashLook", "setAside", "stashMove", "restore",
               "replace", "fresh", "unstash", "restoreMove", "mkdir", "unmark", "release"}
Steps == {"idle", "lock", "done", "raised"} \cup InRecovery \cup UnderLock

\* swap_memory runs in p
Running(p) == pc[p] \in InRecovery \cup UnderLock \cup {"lock"}

MemoryInit ==
  /\ \E old \in SUBSET Notes :
       /\ written = old
       /\ held = [d \in DirNames |-> IF d = "memory" THEN old ELSE {}]
       /\ present \in {{"aside"}, {"aside", "memory"}}
       /\ old # {} => "memory" \in present
  /\ marker = "none"
  /\ holder = NoProc
  /\ pc = [p \in Procs |-> "idle"]
  /\ from = [p \in Procs |-> NoProfile]
  /\ to = [p \in Procs |-> NoProfile]
  /\ plan = [p \in Procs |-> NoProfile]
  /\ crashes = 0
  /\ failures = 0

Goto(p, step) == pc' = [pc EXCEPT ![p] = step]

\* defect: a move that replaces the destination
MoveReplacing(src, dst) ==
  /\ present' = (present \ {src}) \cup {dst}
  /\ held' = [held EXCEPT ![src] = {}, ![dst] = held[src]]

(***************************************************************************)
(* shutil.move of a directory: a rename, or a move INTO the destination    *)
(* when that already is a directory.                                       *)
(***************************************************************************)
Move(src, dst) ==
  LET into == IF dst \in present THEN "aside" ELSE dst
  IN  /\ present' = (present \ {src}) \cup {into}
      /\ held' = [held EXCEPT ![src] = {}, ![into] = @ \cup held[src]]

FailOnce == failures < MaxFailures /\ failures' = failures + 1

-----------------------------------------------------------------------------
(* recover_swap *)

Call(p, old, new) ==
  /\ pc[p] = "idle"
  /\ Goto(p, "recover")
  /\ from' = [from EXCEPT ![p] = old]
  /\ to' = [to EXCEPT ![p] = new]
  /\ UNCHANGED <<dirVars, marker, holder, plan, written, faults>>

ReadMarker(p) ==
  /\ pc[p] = "recover"
  /\ Goto(p, CASE marker = "none" -> "lock"
               [] marker = "torn" -> "recoverUnlink"
               [] OTHER           -> "recoverCheck")
  /\ plan' = [plan EXCEPT ![p] = IF marker \in {"none", "torn"} THEN NoProfile ELSE marker]
  /\ UNCHANGED <<dirVars, marker, holder, from, to, written, faults>>

\* defect: recovery only removes the marker
RecoverCheckSkips(p) ==
  /\ pc[p] = "recoverCheck"
  /\ Goto(p, "recoverUnlink")
  /\ UNCHANGED <<dirVars, marker, holder, callVars, written, faults>>

RecoverCheck(p) ==
  /\ pc[p] = "recoverCheck"
  /\ Goto(p, IF plan[p] \in present THEN "recoverLook" ELSE "recoverUnlink")
  /\ UNCHANGED <<dirVars, marker, holder, callVars, written, faults>>

RecoverLook(p) ==
  /\ pc[p] = "recoverLook"
  /\ Goto(p, IF "memory" \in present THEN "recoverUnlink" ELSE "recoverMove")
  /\ UNCHANGED <<dirVars, marker, holder, callVars, written, faults>>

RecoverMove(p) ==
  /\ pc[p] = "recoverMove"
  /\ plan[p] \in present
  /\ Move(plan[p], "memory")
  /\ Goto(p, "recoverUnlink")
  /\ UNCHANGED <<marker, holder, callVars, written, faults>>

\* the move fails (always when the source is gone): logged, and recovery goes on
RecoverMoveFails(p) ==
  /\ pc[p] = "recoverMove"
  /\ \/ plan[p] \notin present /\ UNCHANGED failures
     \/ FailOnce
  /\ Goto(p, "recoverUnlink")
  /\ UNCHANGED <<dirVars, marker, holder, callVars, written, crashes>>

RecoverUnlink(p) ==
  /\ pc[p] = "recoverUnlink"
  /\ marker' = "none"
  /\ Goto(p, "lock")
  /\ UNCHANGED <<dirVars, holder, callVars, written, faults>>

-----------------------------------------------------------------------------
(* swap_memory under the lock *)

\* defect: the lock is taken whoever holds it
LockShared(p) ==
  /\ pc[p] = "lock"
  /\ holder' = p
  /\ Goto(p, "mark")
  /\ UNCHANGED <<dirVars, marker, callVars, written, faults>>

Lock(p) ==
  /\ pc[p] = "lock"
  /\ IF holder = NoProc
       THEN holder' = p /\ Goto(p, "mark")
       ELSE Goto(p, "raised") /\ UNCHANGED holder
  /\ UNCHANGED <<dirVars, marker, callVars, written, faults>>

\* write_text truncates the marker and then writes it: two steps
OpenMarker(p) ==
  /\ pc[p] = "mark"
  /\ marker' = "torn"
  /\ Goto(p, "record")
  /\ UNCHANGED <<dirVars, holder, callVars, written, faults>>

WriteMarker(p) ==
  /\ pc[p] = "record"
  /\ marker' = to[p]
  /\ Goto(p, "stash")
  /\ UNCHANGED <<dirVars, holder, callVars, written, faults>>

\* defect: without the test of old_profile, memory/ goes to "memory--None"
StashCheckNoProfile(p) ==
  /\ pc[p] = "stash"
  /\ Goto(p, IF "memory" \notin present THEN "restore" ELSE "stashLook")
  /\ UNCHANGED <<dirVars, marker, holder, callVars, written, faults>>

StashCheck(p) ==
  /\ pc[p] = "stash"
  /\ Goto(p, IF from[p] = NoProfile \/ "memory" \notin present THEN "restore" ELSE "stashLook")
  /\ UNCHANGED <<dirVars, marker, holder, callVars, written, faults>>

StashLook(p) ==
  /\ pc[p] = "stashLook"
  /\ Goto(p, IF from[p] \in present THEN "setAside" ELSE "stashMove")
  /\ UNCHANGED <<dirVars, marker, holder, callVars, written, faults>>

\* the moves of swap_memory: source, destination and the step that follows
MoveOf(p) ==
  CASE pc[p] = "setAside"    -> [src |-> from[p],  dst |-> "aside",  next |-> "stashMove"]
    [] pc[p] = "stashMove"   -> [src |-> "memory", dst |-> from[p],  next |-> "restore"]
    [] pc[p] = "unstash"     -> [src |-> "memory", dst |-> "aside",  next |-> "restoreMove"]
    [] pc[p] = "restoreMove" -> [src |-> to[p],    dst |-> "memory", next |-> "unmark"]

Moving == {"setAside", "stashMove", "unstash", "restoreMove"}

SwapMove(p) ==
  /\ pc[p] \in Moving
  /\ MoveOf(p).src \in present
  /\ Move(MoveOf(p).src, MoveOf(p).dst)
  /\ Goto(p, MoveOf(p).next)
  /\ UNCHANGED <<marker, holder, callVars, written, faults>>

\* defect: the new profile always starts afresh
RestoreCheckFresh(p) ==
  /\ pc[p] = "restore"
  /\ Goto(p, IF to[p] = NoProfile THEN "unmark" ELSE "fresh")
  /\ UNCHANGED <<dirVars, marker, holder, callVars, written, faults>>

RestoreCheck(p) ==
  /\ pc[p] = "restore"
  /\ Goto(p, IF to[p] = NoProfile THEN "unmark" ELSE IF to[p] \in present THEN "replace" ELSE "fresh")
  /\ UNCHANGED <<dirVars, marker, holder, callVars, written, faults>>

RestoreLook(p) ==
  /\ \/ pc[p] = "replace" /\ Goto(p, IF "memory" \in present THEN "unstash" ELSE "restoreMove")
     \/ pc[p] = "fresh" /\ Goto(p, IF "memory" \in present THEN "unmark" ELSE "mkdir")
  /\ UNCHANGED <<dirVars, marker, holder, callVars, written, faults>>

MakeMemory(p) ==
  /\ pc[p] = "mkdir"
  /\ "memory" \notin present
  /\ present' = present \cup {"memory"}
  /\ Goto(p, "unmark")
  /\ UNCHANGED <<held, marker, holder, callVars, written, faults>>

RemoveMarker(p) ==
  /\ pc[p] = "unmark"
  /\ marker' = "none"
  /\ Goto(p, "release")
  /\ UNCHANGED <<dirVars, holder, callVars, written, faults>>

Release(p) ==
  /\ pc[p] = "release"
  /\ holder' = NoProc
  /\ Goto(p, "done")
  /\ UNCHANGED <<dirVars, marker, callVars, written, faults>>

\* a call under the lock raises: its own precondition is gone, or the system
\* call fails; the context manager unlocks and the marker stays
SwapFails(p) ==
  /\ pc[p] \in UnderLock \ {"release"}
  /\ \/ /\ \/ pc[p] \in Moving /\ MoveOf(p).src \notin present
           \/ pc[p] = "mkdir" /\ "memory" \in present
        /\ UNCHANGED failures
     \/ FailOnce
  /\ holder' = NoProc
  /\ Goto(p, "raised")
  /\ UNCHANGED <<dirVars, marker, callVars, written, crashes>>

-----------------------------------------------------------------------------
\* the call's arguments and locals are gone
Forget(p) ==
  /\ from' = [from EXCEPT ![p] = NoProfile]
  /\ to' = [to EXCEPT ![p] = NoProfile]
  /\ plan' = [plan EXCEPT ![p] = NoProfile]

\* the caller gets the result back
Return(p) ==
  /\ pc[p] \in {"done", "raised"}
  /\ Goto(p, "idle")
  /\ Forget(p)
  /\ UNCHANGED <<dirVars, marker, holder, written, faults>>

\* the process dies; the operating system drops its file lock
Crash(p) ==
  /\ Running(p)
  /\ crashes < MaxCrashes
  /\ crashes' = crashes + 1
  /\ Goto(p, "idle")
  /\ Forget(p)
  /\ holder' = IF holder = p THEN NoProc ELSE holder
  /\ UNCHANGED <<dirVars, marker, written, failures>>

\* Claude Code writes a memory, creating memory/ when it is absent
Write(n) ==
  /\ n \notin written
  /\ written' = written \cup {n}
  /\ present' = present \cup {"memory"}
  /\ held' = [held EXCEPT !["memory"] = @ \cup {n}]
  /\ UNCHANGED <<marker, holder, pc, callVars, faults>>

SwapStep(p) ==
  \/ ReadMarker(p) \/ RecoverCheck(p) \/ RecoverLook(p) \/ RecoverMove(p) \/ RecoverMoveFails(p)
  \/ RecoverUnlink(p) \/ Lock(p) \/ OpenMarker(p) \/ WriteMarker(p) \/ StashCheck(p) \/ StashLook(p)
  \/ SwapMove(p) \/ RestoreCheck(p) \/ RestoreLook(p) \/ MakeMemory(p) \/ RemoveMarker(p) \/ Release(p) \/ SwapFails(p)

MemoryNext ==
  \/ \E p \in Procs : \/ SwapStep(p) \/ Return(p) \/ Crash(p)
                      \/ \E old, new \in Profiles \cup {NoProfile} : old # new /\ Call(p, old, new)
  \/ \E n \in Notes : Write(n)

MemorySpec == MemoryInit /\ [][MemoryNext]_swapVars

-----------------------------------------------------------------------------
TypeOK ==
  /\ present \subseteq DirNames /\ "aside" \in present
  /\ held \in [DirNames -> SUBSET Notes]
  /\ marker \in {"none", "torn", NoProfile} \cup Profiles
  /\ holder \in Procs \cup {NoProc}
  /\ pc \in [Procs -> Steps]
  /\ from \in [Procs -> Profiles \cup {NoProfile}]
  /\ to \in [Procs -> Profiles \cup {NoProfile}]
  /\ plan \in [Procs -> Profiles \cup {NoProfile}]
  /\ written \subseteq Notes
  /\ crashes \in 0..MaxCrashes
  /\ failures \in 0..MaxFailures

(***************************************************************************)
(* "Never deletes memory content, only renames directories"                *)
(* (docs/memory.md:35): whatever races with whatever, and wherever a       *)
(* process dies, every memory written so far is in exactly one directory   *)
(* that exists.                                                            *)
(***************************************************************************)
NothingLost == \A n \in Notes : n \in written <=> \E d \in present : n \in held[d]
KeptOnce == \A d, e \in DirNames : d # e => held[d] \cap held[e] = {}
MemoryKept == NothingLost /\ KeptOnce

(***************************************************************************)
(* The lock of swap_memory: two processes never rename directories under   *)
(* it at once, and a process that raised or died does not keep it.         *)
(***************************************************************************)
OneSwapper == \A p \in Procs : holder = p <=> pc[p] \in UnderLock

(***************************************************************************)
(* swap_memory "writes a WAL marker before any renames so an incomplete    *)
(* swap can be detected and recovered" (memory.py:218): from the first     *)
(* rename until the swap is complete the marker names the swap's target.   *)
(* It is so while one process swaps; recovery runs before the lock is      *)
(* taken and can remove the marker of another process's swap.              *)
(***************************************************************************)
Renaming == UnderLock \ {"mark", "record", "release"}
MarkerCoversSwap == \A p \in Procs : pc[p] \in Renaming => marker = to[p]

\* A swap that fails or dies among its renames leaves the marker that names its
\* target (test_memory.py:99, "a crash mid-swap must LEAVE the WAL marker")
InterruptionMarked ==
  [][\A p \in Procs : pc[p] \in Renaming /\ pc'[p] \in {"idle", "raised"} => marker' = to[p]]_swapVars

(***************************************************************************)
(* Recovery finishes what the marker says before the next swap starts:     *)
(* unless the rename itself failed, the target's directory is not left     *)
(* stashed beside an absent memory/.                                       *)
(***************************************************************************)
RecoveryRestores ==
  [][\A p \in Procs : pc[p] \in InRecovery /\ pc'[p] = "lock" /\ failures = 0
                        => "memory" \in present' \/ plan[p] \notin present']_swapVars
=============================================================================
