------------------------------ MODULE CtxDeploy ------------------------------
(***************************************************************************)
(* `aictl ctx deploy` (src/src/aictl/commands/ctx_pipeline.py,             *)
(* _run_deploy): load the manifest of the previous deploy, write every     *)
(* file the emitters produce for the asked profile, delete the files only  *)
(* the previous manifest lists, swap the profile memory when the profile   *)
(* changed, save the new manifest.  The memory swap is MemorySwap's; here  *)
(* it is called with the profile the loaded manifest names.                *)
(*                                                                         *)
(* A deploy can stop at every step: an emitter raises, the user answers N  *)
(* at a WriteGuard prompt, the process is killed.                          *)
(***************************************************************************)
EXTENDS MemorySwap

CONSTANTS Files,       \* paths the emitters can write
          Marked,      \* written with an AI-CONTEXT marker (wrap_deployed, ignore files)
          Merged,      \* merged into what the user has there (JSON configs, ignore files)
          Outside,     \* resolve to a place outside the project's root
          Output,      \* the files the sources produce for each profile
          MaxDeploys,  \* bound on deploys started
          MaxAborts,   \* bound on deploys stopped before the memory swap and on failing deletes
          MaxKills     \* bound on deploys killed while the manifest is saved

ASSUME FileKinds == /\ Marked \subseteq Files /\ Merged \subseteq Files /\ Outside \subseteq Files
                    /\ Output \in [Profiles \cup {NoProfile} -> SUBSET Files]
ASSUME DeployBounds == MaxDeploys \in Nat /\ MaxAborts \in Nat /\ MaxKills \in Nat

VARIABLES
  gen,       \* files on disk that hold generated content
  user,      \* files on disk that hold content of the user's
  bak,       \* files whose .aictl.bak sibling holds content of the user's
  manifest,  \* .ai-deployed/manifest.json
  stage,     \* where each deploy is
  asked,     \* its profile argument
  base,      \* the manifest it loaded
  todo,      \* files it still has to emit, or to delete
  author,    \* ghost: the profile each memory was written under
  strays,    \* ghost: files on disk that a deploy left behind without recording them
  deploys, aborts, kills  \* what the bounds count

fileVars   == <<gen, user, bak>>
jobVars    == <<asked, base, todo>>
boundVars  == <<deploys, aborts, kills>>
deployVars == <<gen, user, bak, manifest, stage, asked, base, todo, author, strays, deploys, aborts, kills>>
vars       == <<swapVars, deployVars>>

\* load_manifest answers the same for a missing and for a corrupt manifest
NoManifest == [profile |-> NoProfile, files |-> {}]

Stages == {"off", "load", "emit", "clean", "swap", "swapping", "save", "write"}
Quiet == \A p \in Procs : stage[p] = "off"
At(p, s) == stage' = [stage EXCEPT ![p] = s]

DeployInit ==
  /\ MemoryInit
  /\ gen = {} /\ bak = {} /\ strays = {}
  /\ user = {}
  /\ manifest = NoManifest
  /\ stage = [p \in Procs |-> "off"]
  /\ asked = [p \in Procs |-> NoProfile]
  /\ base = [p \in Procs |-> NoManifest]
  /\ todo = [p \in Procs |-> {}]
  /\ author = [n \in Notes |-> NoProfile]
  /\ deploys = 0 /\ aborts = 0 /\ kills = 0

\* the sources were scanned and the profile is one of theirs
Start(p, profile) ==
  /\ stage[p] = "off"
  /\ deploys < MaxDeploys
  /\ deploys' = deploys + 1
  /\ asked' = [asked EXCEPT ![p] = profile]
  /\ At(p, "load")
  /\ UNCHANGED <<swapVars, fileVars, manifest, base, todo, author, strays, aborts, kills>>

Load(p) ==
  /\ stage[p] = "load"
  /\ base' = [base EXCEPT ![p] = manifest]
  /\ todo' = [todo EXCEPT ![p] = Output[asked[p]]]
  /\ At(p, "emit")
  /\ UNCHANGED <<swapVars, fileVars, manifest, asked, author, strays, boundVars>>

(***************************************************************************)
(* write_safe: a file there without a marker is first copied to .aictl.bak *)
(* (over an older copy); then it is replaced, by the merge of old and new  *)
(* for a merged file.                                                      *)
(***************************************************************************)
WriteSafe(f) ==
  /\ bak' = IF f \notin gen \cup user \/ f \in gen \cap Marked THEN bak
            ELSE IF f \in user THEN bak \cup {f} ELSE bak \ {f}
  /\ gen' = gen \cup {f}
  /\ user' = IF f \in Merged THEN user ELSE user \ {f}

Emit(p) ==
  /\ stage[p] = "emit"
  /\ \E f \in todo[p] : WriteSafe(f) /\ todo' = [todo EXCEPT ![p] = @ \ {f}]
  /\ UNCHANGED <<swapVars, manifest, stage, asked, base, author, strays, boundVars>>

\* defect: files still on disk are not taken for stale
EndEmitByDisk(p) ==
  /\ stage[p] = "emit" /\ todo[p] = {}
  /\ todo' = [todo EXCEPT ![p] = base[p].files \ gen]
  /\ At(p, "clean")
  /\ UNCHANGED <<swapVars, fileVars, manifest, asked, base, author, strays, boundVars>>

EndEmit(p) ==
  /\ stage[p] = "emit" /\ todo[p] = {}
  /\ todo' = [todo EXCEPT ![p] = base[p].files \ Output[asked[p]]]
  /\ At(p, "clean")
  /\ UNCHANGED <<swapVars, fileVars, manifest, asked, base, author, strays, boundVars>>

\* cleanup_stale deletes the whole file, whoever wrote what is in it
Clean(p) ==
  /\ stage[p] = "clean"
  /\ \E f \in todo[p] \ Outside :
       /\ gen' = gen \ {f}
       /\ user' = user \ {f}
       /\ todo' = [todo EXCEPT ![p] = @ \ {f}]
  /\ UNCHANGED <<swapVars, bak, manifest, stage, asked, base, author, strays, boundVars>>

\* unlink raises an OSError: swallowed, the file stays
CleanFails(p) ==
  /\ stage[p] = "clean"
  /\ aborts < MaxAborts
  /\ aborts' = aborts + 1
  /\ \E f \in todo[p] \ Outside : /\ todo' = [todo EXCEPT ![p] = @ \ {f}]
                                  /\ strays' = strays \cup {f}
  /\ UNCHANGED <<swapVars, fileVars, manifest, stage, asked, base, author, deploys, kills>>

\* a stale file outside the root is left where it is
CleanSkips(p) ==
  /\ stage[p] = "clean"
  /\ \E f \in todo[p] \cap Outside : /\ todo' = [todo EXCEPT ![p] = @ \ {f}]
                                    /\ strays' = strays \cup (gen \cap {f})
  /\ UNCHANGED <<swapVars, fileVars, manifest, stage, asked, base, author, boundVars>>

\* defect: no swap when the profile is dropped
EndCleanProfileOnly(p) ==
  /\ stage[p] = "clean" /\ todo[p] = {}
  /\ At(p, IF asked[p] \in {NoProfile, base[p].profile} THEN "save" ELSE "swap")
  /\ UNCHANGED <<swapVars, fileVars, manifest, jobVars, author, strays, boundVars>>

\* defect: a swap also when the profile did not change
EndCleanAlwaysSwaps(p) ==
  /\ stage[p] = "clean" /\ todo[p] = {}
  /\ At(p, "swap")
  /\ UNCHANGED <<swapVars, fileVars, manifest, jobVars, author, strays, boundVars>>

EndClean(p) ==
  /\ stage[p] = "clean" /\ todo[p] = {}
  /\ At(p, IF asked[p] = base[p].profile THEN "save" ELSE "swap")
  /\ UNCHANGED <<swapVars, fileVars, manifest, jobVars, author, strays, boundVars>>

CallSwap(p) ==
  /\ stage[p] = "swap"
  /\ Call(p, base[p].profile, asked[p])
  /\ At(p, "swapping")
  /\ UNCHANGED <<fileVars, manifest, jobVars, author, strays, boundVars>>

Swap(p) == SwapStep(p) /\ UNCHANGED deployVars

\* the deploy is over; what it wrote and did not record stays on disk
Leave(p) ==
  /\ At(p, "off")
  /\ asked' = [asked EXCEPT ![p] = NoProfile]
  /\ base' = [base EXCEPT ![p] = NoManifest]
  /\ todo' = [todo EXCEPT ![p] = {}]

Unrecorded(p) ==
  /\ Leave(p)
  /\ strays' = strays \cup (Output[asked[p]] \cap gen)

SwapReturns(p) ==
  /\ stage[p] = "swapping"
  /\ Return(p)
  /\ IF pc[p] = "done" THEN At(p, "save") /\ UNCHANGED <<jobVars, strays>> ELSE Unrecorded(p)
  /\ UNCHANGED <<fileVars, manifest, author, boundVars>>

\* save_manifest: write_text truncates the manifest, then writes it
OpenManifest(p) ==
  /\ stage[p] = "save"
  /\ manifest' = NoManifest
  /\ At(p, "write")
  /\ UNCHANGED <<swapVars, fileVars, jobVars, author, strays, boundVars>>

SaveManifest(p) ==
  /\ stage[p] = "write"
  /\ manifest' = [profile |-> asked[p], files |-> Output[asked[p]]]
  /\ Leave(p)
  /\ strays' = strays \ Output[asked[p]]
  /\ UNCHANGED <<swapVars, fileVars, author, boundVars>>

\* an emitter or a WriteGuard prompt stops the deploy before the memory swap, or it is killed there
Abort(p) ==
  /\ stage[p] \in {"emit", "clean", "swap"}
  /\ aborts < MaxAborts
  /\ aborts' = aborts + 1
  /\ Unrecorded(p)
  /\ UNCHANGED <<swapVars, fileVars, manifest, author, deploys, kills>>

\* defect: the error of the swap is swallowed and the deploy goes on
KilledInSwapGoesOn(p) ==
  /\ stage[p] = "swapping"
  /\ Crash(p)
  /\ UNCHANGED deployVars

KilledInSwap(p) ==
  /\ stage[p] = "swapping"
  /\ Crash(p)
  /\ Unrecorded(p)
  /\ UNCHANGED <<fileVars, manifest, author, boundVars>>

\* killed, or the write fails, between the swap and the end of save_manifest
KilledInSave(p) ==
  /\ stage[p] \in {"save", "write"}
  /\ kills < MaxKills
  /\ kills' = kills + 1
  /\ Unrecorded(p)
  /\ UNCHANGED <<swapVars, fileVars, manifest, author, deploys, aborts>>

-----------------------------------------------------------------------------
\* the user writes a file of their own, or adds to one the tools share
UserWrites(f) ==
  /\ f \notin user
  /\ f \notin gen \/ f \in Merged
  /\ user' = user \cup {f}
  /\ UNCHANGED <<swapVars, gen, bak, manifest, stage, jobVars, author, strays, boundVars>>

\* a memory written while no deploy runs belongs to the deployed profile, one
\* written during a deploy to the profile it leaves or to the one it enters
ClaudeWrites(n) ==
  /\ Write(n)
  /\ author' = [author EXCEPT ![n] = IF Quiet THEN manifest.profile ELSE "unknown"]
  /\ UNCHANGED <<fileVars, manifest, stage, jobVars, strays, boundVars>>

DeployStep(p) ==
  \/ Load(p) \/ Emit(p) \/ EndEmit(p) \/ Clean(p) \/ CleanFails(p) \/ CleanSkips(p) \/ EndClean(p)
  \/ CallSwap(p) \/ Swap(p) \/ SwapReturns(p) \/ OpenManifest(p) \/ SaveManifest(p)

DeployNext ==
  \/ \E p \in Procs : \/ DeployStep(p) \/ Abort(p) \/ KilledInSwap(p) \/ KilledInSave(p)
                      \/ \E profile \in Profiles \cup {NoProfile} : Start(p, profile)
  \/ \E f \in Files : UserWrites(f)
  \/ \E n \in Notes : ClaudeWrites(n)

DeploySpec == DeployInit /\ [][DeployNext]_vars

-----------------------------------------------------------------------------
DeployTypeOK ==
  /\ TypeOK
  /\ gen \subseteq Files /\ user \subseteq Files /\ bak \subseteq Files /\ strays \subseteq Files
  /\ manifest \in [profile : Profiles \cup {NoProfile}, files : SUBSET Files]
  /\ stage \in [Procs -> Stages]
  /\ asked \in [Procs -> Profiles \cup {NoProfile}]
  /\ base \in [Procs -> [profile : Profiles \cup {NoProfile}, files : SUBSET Files]]
  /\ todo \in [Procs -> SUBSET Files]
  /\ \A p \in Procs : stage[p] = "swapping" <=> pc[p] # "idle"
  /\ author \in [Notes -> Profiles \cup {NoProfile, "unknown"}]
  /\ deploys \in 0..MaxDeploys /\ aborts \in 0..MaxAborts /\ kills \in 0..MaxKills

(***************************************************************************)
(* "Memory content is profile-specific: a debug session's memory shouldn't *)
(* leak into a documentation session" (docs/architecture.md:237): when a   *)
(* deploy completes, no memory written under another profile is in         *)
(* memory/, and none is in a stash that is not its profile's.              *)
(***************************************************************************)
MemoryIsolated ==
  [][\A p \in Procs : SaveManifest(p) =>
       \A n \in written : author[n] \in Profiles =>
         /\ n \in held["memory"] => author[n] = asked[p]
         /\ \A q \in Profiles : n \in held[q] => author[n] = q]_vars

(***************************************************************************)
(* "Each profile has its own memory that accumulates independently"        *)
(* (docs/memory.md:9): when no deploy runs, all a profile's memories are   *)
(* in memory/ if it is the deployed one and in its stash otherwise; none   *)
(* was put aside.  It asks that Claude Code wrote only while no deploy     *)
(* ran: a memory/ it creates between is_dir and the move swallows the      *)
(* restored directory (memory.py:252).                                     *)
(***************************************************************************)
HomeOf(q) == IF manifest.profile = q THEN "memory" ELSE q
OwnMemoryReachable ==
  Quiet /\ (\A n \in written : author[n] # "unknown")
    => \A n \in written : author[n] \in Profiles => n \in held[HomeOf(author[n])]

(***************************************************************************)
(* The manifest "tracks every file written during a deployment"            *)
(* (docs/architecture.md:245): when no deploy runs, a generated file is    *)
(* listed, so that a later deploy can clean it up, or is one that a deploy *)
(* which stopped before its end, or did not delete it, left behind.        *)
(***************************************************************************)
GeneratedIsTracked == Quiet => gen \subseteq manifest.files \cup strays

\* a deploy that runs to its end lists only files that are there, also after
\* deploys that stopped half way
SavedIsDeployed == [][\A p \in Procs : SaveManifest(p) => manifest'.files \subseteq gen]_vars

(***************************************************************************)
(* A file of the user's that a marked file replaces can be had back        *)
(* (write_safe's .aictl.bak): emission copies it first, and no later       *)
(* deploy, complete or not, overwrites the copy with generated content.    *)
(***************************************************************************)
Emission == \E p \in Procs : stage[p] = "emit" /\ todo[p] # todo'[p]
BackupsKept == [][\A f \in Marked \ Merged : /\ Emission /\ f \in user \ user' => f \in bak'
                                             /\ f \in bak => f \in bak']_vars

\* the deploy uses the memory only through swap_memory: it implements MemorySwap
SwapProtocol == MemorySpec
=============================================================================
