---------------------------- MODULE FindingsScan ----------------------------
(***************************************************************************)
(* The hidden findings of the board: loadFindings of BoardScreen, which    *)
(* starts a scan of one project and shows its answer unless a later scan   *)
(* has begun, and getContextAudit, which asks again every two seconds as   *)
(* long as the server says that it is scanning.  The server answers with   *)
(* the audit it keeps before it looks for a scan it runs: poll, which      *)
(* AuditCache models beside the other requests.  The other three answers   *)
(* of loadFindings, of the models, the hooks and the telemetry, are shown  *)
(* as they come; one of them stands for all.                               *)
(***************************************************************************)
EXTENDS Naturals

CONSTANTS
    Projects,     \* the values of the Project filter, "all projects" among them
    NoAudit,      \* no audit, no status
    MaxScans,     \* bound: calls of loadFindings
    MaxDisk,      \* bound: changes of the settings on disk
    MaxMishaps    \* bound: requests and scans that fail

ASSUME ScanBounds == MaxScans \in Nat \ {0} /\ MaxDisk \in Nat /\ MaxMishaps \in Nat
ASSUME NoAuditApart == NoAudit \notin Nat /\ NoAudit \notin [to : Projects, at : Nat]

VARIABLES
    project,       \* scanProject: what the Project filter says
    firstProject,  \* what it said when the actions were made, in the first render
    scheduled,     \* the timer of 300 ms
    generation, asked,    \* scanGeneration, and the project that the newest scan asks for
    scans,         \* getContextAudit calls that have not returned
    audit, loading, progress, scanError,    \* settingsRaw
    status, statusCalls,  \* the hook status shown, the calls for it that have not returned
    disk,          \* the settings on disk
    audited, jobs,     \* the server: the audit it keeps of a project, what was on disk when
                       \* the scan it runs of it began,
    failed,            \* and _errors: the projects whose last scan failed, until it is told
    mishaps

pageVars == <<project, firstProject, scheduled, generation, asked>>
shownVars == <<audit, loading, progress, scanError>>
statusVars == <<status, statusCalls>>
serverVars == <<audited, jobs, failed>>
scanVars == <<pageVars, scans, shownVars, statusVars, disk, serverVars, mishaps>>

ScanTypeOK ==
    /\ project \in Projects /\ firstProject \in Projects /\ asked \in Projects
    /\ scheduled \in BOOLEAN /\ loading \in BOOLEAN /\ scanError \in BOOLEAN
    /\ generation \in 0..MaxScans /\ disk \in 0..MaxDisk /\ mishaps \in 0..MaxMishaps
    /\ scans \subseteq [gen : 1..MaxScans, of : Projects, refresh : BOOLEAN]
    /\ audit \in [to : Projects, at : 0..MaxDisk] \cup {NoAudit}
    /\ progress \in Projects \cup {NoAudit}
    /\ status \in 0..MaxDisk \cup {NoAudit} /\ statusCalls \subseteq [call : 1..MaxScans, at : 0..MaxDisk]
    /\ audited \in [Projects -> 0..MaxDisk \cup {NoAudit}]
    /\ jobs \in [Projects -> 0..MaxDisk \cup {NoAudit}] /\ failed \subseteq Projects

\* The board has its data: the first scan is scheduled.
ScanInit ==
    /\ project \in Projects /\ firstProject = project /\ asked = project
    /\ scheduled = TRUE /\ generation = 0 /\ scans = {}
    /\ audit = NoAudit /\ loading = TRUE /\ progress = NoAudit /\ scanError = FALSE
    /\ status = NoAudit /\ statusCalls = {}
    /\ disk = 0 /\ audited = [p \in Projects |-> NoAudit]
    /\ jobs = [p \in Projects |-> NoAudit] /\ failed = {}
    /\ mishaps = 0

\* loadFindings(fresh) of a render whose scanProject is p
LoadFindings(p, fresh) ==
    /\ generation < MaxScans /\ generation' = generation + 1
    /\ asked' = p
    /\ scans' = scans \cup {[gen |-> generation + 1, of |-> p, refresh |-> fresh]}
    /\ loading' = TRUE /\ scanError' = FALSE
    /\ statusCalls' = statusCalls \cup {[call |-> generation + 1, at |-> disk]}
    /\ UNCHANGED <<project, firstProject, audit, progress, status, disk, serverVars, mishaps>>

ChooseProject ==
    /\ project' \in Projects \ {project}
    /\ scheduled' = TRUE
    /\ UNCHANGED <<firstProject, generation, asked, scans, shownVars, statusVars, disk, serverVars, mishaps>>
ScanTimer ==
    /\ scheduled /\ scheduled' = FALSE
    /\ LoadFindings(project, FALSE)
\* rescan, and runCommand when it is done.  The actions are made once, in the first render.
Rescan ==
    /\ LoadFindings(firstProject, TRUE)
    /\ UNCHANGED scheduled

\* put: whatever call it is of, the answer is shown
StatusArrives(c) ==
    /\ statusCalls' = statusCalls \ {c}
    /\ \/ status' = c.at /\ UNCHANGED mishaps
       \/ mishaps < MaxMishaps /\ mishaps' = mishaps + 1 /\ status' = NoAudit
    /\ UNCHANGED <<pageVars, scans, shownVars, disk, serverVars>>

-----------------------------------------------------------------------------
(* getContextAudit and /api/context-audit                                  *)

\* defect: the callbacks of a scan do not ask whether a later one has begun
EveryScan(s) == TRUE
Newest(s) == s.gen = generation

\* A request that finds no audit, or asks for another: the server has a scan running, or starts one.
Scanning(s) ==
    /\ s.refresh \/ audited[s.of] = NoAudit
    /\ \/ jobs[s.of] # NoAudit /\ UNCHANGED <<jobs, failed>>
       \/ /\ jobs[s.of] = NoAudit /\ (s.refresh \/ s.of \notin failed)
          /\ jobs' = [jobs EXCEPT ![s.of] = disk]
          /\ failed' = failed \ {s.of}
    /\ scans' = (scans \ {s}) \cup {[s EXCEPT !.refresh = FALSE]}
    /\ progress' = IF Newest(s) THEN s.of ELSE progress
    /\ UNCHANGED <<pageVars, audit, loading, scanError, statusVars, disk, audited, mishaps>>
\* A request: the server has an audit, also while it scans again
Returns(s) ==
    /\ ~s.refresh /\ audited[s.of] # NoAudit
    /\ scans' = scans \ {s}
    /\ IF Newest(s)
       THEN /\ audit' = [to |-> s.of, at |-> audited[s.of]]
            /\ progress' = NoAudit /\ loading' = FALSE
       ELSE UNCHANGED <<audit, progress, loading>>
    /\ UNCHANGED <<pageVars, scanError, statusVars, disk, serverVars, mishaps>>

ShowsError(s) ==
    /\ scans' = scans \ {s}
    /\ IF Newest(s)
       THEN audit' = NoAudit /\ progress' = NoAudit /\ loading' = FALSE /\ scanError' = TRUE
       ELSE UNCHANGED shownVars
    /\ UNCHANGED <<pageVars, statusVars, disk>>
\* A request fails, or the scan takes longer than maxMs.
ScanFails(s) ==
    /\ mishaps < MaxMishaps /\ mishaps' = mishaps + 1
    /\ ShowsError(s) /\ UNCHANGED serverVars
\* A request: the last scan failed, which is told once
ErrorTold(s) ==
    /\ ~s.refresh /\ audited[s.of] = NoAudit /\ jobs[s.of] = NoAudit /\ s.of \in failed
    /\ failed' = failed \ {s.of}
    /\ ShowsError(s) /\ UNCHANGED <<audited, jobs, mishaps>>

\* The server's own thread ends a scan: it has read the disk while it ran.
Scanned(p) ==
    /\ jobs[p] # NoAudit /\ jobs' = [jobs EXCEPT ![p] = NoAudit]
    /\ \E at \in jobs[p]..disk : audited' = [audited EXCEPT ![p] = at]
    /\ UNCHANGED <<pageVars, scans, shownVars, statusVars, disk, failed, mishaps>>
ScanRaises(p) ==
    /\ jobs[p] # NoAudit /\ jobs' = [jobs EXCEPT ![p] = NoAudit]
    /\ mishaps < MaxMishaps /\ mishaps' = mishaps + 1
    /\ failed' = failed \cup {p}
    /\ UNCHANGED <<pageVars, scans, shownVars, statusVars, disk, audited>>
\* The audit kept of a project is five minutes old, or makes room for another.
Expires(p) ==
    /\ audited[p] # NoAudit /\ audited' = [audited EXCEPT ![p] = NoAudit]
    /\ UNCHANGED <<pageVars, scans, shownVars, statusVars, disk, jobs, failed, mishaps>>
DiskChanges ==
    /\ disk < MaxDisk /\ disk' = disk + 1
    /\ UNCHANGED <<pageVars, scans, shownVars, statusVars, serverVars, mishaps>>

ScanNext ==
    \/ ChooseProject \/ ScanTimer \/ Rescan \/ DiskChanges
    \/ \E c \in statusCalls : StatusArrives(c)
    \/ \E s \in scans : Scanning(s) \/ Returns(s) \/ ScanFails(s) \/ ErrorTold(s)
    \/ \E p \in Projects : Scanned(p) \/ ScanRaises(p) \/ Expires(p)

ScanSpec == ScanInit /\ [][ScanNext]_scanVars

-----------------------------------------------------------------------------
\* The findings shown are of the newest scan, whatever scans are on their way: a later scan
\* replaces an answer still on its way.
FindingsView == INSTANCE LatestAnswer
    WITH Questions <- Projects, Nothing <- NoAudit, version <- disk, question <- asked, shown <- audit
FindingsFollow == FindingsView!Spec
=============================================================================
