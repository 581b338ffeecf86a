----------------------------- MODULE UpdateFlow -----------------------------
(***************************************************************************)
(* The self-update: checks on worker threads, the update dialog over       *)
(* whatever is on screen, one download and replacement job, and the        *)
(* relaunch (handlers/update.rs and update/ of crates/gashuu, update/ of   *)
(* crates/gashuu-core).  A version is a number; an artifact on disk is the *)
(* version it came from and whether all of it is there.                    *)
(***************************************************************************)
EXTENDS Surfaces, Integers

CONSTANTS
  MaxVersion,           \* bound on published versions; version 1 is installed first
  Strategies,           \* UpdateStrategy of the packaging
  OverlappingChecks,    \* whether a check may start while another is under way
  MaxChecks             \* bound on checks per run of the program

ASSUME VersionAssumption == MaxVersion \in Nat \ {0}
ASSUME ChecksAssumption == MaxChecks \in Nat /\ OverlappingChecks \in BOOLEAN

VARIABLES
  published,    \* the latest release
  strategy,
  settings,     \* auto_update_check, whether 24 h have passed, skipped_version
  files,        \* the installed binary, the download, the staged sibling
  current,      \* CURRENT_VERSION of the running process
  checks,       \* background checks: their captures and what they have fetched
  latest,       \* LATEST, the release the dialog's handlers act on
  inProgress,   \* update_in_progress
  jobs,         \* background jobs: version and progress
  restarting    \* the single-shot relaunch timer is armed

updateVars == <<published, strategy, settings, files, current, checks, latest,
                inProgress, jobs, restarting>>
vars == <<surfaceVars, updateVars>>

None == 0
Versions == 1 .. MaxVersion
Artifacts == [version : Versions \cup {None}, whole : BOOLEAN]
NoFile == [version |-> None, whole |-> FALSE]
Slots == 1 .. MaxChecks

NoCheck == [forced |-> FALSE, skipped |-> None, stage |-> "none", found |-> None]
NoJob == [version |-> None, stage |-> "none"]

TypeOK ==
  /\ SurfaceTypeOK
  /\ published \in Versions /\ current \in Versions
  /\ strategy \in Strategies
  /\ settings \in [auto : BOOLEAN, due : BOOLEAN, skipped : Versions \cup {None}]
  /\ files \in [installed : Artifacts, download : Artifacts, staged : Artifacts]
  /\ checks \in [Slots -> [forced : BOOLEAN, skipped : Versions \cup {None},
                           stage : {"none", "fetching", "posted", "done"},
                           found : Versions \cup {None}]]
  /\ latest \in Versions \cup {None}
  /\ inProgress \in BOOLEAN /\ restarting \in BOOLEAN
  /\ jobs \in [1 .. 2 -> [version : Versions \cup {None},
                          stage : {"none", "fetching", "saving", "saved", "staging",
                                   "staged", "succeeded", "failed"}]]

Active(c) == checks[c].stage \in {"fetching", "posted"}
Busy(j) == jobs[j].stage # "none"

\* should_notify, with is_update_available.
should_notify(cur, found, skipped) == found > cur /\ found # skipped

-----------------------------------------------------------------------------
(* Checks. *)

\* start_update_check: the attempt is recorded first; only a forced check
\* ignores the switch, the 24 hours and the skipped version.
Check(c, forced) ==
  /\ checks[c].stage = "none"
  /\ OverlappingChecks \/ \A d \in Slots : ~Active(d)
  /\ forced \/ (settings.auto /\ settings.due)
  /\ settings' = [settings EXCEPT !.due = FALSE]
  /\ checks' = [checks EXCEPT ![c] =
       [forced |-> forced, skipped |-> IF forced THEN None ELSE settings.skipped,
        stage |-> "fetching", found |-> None]]
  /\ UNCHANGED <<published, strategy, files, current, latest, inProgress, jobs,
                 restarting, surfaceVars>>

\* main calls it once when the window comes up.
StartupCheck ==
  /\ \A d \in Slots : checks[d].stage = "none"
  /\ Check(1, FALSE)

CheckNow == Using("settings") /\ \E c \in Slots : Check(c, TRUE)

\* fetch_latest_release_json and parse_latest_release: an answer, an error or a timeout.
Fetch(c) ==
  /\ checks[c].stage = "fetching"
  /\ \E found \in {published, None} :
       checks' = [checks EXCEPT ![c].stage = "posted", ![c].found = found]
  /\ UNCHANGED <<published, strategy, settings, files, current, latest, inProgress,
                 jobs, restarting, surfaceVars>>

\* A plausible slip: the skipped version is not passed to the decision.
Notifies_IgnoringSkip(check) == should_notify(current, check.found, None)

Notifies(check) == should_notify(current, check.found, check.skipped)

\* The dialog takes the focus when it appears, not when it is there already.
DeliverCheck(c) ==
  /\ checks[c].stage = "posted"
  /\ checks' = [checks EXCEPT ![c].stage = "done"]
  /\ IF Notifies(checks[c])
       THEN /\ latest' = checks[c].found
            /\ inProgress' = FALSE
            /\ Shown("update")
            /\ focus' = IF "update" \in modals THEN focus ELSE "update"
       ELSE UNCHANGED <<latest, inProgress, modals, focus>>
  /\ UNCHANGED <<published, strategy, settings, files, current, jobs, restarting,
                 screen, landing, bookOpen>>

-----------------------------------------------------------------------------
(* The dialog. *)

\* Esc, Return, a backdrop click and all buttons but Notes: blocked by
\* is_action_allowed, and by the dialog itself, while a job is in progress.
Decides == Using("update") /\ ~inProgress

Dismissed ==
  /\ Hidden("update")
  /\ focus' = focus_target_after_dialog(modals', screen)

Later ==
  /\ Decides /\ Dismissed
  /\ UNCHANGED <<updateVars, screen, landing, bookOpen>>

Skip ==
  /\ Decides /\ Dismissed
  /\ settings' = [settings EXCEPT !.skipped = latest]
  /\ UNCHANGED <<published, strategy, files, current, checks, latest, inProgress,
                 jobs, restarting, screen, landing, bookOpen>>

\* An external install opens the browser and dismisses the dialog.
AcceptExternal ==
  /\ Decides /\ strategy = "ExternalInstall" /\ Dismissed
  /\ UNCHANGED <<updateVars, screen, landing, bookOpen>>

\* reveal_download and self_replace_update: the dialog is committed.
Accept ==
  /\ Decides /\ strategy # "ExternalInstall"
  /\ inProgress' = TRUE
  /\ \E j \in DOMAIN jobs :
       /\ ~Busy(j)
       /\ jobs' = [jobs EXCEPT ![j] = [version |-> latest, stage |-> "fetching"]]
  /\ UNCHANGED <<published, strategy, settings, files, current, checks, latest,
                 restarting, surfaceVars>>

\* The switch is saved at once; notes opens a page and changes nothing.
SetAutoUpdateCheck ==
  /\ Using("settings")
  /\ settings' = [settings EXCEPT !.auto = ~@]
  /\ UNCHANGED <<published, strategy, files, current, checks, latest, inProgress,
                 jobs, restarting, surfaceVars>>

-----------------------------------------------------------------------------
(* A job, on a worker thread. *)

JobStep(j, from, to) ==
  /\ jobs[j].stage = from
  /\ jobs' = [jobs EXCEPT ![j].stage = to]
  /\ UNCHANGED <<published, strategy, settings, current, checks, latest, inProgress,
                 restarting, surfaceVars>>

Holding(j, whole) == [version |-> jobs[j].version, whole |-> whole]

\* A plausible slip: what arrived is saved, whatever its checksum.
Accepted_Unverified(j) == {Holding(j, TRUE), Holding(j, FALSE)}

\* is_verified: of all the bytes that may arrive, only the whole artifact passes.
Accepted(j) == {Holding(j, TRUE)}

\* download_and_verify; fs::write is not atomic, the name shows a part meanwhile.
Download(j) ==
  /\ JobStep(j, "fetching", "saving")
  /\ files' = [files EXCEPT !.download = Holding(j, FALSE)]

Save(j) ==
  /\ JobStep(j, "saving", IF strategy = "SelfReplace" THEN "saved" ELSE "succeeded")
  /\ \E artifact \in Accepted(j) : files' = [files EXCEPT !.download = artifact]

\* apply_appimage: a copy beside the target, then a rename over it.
StageCopy(j) ==
  /\ JobStep(j, "saved", "staging")
  /\ files' = [files EXCEPT !.staged = Holding(j, FALSE)]

StageWhole(j) ==
  /\ JobStep(j, "staging", "staged")
  /\ files' = [files EXCEPT !.staged = files.download]

Rename(j) ==
  /\ JobStep(j, "staged", "succeeded")
  /\ files' = [files EXCEPT !.installed = files.staged, !.staged = NoFile]

\* No asset, a timeout, a checksum that does not match, a full disk.
JobFails(j) ==
  /\ jobs[j].stage \in {"fetching", "saving", "saved", "staging", "staged"}
  /\ JobStep(j, jobs[j].stage, "failed")
  /\ UNCHANGED files

\* A plausible slip: the failure is reported and the dialog stays committed.
DeliverFailure_StaysBusy(j) ==
  /\ jobs[j].stage = "failed"
  /\ jobs' = [jobs EXCEPT ![j] = NoJob]
  /\ UNCHANGED <<published, strategy, settings, files, current, checks, latest,
                 inProgress, restarting, surfaceVars>>

\* report_failure_and_open_release: the dialog stays, for another try or later.
DeliverFailure(j) ==
  /\ jobs[j].stage = "failed"
  /\ jobs' = [jobs EXCEPT ![j] = NoJob]
  /\ inProgress' = FALSE
  /\ UNCHANGED <<published, strategy, settings, files, current, checks, latest,
                 restarting, surfaceVars>>

\* A plausible slip: the busy flag falls when the restart is only announced.
DeliverSuccess_Released(j) ==
  /\ jobs[j].stage = "succeeded"
  /\ jobs' = [jobs EXCEPT ![j] = NoJob]
  /\ inProgress' = FALSE
  /\ IF strategy = "SelfReplace"
       THEN restarting' = TRUE /\ UNCHANGED <<modals, focus>>
       ELSE Dismissed /\ UNCHANGED restarting
  /\ UNCHANGED <<published, strategy, settings, files, current, checks, latest,
                 screen, landing, bookOpen>>

\* Revealed for a manual install, or replaced: then the relaunch timer is armed
\* and the dialog stays committed until the process ends.
DeliverSuccess(j) ==
  /\ jobs[j].stage = "succeeded"
  /\ jobs' = [jobs EXCEPT ![j] = NoJob]
  /\ IF strategy = "SelfReplace"
       THEN restarting' = TRUE /\ UNCHANGED <<inProgress, modals, focus>>
       ELSE inProgress' = FALSE /\ Dismissed /\ UNCHANGED restarting
  /\ UNCHANGED <<published, strategy, settings, files, current, checks, latest,
                 screen, landing, bookOpen>>

-----------------------------------------------------------------------------
(* The process and the outside. *)

\* A new process: workers, dialogs and timers are gone, files and settings stay.
Boot ==
  /\ screen' = "library" /\ modals' = {} /\ focus' = "carousel"
  /\ landing' = {} /\ bookOpen' = FALSE
  /\ current' = files.installed.version
  /\ checks' = [c \in Slots |-> NoCheck]
  /\ latest' = None /\ inProgress' = FALSE /\ restarting' = FALSE
  /\ jobs' = [j \in DOMAIN jobs |-> NoJob]
  /\ UNCHANGED <<published, strategy, settings, files>>

\* relaunch_and_exit: persist, spawn the replaced executable, exit.
Relaunch == restarting /\ Boot

\* The window is closed, or the process killed, at any step of a job.
QuitAndStart == Boot

DayPasses ==
  /\ ~settings.due
  /\ settings' = [settings EXCEPT !.due = TRUE]
  /\ UNCHANGED <<published, strategy, files, current, checks, latest, inProgress,
                 jobs, restarting, surfaceVars>>

Publish ==
  /\ published < MaxVersion
  /\ published' = published + 1
  /\ UNCHANGED <<strategy, settings, files, current, checks, latest, inProgress,
                 jobs, restarting, surfaceVars>>

Init ==
  /\ SurfaceInit
  /\ published = 1 /\ current = 1
  /\ strategy \in Strategies
  /\ settings = [auto |-> TRUE, due |-> TRUE, skipped |-> None]
  /\ files = [installed |-> [version |-> 1, whole |-> TRUE],
              download |-> NoFile, staged |-> NoFile]
  /\ checks = [c \in Slots |-> NoCheck]
  /\ latest = None /\ inProgress = FALSE /\ restarting = FALSE
  /\ jobs = [j \in 1 .. 2 |-> NoJob]

Worker(j) ==
  \/ Download(j) \/ Save(j) \/ StageCopy(j) \/ StageWhole(j) \/ Rename(j) \/ JobFails(j)

Deliver(j) == DeliverFailure(j) \/ DeliverSuccess(j)

Next ==
  \/ SurfaceNext /\ UNCHANGED updateVars
  \/ StartupCheck \/ CheckNow
  \/ \E c \in Slots : Fetch(c) \/ DeliverCheck(c)
  \/ Later \/ Skip \/ AcceptExternal \/ Accept \/ SetAutoUpdateCheck
  \/ \E j \in DOMAIN jobs : Worker(j) \/ Deliver(j)
  \/ Relaunch \/ QuitAndStart
  \/ DayPasses \/ Publish

\* Every network phase has a timeout (update/net.rs), file steps end, posted
\* closures run and timers fire; nothing is owed by the reader.
Fairness ==
  /\ \A j \in 1 .. 2 : WF_vars(Worker(j)) /\ WF_vars(Deliver(j))
  /\ WF_vars(Relaunch)

Spec == Init /\ [][Next]_vars /\ Fairness

-----------------------------------------------------------------------------
(* Properties. *)

\* docs/patterns.md, "focus is an invariant the code must maintain explicitly at
\* every transition": the topmost surface has the keyboard.
KeyboardAlive == focus = Topmost

\* The installed binary is a complete verified artifact of a published release,
\* wherever a download, a copy or the process stopped.
InstalledIsWhole ==
  files.installed.whole /\ files.installed.version \in current .. published

\* A version the reader skipped is not offered again by an automatic check.
SkippedStaysQuiet ==
  [][ \A c \in Slots :
        DeliverCheck(c) /\ ~checks[c].forced /\ checks[c].found = settings.skipped
          => modals' = modals ]_vars

\* dialog.rs: no job "would then finish invisibly and force-restart the app".
JobIsVisible ==
  restarting \/ (\E j \in DOMAIN jobs : Busy(j)) => "update" \in modals /\ inProgress

\* dialog.rs: no "two concurrent downloads / two racing binary replacements".
OneJobAtATime == \A i, j \in DOMAIN jobs : Busy(i) /\ Busy(j) => i = j

\* A committed dialog has no cancel: it must free itself, or restart the program.
CommittedDialogResolves == inProgress ~> ~inProgress
=============================================================================
