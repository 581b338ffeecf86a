-------------------------- MODULE UpdateFlowProofs --------------------------
(***************************************************************************)
(* The dialogs and the self-update, for any number of releases, checks,    *)
(* jobs, crashes and restarts.  The keyboard rests on one invariant of the *)
(* surfaces, KeyInv; the rest on UpdateInv, which relates the job, the     *)
(* dialog, the worker threads and the binary on disk.                      *)
(***************************************************************************)
EXTENDS UpdateFlow, TLAPS

-----------------------------------------------------------------------------
(* The keyboard. *)

\* The confirmation stands alone on the library, under the update dialog at
\* most, and the shortcuts are shown over the settings only: what a closing
\* dialog takes for granted about the surface it uncovers.
KeyInv ==
  /\ SurfaceTypeOK /\ KeyboardAlive
  /\ "confirm" \in modals => screen = "library" /\ modals \subseteq {"confirm", "update"}
  /\ "shortcuts" \in modals => "settings" \in modals

LEMMA KeyInit == Init => KeyInv
  BY DEF Init, SurfaceInit, KeyInv, SurfaceTypeOK, KeyboardAlive, Topmost, ModalNames,
         ScreenSurfaces

\* A handler of the two screens and their three modals.
LEMMA KeySurface ==
  ASSUME ~ LandsAnywhere, KeyInv, SurfaceNext
  PROVE  KeyInv'
  <1> USE DEF KeyInv, SurfaceTypeOK, KeyboardAlive, Topmost, Using, Shown, Hidden,
              ModalNames, ScreenSurfaces
  <1>1. OpenSettings => KeyInv'
    BY DEF OpenSettings
  <1>2. OpenShortcuts => KeyInv'
    BY DEF OpenShortcuts
  <1>3. CloseShortcuts => KeyInv'
    BY DEF CloseShortcuts
  <1>4. CloseSettings => KeyInv'
    BY DEF CloseSettings
  <1>5. RequestDelete => KeyInv'
    BY DEF RequestDelete
  <1>6. \A removesOpen \in BOOLEAN : AnswerDelete(removesOpen) => KeyInv'
    BY DEF AnswerDelete
  <1>7. \A kind \in {"open", "add"} : StartRequest(kind) => KeyInv'
    BY DEF StartRequest
  <1>8. CarouselBack \/ LeaveViewer => KeyInv'
    BY DEF CarouselBack, LeaveViewer
  <1>9. \A opened \in BOOLEAN : LandOpen(opened) => KeyInv'
    BY DEF LandOpen, MayLand
  <1>10. LandAdd => KeyInv'
    BY DEF LandAdd, MayLand
  <1> QED
    BY <1>1, <1>2, <1>3, <1>4, <1>5, <1>6, <1>7, <1>8, <1>9, <1>10, Zenon DEF SurfaceNext

\* The update dialog appears over everything and gives the focus back to what
\* it covered, whichever surface that is by then.
LEMMA KeyUpdate ==
  ASSUME KeyInv,
         \/ Dismissed /\ UNCHANGED <<screen, landing, bookOpen>>
         \/ /\ Shown("update") /\ UNCHANGED <<screen, landing, bookOpen>>
            /\ focus' = IF "update" \in modals THEN focus ELSE "update"
         \/ UNCHANGED surfaceVars
         \/ Boot
  PROVE  KeyInv'
  <1> USE DEF KeyInv, SurfaceTypeOK, KeyboardAlive, Topmost, ModalNames, ScreenSurfaces
  <1>1. CASE Dismissed /\ UNCHANGED <<screen, landing, bookOpen>>
    BY <1>1 DEF Dismissed, Hidden, focus_target_after_dialog
  <1>2. CASE /\ Shown("update") /\ UNCHANGED <<screen, landing, bookOpen>>
             /\ focus' = IF "update" \in modals THEN focus ELSE "update"
    BY <1>2 DEF Shown
  <1>3. CASE UNCHANGED surfaceVars
    BY <1>3 DEF surfaceVars
  <1>4. CASE Boot
    BY <1>4 DEF Boot
  <1> QED
    BY <1>1, <1>2, <1>3, <1>4

\* What each step of the update does to the surfaces.
LEMMA UpdateSurfaces ==
  ASSUME Next
  PROVE  \/ SurfaceNext
         \/ Dismissed /\ UNCHANGED <<screen, landing, bookOpen>>
         \/ /\ Shown("update") /\ UNCHANGED <<screen, landing, bookOpen>>
            /\ focus' = IF "update" \in modals THEN focus ELSE "update"
         \/ UNCHANGED surfaceVars
         \/ Boot
  <1>1. StartupCheck \/ CheckNow => UNCHANGED surfaceVars
    BY DEF StartupCheck, CheckNow, Check
  <1>2. ASSUME NEW c \in Slots, Fetch(c) PROVE UNCHANGED surfaceVars
    BY <1>2 DEF Fetch
  <1>3. ASSUME NEW c \in Slots, DeliverCheck(c)
        PROVE  \/ UNCHANGED surfaceVars
               \/ /\ Shown("update") /\ UNCHANGED <<screen, landing, bookOpen>>
                  /\ focus' = IF "update" \in modals THEN focus ELSE "update"
    BY <1>3 DEF DeliverCheck, surfaceVars
  <1>4. Later \/ Skip \/ AcceptExternal => Dismissed /\ UNCHANGED <<screen, landing, bookOpen>>
    BY DEF Later, Skip, AcceptExternal
  <1>5. Accept \/ SetAutoUpdateCheck \/ DayPasses \/ Publish => UNCHANGED surfaceVars
    BY DEF Accept, SetAutoUpdateCheck, DayPasses, Publish
  <1>6. ASSUME NEW j, Worker(j) PROVE UNCHANGED surfaceVars
    BY <1>6 DEF Worker, Download, Save, StageCopy, StageWhole, Rename, JobFails, JobStep
  <1>7. ASSUME NEW j, Deliver(j)
        PROVE  \/ UNCHANGED surfaceVars
               \/ Dismissed /\ UNCHANGED <<screen, landing, bookOpen>>
    BY <1>7 DEF Deliver, DeliverFailure, DeliverSuccess, surfaceVars
  <1> QED
    BY <1>1, <1>2, <1>3, <1>4, <1>5, <1>6, <1>7 DEF Next, Relaunch, QuitAndStart

\* The topmost surface has the keyboard after every sequence of handlers, landed
\* requests, checks, jobs and restarts, as long as a request lands only on a
\* bare library: what landing elsewhere does to the surfaces is LandsAnywhere.
THEOREM KeyboardStaysAlive == ~ LandsAnywhere => (Spec => []KeyboardAlive)
  <1> SUFFICES ASSUME ~ LandsAnywhere PROVE Spec => []KeyboardAlive
    OBVIOUS
  <1>1. KeyInv /\ [Next]_vars => KeyInv'
    <2> SUFFICES ASSUME KeyInv, [Next]_vars PROVE KeyInv'
      OBVIOUS
    <2>1. CASE Next
      BY <2>1, UpdateSurfaces, KeySurface, KeyUpdate
    <2>2. CASE UNCHANGED vars
      BY <2>2, KeyUpdate DEF vars
    <2> QED
      BY <2>1, <2>2
  <1>2. KeyInv => KeyboardAlive
    BY DEF KeyInv
  <1> QED
    BY <1>1, <1>2, KeyInit, PTL DEF Spec

-----------------------------------------------------------------------------
(* The job. *)

\* A shown dialog offers a release newer than the running one, and with the
\* checks kept apart none is under way behind it: one that ended brought it up.
Offered ==
  "update" \in modals =>
    /\ latest \in current + 1 .. published
    /\ \A c \in Slots : ~ Active(c)
    /\ \E c \in Slots : checks[c].stage # "none"

\* Only one check is under way, and what it captured is still what is stored.
CheckFacts ==
  /\ \A c, d \in Slots : Active(c) /\ Active(d) => c = d
  /\ \A c \in Slots : Active(c) =>
       /\ checks[c].found <= published
       /\ checks[c].forced \/ checks[c].skipped = settings.skipped

\* What a job has put on disk at each stage is the whole of its own release.
JobFacts ==
  /\ restarting => \A j \in 1 .. 2 : ~ Busy(j)
  /\ \A j \in 1 .. 2 :
       /\ Busy(j) => jobs[j].version \in current + 1 .. published
       /\ jobs[j].stage \in {"saved", "staging"} => files.download = Holding(j, TRUE)
       /\ jobs[j].stage = "staged" => files.staged = Holding(j, TRUE)

\* What is true of the job alone.
JobInv == JobFacts /\ JobIsVisible /\ OneJobAtATime /\ InstalledIsWhole

UpdateInv == TypeOK /\ Offered /\ CheckFacts /\ JobInv

LEMMA VersionsAreNumbers == Versions \subseteq Nat /\ None \in Nat /\ 1 \in Versions
  BY VersionAssumption DEF Versions, None

LEMMA UpdateInit == Init => UpdateInv
  <1> SUFFICES ASSUME Init PROVE UpdateInv
    OBVIOUS
  <1> USE DEF Init, None, NoCheck, NoJob, NoFile
  <1>1. TypeOK
    <2>1. SurfaceTypeOK
      BY DEF SurfaceInit, SurfaceTypeOK, ModalNames, ScreenSurfaces
    <2>2. /\ published \in Versions /\ current \in Versions /\ strategy \in Strategies
          /\ latest \in Versions \cup {None} /\ inProgress \in BOOLEAN /\ restarting \in BOOLEAN
      BY VersionsAreNumbers
    <2>3. settings \in [auto : BOOLEAN, due : BOOLEAN, skipped : Versions \cup {None}]
      OBVIOUS
    <2>4. files \in [installed : Artifacts, download : Artifacts, staged : Artifacts]
      BY VersionsAreNumbers DEF Artifacts
    <2>5. checks \in [Slots -> [forced : BOOLEAN, skipped : Versions \cup {None},
                             stage : {"none", "fetching", "posted", "done"},
                             found : Versions \cup {None}]]
      OBVIOUS
    <2>6. jobs \in [1 .. 2 -> [version : Versions \cup {None},
                            stage : {"none", "fetching", "saving", "saved", "staging",
                                     "staged", "succeeded", "failed"}]]
      OBVIOUS
    <2> QED
      BY <2>1, <2>2, <2>3, <2>4, <2>5, <2>6 DEF TypeOK
  <1>2. Offered /\ CheckFacts
    BY DEF Offered, CheckFacts, Active, SurfaceInit
  <1>3. \A j \in 1 .. 2 : ~ Busy(j) /\ jobs[j].stage = "none"
    BY DEF Busy
  <1>4. JobFacts /\ JobIsVisible /\ OneJobAtATime
    BY <1>3 DEF JobFacts, JobIsVisible, OneJobAtATime
  <1>5. InstalledIsWhole
    BY DEF InstalledIsWhole
  <1> QED
    BY <1>1, <1>2, <1>4, <1>5 DEF UpdateInv, JobInv

\* A step that leaves the job, its files and the dialog's flag alone.
LEMMA JobUntouched ==
  ASSUME TypeOK, JobInv, published' \in Nat, published' >= published,
         UNCHANGED <<current, files, jobs, restarting, inProgress>>,
         "update" \in modals => "update" \in modals'
  PROVE  JobInv'
  <1> USE DEF JobFacts, JobIsVisible, OneJobAtATime, InstalledIsWhole, Busy, Holding
  <1>1. published \in Nat /\ current \in Nat
    BY VersionsAreNumbers DEF TypeOK
  <1>2. JobFacts'
    BY <1>1 DEF JobInv, TypeOK
  <1>3. InstalledIsWhole'
    BY <1>1 DEF JobInv
  <1> QED
    BY <1>2, <1>3 DEF JobInv

\* A step that leaves the checks and what they captured alone.
LEMMA ChecksUntouched ==
  ASSUME TypeOK, CheckFacts, published' \in Nat, published' >= published,
         checks' = checks, settings'.skipped = settings.skipped
  PROVE  CheckFacts'
  <1>1. published \in Nat /\ \A c \in Slots : checks[c].found \in Nat
    BY VersionsAreNumbers DEF TypeOK
  <1> QED
    BY <1>1 DEF CheckFacts, Active

\* A step that brings no dialog up.
LEMMA NothingOffered ==
  ASSUME TypeOK, Offered, published' \in Nat, published' >= published,
         checks' = checks, latest' = latest, current' = current,
         "update" \in modals' => "update" \in modals
  PROVE  Offered'
  <1>1. published \in Nat /\ current \in Nat
    BY VersionsAreNumbers DEF TypeOK
  <1> QED
    BY <1>1 DEF Offered, Active

LEMMA SurfaceKeepsUpdate ==
  ASSUME UpdateInv, SurfaceNext, UNCHANGED updateVars
  PROVE  UpdateInv'
  <1>1. SurfaceTypeOK' /\ ("update" \in modals' <=> "update" \in modals)
    <2> USE DEF UpdateInv, TypeOK, SurfaceTypeOK, Topmost, Using, Shown, Hidden, ModalNames,
                ScreenSurfaces
    <2>1. CASE OpenSettings \/ OpenShortcuts
      BY <2>1 DEF OpenSettings, OpenShortcuts
    <2>2. CASE CloseShortcuts \/ CloseSettings
      BY <2>2 DEF CloseShortcuts, CloseSettings
    <2>3. CASE RequestDelete \/ \E removesOpen \in BOOLEAN : AnswerDelete(removesOpen)
      BY <2>3 DEF RequestDelete, AnswerDelete
    <2>4. CASE \E kind \in {"open", "add"} : StartRequest(kind)
      BY <2>4 DEF StartRequest
    <2>5. CASE CarouselBack \/ LeaveViewer
      BY <2>5 DEF CarouselBack, LeaveViewer
    <2>6. CASE LandAdd \/ \E opened \in BOOLEAN : LandOpen(opened)
      BY <2>6 DEF LandAdd, LandOpen
    <2> QED
      BY <2>1, <2>2, <2>3, <2>4, <2>5, <2>6, Zenon DEF SurfaceNext
  <1>2. published \in Nat
    BY VersionsAreNumbers DEF UpdateInv, TypeOK
  <1>3. TypeOK'
    BY <1>1 DEF UpdateInv, TypeOK, updateVars
  <1>4. JobInv'
    BY <1>1, <1>2, JobUntouched DEF UpdateInv, updateVars
  <1>5. CheckFacts'
    BY <1>2, ChecksUntouched DEF UpdateInv, updateVars
  <1>6. Offered'
    BY <1>1, <1>2, NothingOffered DEF UpdateInv, updateVars
  <1> QED
    BY <1>3, <1>4, <1>5, <1>6 DEF UpdateInv

\* A check starts only with no dialog over the settings, or none at all.
LEMMA CheckKeepsUpdate ==
  ASSUME ~ OverlappingChecks, UpdateInv, NEW c, NEW forced \in BOOLEAN, Check(c, forced),
         "update" \notin modals
  PROVE  UpdateInv'
  <1>0. PICK v : v = [forced |-> forced, skipped |-> IF forced THEN None ELSE settings.skipped,
                      stage |-> "fetching", found |-> None]
    OBVIOUS
  <1>1. /\ \A d \in Slots : ~ Active(d)
        /\ settings' = [settings EXCEPT !.due = FALSE]
        /\ checks' = [checks EXCEPT ![c] = v]
        /\ UNCHANGED <<published, strategy, files, current, latest, inProgress, jobs,
                       restarting, surfaceVars>>
    BY <1>0 DEF Check
  <1>2. published \in Nat /\ modals' = modals
    BY <1>1, VersionsAreNumbers DEF UpdateInv, TypeOK, surfaceVars
  <1>3. /\ settings' \in [auto : BOOLEAN, due : BOOLEAN, skipped : Versions \cup {None}]
        /\ settings'.skipped = settings.skipped
    BY <1>1 DEF UpdateInv, TypeOK
  <1>4. v \in [forced : BOOLEAN, skipped : Versions \cup {None},
              stage : {"none", "fetching", "posted", "done"}, found : Versions \cup {None}]
    BY <1>0 DEF UpdateInv, TypeOK
  <1>5. /\ checks' \in [Slots -> [forced : BOOLEAN, skipped : Versions \cup {None},
                                stage : {"none", "fetching", "posted", "done"},
                                found : Versions \cup {None}]]
        /\ \A d \in Slots : checks'[d] = IF d = c THEN v ELSE checks[d]
    BY <1>1, <1>4 DEF UpdateInv, TypeOK
  <1>6. TypeOK'
    BY <1>1, <1>3, <1>5 DEF UpdateInv, TypeOK, SurfaceTypeOK, surfaceVars
  <1>7. JobInv'
    BY <1>1, <1>2, JobUntouched DEF UpdateInv
  <1>8. CheckFacts'
    <2>1. \A d \in Slots : Active(d)' => d = c
      BY <1>1, <1>5 DEF Active
    <2>2. v.found <= published /\ (v.forced \/ v.skipped = settings.skipped)
      BY <1>0, <1>2 DEF None
    <2> QED
      BY <1>1, <1>3, <1>5, <2>1, <2>2 DEF CheckFacts
  <1>9. Offered'
    BY <1>2 DEF Offered
  <1> QED
    BY <1>6, <1>7, <1>8, <1>9 DEF UpdateInv

LEMMA FetchKeepsUpdate ==
  ASSUME UpdateInv, NEW c \in Slots, Fetch(c)
  PROVE  UpdateInv'
  <1>1. PICK found \in {published, None} :
          checks' = [checks EXCEPT ![c].stage = "posted", ![c].found = found]
    BY DEF Fetch
  <1>2. /\ checks[c].stage = "fetching"
        /\ UNCHANGED <<published, strategy, settings, files, current, latest, inProgress,
                       jobs, restarting, surfaceVars>>
    BY DEF Fetch
  <1>3. published \in Nat /\ published \in Versions /\ modals' = modals
    BY <1>2, VersionsAreNumbers DEF UpdateInv, TypeOK, surfaceVars
  <1>4. /\ checks' \in [Slots -> [forced : BOOLEAN, skipped : Versions \cup {None},
                                stage : {"none", "fetching", "posted", "done"},
                                found : Versions \cup {None}]]
        /\ \A d \in Slots : d # c => checks'[d] = checks[d]
        /\ checks'[c].stage = "posted" /\ checks'[c].found = found
        /\ checks'[c].forced = checks[c].forced /\ checks'[c].skipped = checks[c].skipped
    <2>1. checks' = [d \in Slots |-> checks'[d]]
      BY <1>1 DEF UpdateInv, TypeOK
    <2>2. \A d \in Slots : d # c => checks'[d] = checks[d]
      BY <1>1 DEF UpdateInv, TypeOK
    <2>3. checks'[c] = [checks[c] EXCEPT !.stage = "posted", !.found = found]
      BY <1>1 DEF UpdateInv, TypeOK
    <2>4. \A d \in Slots : checks[d] \in [forced : BOOLEAN, skipped : Versions \cup {None},
                                      stage : {"none", "fetching", "posted", "done"},
                                      found : Versions \cup {None}]
      BY DEF UpdateInv, TypeOK
    <2>5. checks'[c] \in [forced : BOOLEAN, skipped : Versions \cup {None},
                         stage : {"none", "fetching", "posted", "done"},
                         found : Versions \cup {None}]
      BY <1>3, <2>3, <2>4
    <2>6. \A d \in Slots : checks'[d] \in [forced : BOOLEAN, skipped : Versions \cup {None},
                                       stage : {"none", "fetching", "posted", "done"},
                                       found : Versions \cup {None}]
      BY <2>2, <2>4, <2>5
    <2>7. checks' \in [Slots -> [forced : BOOLEAN, skipped : Versions \cup {None},
                               stage : {"none", "fetching", "posted", "done"},
                               found : Versions \cup {None}]]
      BY <2>1, <2>6
    <2>8. /\ checks'[c].stage = "posted" /\ checks'[c].found = found
          /\ checks'[c].forced = checks[c].forced /\ checks'[c].skipped = checks[c].skipped
      BY <2>3, <2>4
    <2> QED
      BY <2>2, <2>7, <2>8
  <1>5. Active(c) /\ \A d \in Slots : Active(d)' <=> Active(d)
    BY <1>2, <1>4 DEF Active
  <1>6. TypeOK'
    BY <1>2, <1>4 DEF UpdateInv, TypeOK, SurfaceTypeOK, surfaceVars
  <1>7. JobInv'
    BY <1>2, <1>3, JobUntouched DEF UpdateInv
  <1>8. CheckFacts'
    <2>1. found <= published
      BY <1>3 DEF None
    <2> QED
      BY <1>2, <1>4, <1>5, <2>1 DEF UpdateInv, CheckFacts
  <1>9. Offered'
    BY <1>3, <1>5 DEF UpdateInv, Offered
  <1> QED
    BY <1>6, <1>7, <1>8, <1>9 DEF UpdateInv

\* A dialog comes up when the check that brings it ends: no job, no relaunch and
\* no other check is under way then.
LEMMA DeliverKeepsUpdate ==
  ASSUME UpdateInv, NEW c \in Slots, DeliverCheck(c)
  PROVE  UpdateInv'
  <1>1. /\ checks[c].stage = "posted"
        /\ checks' = [checks EXCEPT ![c].stage = "done"]
        /\ UNCHANGED <<published, strategy, settings, files, current, jobs, restarting,
                       screen, landing, bookOpen>>
    BY DEF DeliverCheck
  <1>2. /\ published \in Nat /\ current \in Nat /\ checks[c].found \in Nat
        /\ checks[c].found \in Versions \cup {None}
    BY VersionsAreNumbers DEF UpdateInv, TypeOK
  <1>3. /\ checks' \in [Slots -> [forced : BOOLEAN, skipped : Versions \cup {None},
                                stage : {"none", "fetching", "posted", "done"},
                                found : Versions \cup {None}]]
        /\ \A d \in Slots : d # c => checks'[d] = checks[d]
        /\ checks'[c].stage = "done"
    BY <1>1 DEF UpdateInv, TypeOK
  <1>4. Active(c) /\ "update" \notin modals
    BY <1>1 DEF Active, UpdateInv, Offered
  <1>5. \A d \in Slots : ~ Active(d)'
    BY <1>3, <1>4 DEF Active, UpdateInv, CheckFacts
  <1>6. ~ restarting /\ \A j \in 1 .. 2 : ~ Busy(j)
    BY <1>4 DEF UpdateInv, JobInv, JobIsVisible, TypeOK
  <1>7. CheckFacts'
    BY <1>5 DEF CheckFacts
  <1>8. CASE Notifies(checks[c])
    <2>1. /\ latest' = checks[c].found /\ inProgress' = FALSE
          /\ modals' = modals \cup {"update"} /\ focus' = "update"
      BY <1>4, <1>8 DEF DeliverCheck, Shown
    <2>2. latest' \in current + 1 .. published
      BY <1>2, <1>4, <1>8, <2>1 DEF Notifies, should_notify, UpdateInv, CheckFacts
    <2>3. TypeOK'
      BY <1>1, <1>2, <1>3, <2>1 DEF UpdateInv, TypeOK, SurfaceTypeOK, ModalNames
    <2>4. Offered'
      BY <1>1, <1>3, <1>5, <2>2 DEF Offered
    <2>5. JobInv'
      BY <1>1, <1>6 DEF UpdateInv, TypeOK, JobInv, JobFacts, JobIsVisible, OneJobAtATime,
                        InstalledIsWhole, Busy, Holding
    <2> QED
      BY <1>7, <2>3, <2>4, <2>5 DEF UpdateInv
  <1>9. CASE ~ Notifies(checks[c])
    <2>1. UNCHANGED <<latest, inProgress, modals, focus>>
      BY <1>9 DEF DeliverCheck
    <2>2. TypeOK'
      BY <1>1, <1>3, <2>1 DEF UpdateInv, TypeOK, SurfaceTypeOK
    <2>3. Offered'
      BY <1>4, <2>1 DEF Offered
    <2>4. JobInv'
      BY <1>1, <1>2, <2>1, JobUntouched DEF UpdateInv
    <2> QED
      BY <1>7, <2>2, <2>3, <2>4 DEF UpdateInv
  <1> QED
    BY <1>8, <1>9

\* Later, skip and an external install close a dialog no job hangs on; a skip
\* changes what no check under way has captured.
LEMMA DismissKeepsUpdate ==
  ASSUME UpdateInv, Later \/ Skip \/ AcceptExternal
  PROVE  UpdateInv'
  <1>1. /\ "update" \in modals /\ ~ inProgress
        /\ modals' = modals \ {"update"} /\ focus' = focus_target_after_dialog(modals', screen)
        /\ UNCHANGED <<published, strategy, files, current, checks, latest, inProgress,
                       jobs, restarting, screen, landing, bookOpen>>
        /\ settings' = settings \/ settings' = [settings EXCEPT !.skipped = latest]
    BY DEF Later, Skip, AcceptExternal, Decides, Using, Topmost, Dismissed, Hidden, updateVars
  <1>2. ~ restarting /\ \A j \in 1 .. 2 : ~ Busy(j)
    BY <1>1 DEF UpdateInv, JobInv, JobIsVisible, TypeOK
  <1>3. TypeOK'
    <2>1. settings' \in [auto : BOOLEAN, due : BOOLEAN, skipped : Versions \cup {None}]
      BY <1>1 DEF UpdateInv, TypeOK
    <2>2. SurfaceTypeOK'
      BY <1>1 DEF UpdateInv, TypeOK, SurfaceTypeOK, focus_target_after_dialog, ModalNames,
                  ScreenSurfaces
    <2> QED
      BY <1>1, <2>1, <2>2 DEF UpdateInv, TypeOK
  <1>4. Offered' /\ CheckFacts'
    BY <1>1 DEF UpdateInv, Offered, CheckFacts, Active
  <1>5. JobInv'
    BY <1>1, <1>2 DEF UpdateInv, TypeOK, JobInv, JobFacts, JobIsVisible, OneJobAtATime,
                      InstalledIsWhole, Busy, Holding
  <1> QED
    BY <1>3, <1>4, <1>5 DEF UpdateInv

\* A job's next version and stage.
JobTypes == [version : Versions \cup {None},
             stage : {"none", "fetching", "saving", "saved", "staging", "staged",
                      "succeeded", "failed"}]

\* An accepted update finds no other job: it would hold the dialog committed.
LEMMA AcceptKeepsUpdate ==
  ASSUME UpdateInv, Accept
  PROVE  UpdateInv'
  <1>1. /\ "update" \in modals /\ ~ inProgress /\ inProgress' = TRUE
        /\ UNCHANGED <<published, strategy, settings, files, current, checks, latest,
                       restarting, surfaceVars>>
    BY DEF Accept, Decides, Using, Topmost
  <1>2. PICK j \in 1 .. 2 :
          jobs' = [jobs EXCEPT ![j] = [version |-> latest, stage |-> "fetching"]]
    BY DEF Accept, UpdateInv, TypeOK
  <1>3. ~ restarting /\ \A i \in 1 .. 2 : ~ Busy(i)
    BY <1>1 DEF UpdateInv, JobInv, JobIsVisible, TypeOK
  <1>4. /\ jobs' \in [1 .. 2 -> JobTypes]
        /\ jobs'[j].version = latest /\ jobs'[j].stage = "fetching"
        /\ \A i \in 1 .. 2 : i # j => jobs'[i].stage = "none"
    BY <1>2, <1>3 DEF UpdateInv, TypeOK, Busy, JobTypes
  <1>5. published \in Nat /\ modals' = modals
    BY <1>1, VersionsAreNumbers DEF UpdateInv, TypeOK, surfaceVars
  <1>6. TypeOK'
    BY <1>1, <1>4 DEF UpdateInv, TypeOK, SurfaceTypeOK, surfaceVars, JobTypes
  <1>7. Offered'
    BY <1>1, <1>5, NothingOffered DEF UpdateInv
  <1>8. CheckFacts'
    BY <1>1, <1>5, ChecksUntouched DEF UpdateInv
  <1>9. JobInv'
    <2>1. latest \in current + 1 .. published
      BY <1>1 DEF UpdateInv, Offered
    <2>2. DOMAIN jobs' = 1 .. 2
      BY <1>4
    <2>3. JobFacts'
      BY <1>1, <1>3, <1>4, <2>1 DEF JobFacts, Busy
    <2>4. JobIsVisible' /\ OneJobAtATime'
      BY <1>1, <1>4, <1>5, <2>2 DEF JobIsVisible, OneJobAtATime, Busy
    <2>5. InstalledIsWhole'
      BY <1>1 DEF UpdateInv, JobInv, InstalledIsWhole
    <2> QED
      BY <2>3, <2>4, <2>5 DEF JobInv
  <1> QED
    BY <1>6, <1>7, <1>8, <1>9 DEF UpdateInv

\* A worker's step moves its own job on; there is no other.
LEMMA JobMoves ==
  ASSUME UpdateInv, NEW j \in 1 .. 2, NEW from, from # "none",
         NEW to \in {"saving", "saved", "staging", "staged", "succeeded", "failed"},
         JobStep(j, from, to), files' \in [installed : Artifacts, download : Artifacts,
                                          staged : Artifacts]
  PROVE  /\ jobs[j].stage = from /\ jobs[j].version \in current + 1 .. published
         /\ ~ restarting /\ Holding(j, TRUE) \in Artifacts /\ Holding(j, FALSE) \in Artifacts
         /\ TypeOK' /\ Offered' /\ CheckFacts'
         /\ (to \in {"saved", "staging"} => files'.download = Holding(j, TRUE))
             /\ (to = "staged" => files'.staged = Holding(j, TRUE))
             /\ InstalledIsWhole' => JobInv'
  <1>1. /\ jobs[j].stage = from /\ jobs' = [jobs EXCEPT ![j].stage = to]
        /\ UNCHANGED <<published, strategy, settings, current, checks, latest, inProgress,
                       restarting, surfaceVars>>
    BY DEF JobStep
  <1>2. /\ jobs' \in [1 .. 2 -> JobTypes]
        /\ jobs'[j].version = jobs[j].version /\ jobs'[j].stage = to
        /\ \A i \in 1 .. 2 : i # j => jobs'[i] = jobs[i]
    BY <1>1 DEF UpdateInv, TypeOK, JobTypes
  <1>3. /\ Busy(j) /\ \A i \in 1 .. 2 : i # j => ~ Busy(i)
        /\ ~ restarting /\ "update" \in modals /\ inProgress
        /\ jobs[j].version \in current + 1 .. published
    BY <1>1 DEF Busy, UpdateInv, TypeOK, JobInv, JobFacts, JobIsVisible, OneJobAtATime
  <1>4. /\ published \in Nat /\ modals' = modals
        /\ Holding(j, TRUE) \in Artifacts /\ Holding(j, FALSE) \in Artifacts
    BY <1>1, VersionsAreNumbers DEF UpdateInv, TypeOK, surfaceVars, Holding, Artifacts
  <1>5. TypeOK'
    BY <1>1, <1>2 DEF UpdateInv, TypeOK, SurfaceTypeOK, surfaceVars, JobTypes
  <1>6. Offered'
    BY <1>1, <1>4, NothingOffered DEF UpdateInv
  <1>7. CheckFacts'
    BY <1>1, <1>4, ChecksUntouched DEF UpdateInv
  <1>8. ASSUME to \in {"saved", "staging"} => files'.download = Holding(j, TRUE),
               to = "staged" => files'.staged = Holding(j, TRUE), InstalledIsWhole'
        PROVE  JobInv'
    <2>1. DOMAIN jobs' = 1 .. 2 /\ Holding(j, TRUE)' = Holding(j, TRUE)
      BY <1>2 DEF Holding
    <2>2. \A i \in 1 .. 2 : Busy(i)' <=> i = j
      BY <1>2, <1>3 DEF Busy
    <2>3. \A i \in 1 .. 2 : i # j => jobs'[i].stage = "none"
      BY <1>2, <1>3 DEF Busy
    <2>4. JobFacts'
      <3>1. restarting' => \A i \in 1 .. 2 : ~ Busy(i)'
        BY <1>1, <1>3
      <3>2. \A i \in 1 .. 2 : Busy(i)' => jobs'[i].version \in current' + 1 .. published'
        BY <1>1, <1>2, <1>3, <2>2
      <3>3. \A i \in 1 .. 2 :
              /\ jobs'[i].stage \in {"saved", "staging"} => files'.download = Holding(i, TRUE)'
              /\ jobs'[i].stage = "staged" => files'.staged = Holding(i, TRUE)'
        BY <1>2, <1>8, <2>1, <2>3
      <3> QED
        BY <3>1, <3>2, <3>3 DEF JobFacts
    <2>5. JobIsVisible' /\ OneJobAtATime'
      BY <1>1, <1>3, <1>4, <2>1, <2>2 DEF JobIsVisible, OneJobAtATime
    <2> QED
      BY <1>8, <2>4, <2>5 DEF JobInv
  <1> QED
    BY <1>1, <1>3, <1>4, <1>5, <1>6, <1>7, <1>8

\* Every file step of a job: what is staged was saved whole, what is renamed was
\* staged whole, and nothing else touches the installed binary.
LEMMA WorkerKeepsUpdate ==
  ASSUME UpdateInv, NEW j \in 1 .. 2, Worker(j)
  PROVE  UpdateInv'
  <1> DEFINE Files == [installed : Artifacts, download : Artifacts, staged : Artifacts]
  <1>1. /\ Holding(j, TRUE) \in Artifacts /\ Holding(j, FALSE) \in Artifacts
        /\ NoFile \in Artifacts /\ files \in Files
    BY VersionsAreNumbers DEF Holding, Artifacts, UpdateInv, TypeOK, NoFile
  <1>2. ASSUME NEW to, to \in {"saving", "saved", "staging", "staged", "succeeded", "failed"},
               JobStep(j, jobs[j].stage, to), jobs[j].stage # "none",
               files' \in Files, files'.installed = files.installed,
               to \in {"saved", "staging"} => files'.download = Holding(j, TRUE),
               to = "staged" => files'.staged = Holding(j, TRUE)
        PROVE  UpdateInv'
    <2>1. UNCHANGED <<current, published>>
      BY <1>2 DEF JobStep
    <2>2. InstalledIsWhole'
      BY <1>2, <2>1 DEF UpdateInv, JobInv, InstalledIsWhole
    <2>3. PICK from : from = jobs[j].stage
      OBVIOUS
    <2>4. JobStep(j, from, to) /\ from # "none"
      BY <1>2, <2>3
    <2>5. /\ files' \in [installed : Artifacts, download : Artifacts, staged : Artifacts]
          /\ to \in {"saving", "saved", "staging", "staged", "succeeded", "failed"}
          /\ (to \in {"saved", "staging"} => files'.download = Holding(j, TRUE))
          /\ (to = "staged" => files'.staged = Holding(j, TRUE))
      BY <1>2
    <2>6. /\ TypeOK' /\ Offered' /\ CheckFacts'
          /\ (to \in {"saved", "staging"} => files'.download = Holding(j, TRUE))
             /\ (to = "staged" => files'.staged = Holding(j, TRUE))
             /\ InstalledIsWhole' => JobInv'
      BY <2>4, <2>5, JobMoves
    <2> QED
      BY <2>2, <2>5, <2>6 DEF UpdateInv
  <1> HIDE DEF Files
  <1>3. CASE Download(j)
    <2>1. /\ JobStep(j, "fetching", "saving") /\ jobs[j].stage = "fetching"
          /\ files' = [files EXCEPT !.download = Holding(j, FALSE)]
      BY <1>3 DEF Download, JobStep
    <2> QED
      BY <1>1, <1>2, <2>1 DEF Files
  <1>4. CASE Save(j)
    <2>1. PICK to \in {"saved", "succeeded"} :
            /\ JobStep(j, "saving", to) /\ jobs[j].stage = "saving"
            /\ files' = [files EXCEPT !.download = Holding(j, TRUE)]
      BY <1>4 DEF Save, JobStep, Accepted
    <2> QED
      BY <1>1, <1>2, <2>1 DEF Files
  <1>5. CASE StageCopy(j)
    <2>1. /\ JobStep(j, "saved", "staging") /\ jobs[j].stage = "saved"
          /\ files' = [files EXCEPT !.staged = Holding(j, FALSE)]
          /\ files.download = Holding(j, TRUE)
      BY <1>5 DEF StageCopy, JobStep, UpdateInv, JobInv, JobFacts
    <2> QED
      BY <1>1, <1>2, <2>1 DEF Files
  <1>6. CASE StageWhole(j)
    <2>1. /\ JobStep(j, "staging", "staged") /\ jobs[j].stage = "staging"
          /\ files' = [files EXCEPT !.staged = Holding(j, TRUE)]
      BY <1>6 DEF StageWhole, JobStep, UpdateInv, JobInv, JobFacts
    <2> QED
      BY <1>1, <1>2, <2>1 DEF Files
  <1>7. CASE Rename(j)
    <2>1. /\ JobStep(j, "staged", "succeeded") /\ jobs[j].stage = "staged"
          /\ files' = [files EXCEPT !.installed = Holding(j, TRUE), !.staged = NoFile]
      BY <1>7 DEF Rename, JobStep, UpdateInv, JobInv, JobFacts
    <2>2. files' \in Files /\ files'.installed = Holding(j, TRUE)
      BY <1>1, <2>1 DEF Files
    <2>3. jobs[j].version \in current + 1 .. published
      BY <2>1, <2>2, JobMoves DEF Files
    <2>4. current \in Nat /\ published \in Nat /\ UNCHANGED <<current, published>>
      BY <2>1, VersionsAreNumbers DEF JobStep, UpdateInv, TypeOK
    <2>5. InstalledIsWhole'
      BY <2>2, <2>3, <2>4 DEF InstalledIsWhole, Holding
    <2> QED
      BY <2>1, <2>2, <2>5, JobMoves DEF Files, UpdateInv
  <1>8. CASE JobFails(j)
    <2>1. /\ JobStep(j, jobs[j].stage, "failed") /\ jobs[j].stage # "none" /\ files' = files
      BY <1>8 DEF JobFails
    <2> QED
      BY <1>1, <1>2, <2>1
  <1> QED
    BY <1>3, <1>4, <1>5, <1>6, <1>7, <1>8 DEF Worker

\* The end of a job, told to the dialog: it is freed, closed, or stays committed
\* until the relaunch.
LEMMA OutcomeKeepsUpdate ==
  ASSUME UpdateInv, NEW j \in 1 .. 2, Deliver(j)
  PROVE  UpdateInv'
  <1>1. /\ jobs[j].stage # "none" /\ jobs' = [jobs EXCEPT ![j] = NoJob]
        /\ UNCHANGED <<published, strategy, settings, files, current, checks, latest,
                       screen, landing, bookOpen>>
    BY DEF Deliver, DeliverFailure, DeliverSuccess, surfaceVars
  <1>2. /\ \A i \in 1 .. 2 : i # j => ~ Busy(i)
        /\ ~ restarting /\ "update" \in modals /\ inProgress
    BY <1>1 DEF Busy, UpdateInv, TypeOK, JobInv, JobFacts, JobIsVisible, OneJobAtATime
  <1>3. /\ \A i \in 1 .. 2 : ~ Busy(i)' /\ jobs'[i].stage = "none"
        /\ jobs' \in [1 .. 2 -> JobTypes] /\ DOMAIN jobs' = 1 .. 2
    BY <1>1, <1>2, VersionsAreNumbers DEF UpdateInv, TypeOK, Busy, NoJob, JobTypes
  <1>4. /\ SurfaceTypeOK' /\ inProgress' \in BOOLEAN /\ restarting' \in BOOLEAN
        /\ restarting' => "update" \in modals' /\ inProgress'
        /\ "update" \in modals' => "update" \in modals
    <2> USE DEF UpdateInv, TypeOK, SurfaceTypeOK
    <2>1. CASE DeliverFailure(j)
      BY <1>2, <2>1 DEF DeliverFailure, surfaceVars
    <2>2. CASE DeliverSuccess(j) /\ strategy = "SelfReplace"
      BY <1>2, <2>2 DEF DeliverSuccess
    <2>3. CASE DeliverSuccess(j) /\ strategy # "SelfReplace"
      BY <1>2, <2>3 DEF DeliverSuccess, Dismissed, Hidden, focus_target_after_dialog,
                        ModalNames, ScreenSurfaces
    <2> QED
      BY <2>1, <2>2, <2>3 DEF Deliver
  <1>5. published \in Nat
    BY VersionsAreNumbers DEF UpdateInv, TypeOK
  <1>6. TypeOK'
    BY <1>1, <1>3, <1>4 DEF UpdateInv, TypeOK, JobTypes
  <1>7. Offered'
    BY <1>1, <1>4, <1>5, NothingOffered DEF UpdateInv
  <1>8. CheckFacts'
    BY <1>1, <1>5, ChecksUntouched DEF UpdateInv
  <1>9. JobInv'
    <2>1. JobFacts' /\ JobIsVisible' /\ OneJobAtATime'
      BY <1>3, <1>4 DEF JobFacts, JobIsVisible, OneJobAtATime
    <2>2. InstalledIsWhole'
      BY <1>1 DEF UpdateInv, JobInv, InstalledIsWhole
    <2> QED
      BY <2>1, <2>2 DEF JobInv
  <1> QED
    BY <1>6, <1>7, <1>8, <1>9 DEF UpdateInv

\* A new process keeps the files: the binary it runs is the installed one.
LEMMA BootKeepsUpdate ==
  ASSUME UpdateInv, Boot
  PROVE  UpdateInv'
  <1>1. /\ current' = files.installed.version /\ checks' = [c \in Slots |-> NoCheck]
        /\ modals' = {} /\ restarting' = FALSE /\ jobs' = [j \in 1 .. 2 |-> NoJob]
        /\ UNCHANGED <<published, strategy, settings, files>>
    BY DEF Boot, UpdateInv, TypeOK
  <1>2. /\ files.installed.whole /\ files.installed.version \in Versions
        /\ files.installed.version \in Nat /\ published \in Nat
        /\ files.installed.version <= published
    <2>1. /\ files.installed \in Artifacts /\ files.installed.whole
          /\ files.installed.version \in current .. published
          /\ current \in Nat \ {0} /\ published \in Nat /\ published <= MaxVersion
      BY VersionAssumption DEF UpdateInv, JobInv, InstalledIsWhole, TypeOK, Versions
    <2> QED
      BY <2>1, VersionAssumption DEF Versions, Artifacts
  <1>3. TypeOK'
    <2>1. SurfaceTypeOK'
      BY DEF Boot, SurfaceTypeOK, ModalNames, ScreenSurfaces
    <2>2. /\ latest' \in Versions \cup {None} /\ inProgress' \in BOOLEAN
          /\ restarting' \in BOOLEAN /\ current' \in Versions
      BY <1>1, <1>2 DEF Boot
    <2>3. checks' \in [Slots -> [forced : BOOLEAN, skipped : Versions \cup {None},
                             stage : {"none", "fetching", "posted", "done"},
                             found : Versions \cup {None}]]
      BY <1>1 DEF NoCheck
    <2>4. jobs' \in [1 .. 2 -> [version : Versions \cup {None},
                            stage : {"none", "fetching", "saving", "saved", "staging",
                                     "staged", "succeeded", "failed"}]]
      BY <1>1 DEF NoJob
    <2> QED
      BY <1>1, <2>1, <2>2, <2>3, <2>4 DEF UpdateInv, TypeOK
  <1>4. Offered' /\ CheckFacts'
    BY <1>1 DEF Offered, CheckFacts, Active, NoCheck
  <1>5. JobInv'
    <2>1. \A j \in 1 .. 2 : ~ Busy(j)' /\ jobs'[j].stage = "none"
      BY <1>1 DEF Busy, NoJob
    <2>2. JobFacts' /\ JobIsVisible' /\ OneJobAtATime'
      BY <1>1, <2>1 DEF JobFacts, JobIsVisible, OneJobAtATime
    <2>3. InstalledIsWhole'
      BY <1>1, <1>2 DEF InstalledIsWhole
    <2> QED
      BY <2>2, <2>3 DEF JobInv
  <1> QED
    BY <1>3, <1>4, <1>5 DEF UpdateInv

\* The switch, the clock and the world outside.
LEMMA OutsideKeepsUpdate ==
  ASSUME UpdateInv, SetAutoUpdateCheck \/ DayPasses \/ Publish
  PROVE  UpdateInv'
  <1>1. /\ UNCHANGED <<strategy, files, current, checks, latest, inProgress, jobs,
                       restarting, surfaceVars>>
        /\ settings' \in [auto : BOOLEAN, due : BOOLEAN, skipped : Versions \cup {None}]
        /\ settings'.skipped = settings.skipped
    BY DEF SetAutoUpdateCheck, DayPasses, Publish, UpdateInv, TypeOK
  <1>2. published' \in Versions /\ published' >= published
    BY VersionAssumption DEF SetAutoUpdateCheck, DayPasses, Publish, UpdateInv, TypeOK, Versions
  <1>3. published' \in Nat /\ modals' = modals
    BY <1>1, <1>2, VersionsAreNumbers DEF surfaceVars
  <1>4. TypeOK'
    BY <1>1, <1>2 DEF UpdateInv, TypeOK, SurfaceTypeOK, surfaceVars
  <1>5. JobInv'
    BY <1>1, <1>2, <1>3, JobUntouched DEF UpdateInv
  <1>6. CheckFacts'
    BY <1>1, <1>2, <1>3, ChecksUntouched DEF UpdateInv
  <1>7. Offered'
    BY <1>1, <1>2, <1>3, NothingOffered DEF UpdateInv
  <1> QED
    BY <1>4, <1>5, <1>6, <1>7 DEF UpdateInv

LEMMA UpdateStep == ~ OverlappingChecks /\ UpdateInv /\ [Next]_vars => UpdateInv'
  <1> SUFFICES ASSUME ~ OverlappingChecks, UpdateInv, [Next]_vars PROVE UpdateInv'
    OBVIOUS
  <1>1. CASE SurfaceNext /\ UNCHANGED updateVars
    BY <1>1, SurfaceKeepsUpdate
  <1>2. CASE StartupCheck
    <2>1. "update" \notin modals
      BY <1>2 DEF StartupCheck, UpdateInv, Offered
    <2> QED
      BY <1>2, <2>1, CheckKeepsUpdate DEF StartupCheck
  <1>3. CASE CheckNow
    <2>1. "update" \notin modals
      BY <1>3 DEF CheckNow, Using, Topmost
    <2> QED
      BY <1>3, <2>1, CheckKeepsUpdate DEF CheckNow
  <1>4. CASE \E c \in Slots : Fetch(c) \/ DeliverCheck(c)
    BY <1>4, FetchKeepsUpdate, DeliverKeepsUpdate
  <1>5. CASE Later \/ Skip \/ AcceptExternal \/ Accept
    BY <1>5, DismissKeepsUpdate, AcceptKeepsUpdate
  <1>6. CASE \E j \in DOMAIN jobs : Worker(j) \/ Deliver(j)
    <2>1. DOMAIN jobs = 1 .. 2
      BY DEF UpdateInv, TypeOK
    <2> QED
      BY <1>6, <2>1, WorkerKeepsUpdate, OutcomeKeepsUpdate
  <1>7. CASE Relaunch \/ QuitAndStart
    BY <1>7, BootKeepsUpdate DEF Relaunch, QuitAndStart
  <1>8. CASE SetAutoUpdateCheck \/ DayPasses \/ Publish
    BY <1>8, OutsideKeepsUpdate
  <1>9. CASE UNCHANGED vars
    <2>1. published \in Nat
      BY VersionsAreNumbers DEF UpdateInv, TypeOK
    <2>2. TypeOK'
      BY <1>9 DEF vars, updateVars, surfaceVars, UpdateInv, TypeOK, SurfaceTypeOK
    <2> QED
      BY <1>9, <2>1, <2>2, JobUntouched, ChecksUntouched, NothingOffered
      DEF vars, updateVars, surfaceVars, UpdateInv
  <1> QED
    BY <1>1, <1>2, <1>3, <1>4, <1>5, <1>6, <1>7, <1>8, <1>9 DEF Next

\* The binary on disk is a whole, verified artifact of a published release,
\* wherever a job or the process stopped, for any number of releases and checks.
THEOREM InstalledStaysWhole == ~ OverlappingChecks => (Spec => []InstalledIsWhole)
  <1> SUFFICES ASSUME ~ OverlappingChecks PROVE Spec => []InstalledIsWhole
    OBVIOUS
  <1>1. UpdateInv => InstalledIsWhole
    BY DEF UpdateInv, JobInv
  <1> QED
    BY <1>1, UpdateInit, UpdateStep, PTL DEF Spec

\* A job, or a relaunch that is coming, always has the committed dialog in front
\* of the reader, and no second job runs beside it.
THEOREM JobsAreVisible ==
  ~ OverlappingChecks => (Spec => [](JobIsVisible /\ OneJobAtATime))
  <1> SUFFICES ASSUME ~ OverlappingChecks PROVE Spec => [](JobIsVisible /\ OneJobAtATime)
    OBVIOUS
  <1>1. UpdateInv => JobIsVisible /\ OneJobAtATime
    BY DEF UpdateInv, JobInv
  <1> QED
    BY <1>1, UpdateInit, UpdateStep, PTL DEF Spec

\* A version is not offered again after it was skipped: an automatic check has
\* captured what is stored when it ends.
THEOREM SkippedIsQuiet == ~ OverlappingChecks => (Spec => SkippedStaysQuiet)
  <1> SUFFICES ASSUME ~ OverlappingChecks PROVE Spec => SkippedStaysQuiet
    OBVIOUS
  <1> DEFINE Quiet ==
        \A c \in Slots :
          DeliverCheck(c) /\ ~checks[c].forced /\ checks[c].found = settings.skipped
            => modals' = modals
  <1>1. UpdateInv => Quiet
    <2> SUFFICES ASSUME UpdateInv, NEW c \in Slots, DeliverCheck(c), ~ checks[c].forced,
                        checks[c].found = settings.skipped
                 PROVE  modals' = modals
      OBVIOUS
    <2>1. checks[c].skipped = settings.skipped
      BY DEF UpdateInv, CheckFacts, DeliverCheck, Active
    <2> QED
      BY <2>1 DEF DeliverCheck, Notifies, should_notify
  <1>2. UpdateInv => [Quiet]_vars
    BY <1>1
  <1> QED
    BY <1>2, UpdateInit, UpdateStep, PTL DEF Spec, SkippedStaysQuiet
=============================================================================
