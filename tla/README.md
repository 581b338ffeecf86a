# A verification of gashuu

gashuu is a manga reader: a Rust core crate without a user interface (`crates/gashuu-core`) and a
Slint application (`crates/gashuu`). This directory holds TLA+ modules of the parts whose correctness
depends on order: the order of page turns and layout changes, of asynchronous opens and settings
dialogs, of decode workers and event-loop closures, of saves, crashes and updates. TLC checks them on
small instances, and TLAPS proves the central facts for every instance. `PROJECT.json` names, for every
definition, the source lines it stands for.

## 1. The system

One thread, the Slint event loop, owns all state that is not explicitly shared: `ViewerState`, the
`Library`, the `Settings`, the search and selection state and the bound view models. Callbacks run on it
one at a time and to completion. Worker threads (the global rayon pool) open archives, decode images and
download updates. They share with the UI thread a few mutexes (the page cache,
the prefetch markers, result slots) and one atomic *epoch* per controller, and they answer by posting a
closure to the event loop. `ui_marshal::marshal_to_ui` drops the closure when the controller's epoch has
moved on. The documents `library.json` and `settings.json` are rewritten on the UI thread at well-defined
points; the thumbnail cache directory is written by workers.

| Component | State | Operations | What is hard | What makes it correct |
|---|---|---|---|---|
| Reading position (`spread.rs`, `view_modes.rs`, `viewer_state.rs`, keymap, scrubber) | page count, index, spread and cover mode, direction, window | turn, jump, scrub, toggles, resize, open | one index depends on three other fields; odd and single-page books; right-to-left | index always leads a spread; turns skip and repeat nothing; a layout change keeps the page; the stored resume page leads back |
| Page cache and prefetch (`cache.rs`) | LRU with count and byte limits, in-flight markers | hit, decode and insert, prefetch reserve / insert / clear | three lock sections per decode; overlapping prefetches; failures that must release markers | accounting is exact, limits hold, a marker is held by one running task and always cleared |
| Book session (`open_book.rs`, `view_sync.rs`, `dialog_session.rs`, `remove_books.rs`, `handlers/*`, `view_override.rs`) | open book, runtime view, dialog snapshot, library records, settings, what is on disk | open (three outcomes), leave, go to page, settings dialog open / edit / reset / close, add, remove, clear, quit, crash | an open lands while a dialog is up; several saves per handler; per-book and global preferences share one runtime | a book's view never becomes the global default and the reverse; reopening returns to the spread; nothing unsaved is left behind |
| Page loader (`page_loader.rs`, `main.rs` refresh, `handlers/viewer.rs`) | epoch, target spread, dispatch reservations, placeholder and images | refresh, new source, deliver spread / error | late results, partial failures, reservations that outlive their worker | only the current spread is painted; a placeholder always has a result on its way |
| Off-thread open (`open_controller.rs`) | epoch, result slot per generation | start, store, finalize | a second open overtakes the first | the newest open lands exactly once, others never |
| Bulk add (`add_controller.rs`, `add_books.rs`, drag and drop) | epoch, accumulator, countdown, progress hairline | start, probe, progress, finalize | the last of several concurrent probes finalizes | a batch is applied once, whole, and only if it is the newest |
| Library carousel (`carousel.rs`, `carousel_refresh.rs`, `library_model.rs`, `selection_projection.rs`, `cover_loader.rs`, `page_count_prefetch.rs`) | shelf, query, forced books, visible positions, selection, rows, focus, cover generation, pending counts | search, move, select, delete, clear, open, add, empty-book removal, cover results | rows are positions and shift; several generations of workers; check-then-push of counts | a row shows, opens and selects one book; the rows are the filter; covers settle |
| Library document (`library.rs`, `library_store.rs`, `atomic_write.rs`, `persist.rs`) | shelf and bookmark in memory, file, temporary file, files set aside | every change with its save, rollback, load with recanonicalization and merge, quarantine | a process or a machine dying between two system calls; files that move under their stored spelling | old or new document, never a part; unreadable data is kept; a merge loses no progress |
| Thumbnail strip and cache on disk (`thumbnail_strip.rs`, `thumbnail.rs`, `thumbnail_cache.rs`) | generation, cancel flags, requested set, cells, tasks, directory | start, visible range, decode, fill, purge, clear, startup sweep | cancelled workers that go on, files replaced on disk, sweeps beside writers | a cell shows its own page; a page is decoded once; what was asked for settles |
| Keyboard and modals (`ViewerWindow.slint`, `update/dialog.rs`, handlers) | screen, modals, focused surface | open, close and refocus of each surface | a screen rejects every key under a modal | the topmost surface has the keyboard |
| Update flow (`handlers/update.rs`, `update/*`) | release found, dialog, busy flag, download, staged and installed binary, skipped version | check, later, skip, accept, download, verify, replace, relaunch | answers landing during a job; the process killed at any step | the installed program is always whole and verified; a job is never invisible; a committed dialog frees itself |

Parts without a life of their own, modelled as pure operators: viewport geometry (`viewport.rs`), settings
and window geometry (`settings.rs`, `cache_config.rs`, `window_geometry.rs`), the four view preferences of a
book (`view_override.rs`, `view_sync.rs`), natural order (`ordering.rs`), page sources (`page_source/*`,
`archive_loader.rs`), image limits (`image_ops.rs`), the settings' startup load (`persist.rs`, `main.rs`),
keys and the page field (`keymap.rs`, `page_jump.rs`), rows and queries (`search.rs`,
`reading_progress.rs`), covers in memory, notices, status line and toolbar, release assets.

Interactions. A row of the carousel starts an `OpenController` request; when it lands, `open_finalize`
ends the dialog session, writes the outgoing book back, installs the new source, hands the view to the
page loader, which reads the page cache and dispatches decodes that fill it, and starts a thumbnail
generation. A cover worker may find a book empty, which removes it from the shelf and rebuilds the
carousel. Every change of the shelf ends in a save. The update dialog opens over whatever is on screen. The
modules cut along these calls: each takes its neighbour's answer as a nondeterministic choice among what
that neighbour can give (a decode succeeds or not, an open has one of three outcomes, a save fails or not).

## 2. Modules

State machines:

* `SpreadPairing` - the pairing functions of `spread.rs` as in the code, with `IsLeading` as the
  independent definition of a leading page. `SpreadNavigation` - the position and every operation that
  moves it. `Reposition` is `renormalize_index` and is part of each action that calls it. The window is
  reduced to two sides, since only their comparison is used.
* `PageCache` - one step per critical section of the cache mutex: `Hit`, `DecodeBegin`,
  `DecodeRead`, `DecodeEnd` for the viewer's workers, `PrefetchReserve`, `PrefetchInsert`,
  `PrefetchClear` for a prefetch task. Reads and decodes fall between steps; they may fail, and two
  decodes of one page may differ in size.
* `BookSession` - one action per handler on the UI thread with all its saves; `disk` is what a restart
  finds. `CrashAndStart` loses memory, `QuitAndStart` runs the exit path. One two-valued preference
  (the spread mode, which also moves the position) stands for the four.
* `BookSessionAudit` - the same actions with one history variable, `asked`: the global default last
  asked for, the open book's own view, where each book was left. It becomes `Untracked` after either of two
  known divergences (section 5), so that the properties say what holds everywhere else.
* `PageLoader` - `controller` is the `PageController`, `view` what is bound, `jobs` the rayon
  workers, `queue` the event loop. `RefreshFrom` is the whole of `refresh`: target, HIT and MISS
  classification, dispatch, painting. The cache is the environment. `FlakyPages` may fail
  now and decode later; `FailingPages` never decode.
* `LatestRequest` - the abstract promise of a background request: the newest lands once, a
  superseded one never. `OpenController` and `AddController` model the two controllers;
  `LibraryRequests` puts them on one event loop and is what TLC checks.
* `Carousel` - the library screen. A query is the set of books it matches; a book is its number in the
  natural order; `search.visible` is `visible_indices`, the positions that are kept between handlers.
  `refresh_library_carousel` is the one function that rebuilds rows and starts a cover generation, and
  appears in every action whose handler calls it. A worker is one record in `jobs`: it reads its source,
  queues a resolved count in a step of its own, and its closures land together.
* `Library` - the shelf as a value with every operation on it, among them the merge of records whose
  spellings turn out to name one file. `DocumentStore` - the steps of `write_atomic` and of quarantine: a
  temporary file, its sync, the rename, the sync of the directory; `older` holds contents a power loss may
  bring back. `DurableDocument` - the abstract document: a save adds its document to what a restart may
  find and ends by being the only one. `LibraryOnDisk` composes them: every handler that changes and saves
  the shelf, rollback of a failed removal, `Crash`, `PowerLoss`, files that move, damaged files, and
  `Start`. `MaxFaults` bounds the failures; `QuarantineMayFail` is `FALSE` in the run (section 5 says what
  happens otherwise).
* `Surfaces` - two screens, four modals and the surface with the keyboard. `UpdateFlow` extends it:
  checks, the dialog's decisions, one job per accepted update (download, verification, staging, rename), the
  relaunch, a process killed at any step, new releases. `LandsAnywhere` and `OverlappingChecks` allow two
  environments in which a property fails (section 5).
* `Thumbnails` - generations of the strip, requested pages, decode tasks with their cancel flags, closures,
  and the cache directory with its modification-time keys, purge, clear and startup sweep. `Rewritten` are
  files another program may write again; `ReplaceOpenBooks` says whether also while they are read.
  `MaxEntries` is the cache budget, `MaxStored` a bound on the directory.

Pure modules; a state is a record and an operation maps it to the next one:

* `Viewport` (zoom, pan, pinch, fit; lengths are whole pixels and zoom factors multiples of `1/Unit`, up to
  `ZoomTop`), `WindowGeometry`, `AppSettings` (normalisation, the dialog's controls, the recent list),
  `BookView` (the four preferences, their override, the routes that write them back).
* `NaturalOrder`, `PageSources` (which entries are pages, their order, reads after the file changed, which
  source a path opens as), `ImageLimits`, `CacheFiles` (the sweeps file by file), `Startup` (the settings'
  load, quarantine and repair), `UpdateAssets` (which release file an installation takes, what verifies it).
* `ViewerInput`, `ShelfRow`, `CoverMemory`, `Reports` (which failures each use case names and where the text
  goes), `ReaderChrome` (status line, scrubber preview, toolbar, cover order, dropped files).

`MCAlgorithms` and `MCBookSessionAudit` hold the bounded checks of the pure modules: named `ASSUME`s that
compare an operator with what it promises on every input of a small set. TLC evaluates them before the
first state of `spread_navigation` (whose `MCSpreadNavigation` extends `MCAlgorithms`) and of
`book_session`. The other `MC` modules, and this one too, give symmetry sets and the queries.

Pattern shared by the controllers: the UI thread bumps the epoch, a closure carries the epoch it was
started under, and the guard at delivery compares the two.

Each property of a passing run has a mutant: an operator named `<definition>_<Slip>` beside the definition
it replaces, changed the way a plausible bug would change the code. TLC finds the property violated under it.

## 3. Runs

Every passing run is exhaustive. Deadlock is checked except where a bound on the number of starts or of
failures makes the model stop (`library_requests`, `carousel`, `stale_projection`, `library_on_disk`).

| Run | Instance and distinct states | What it shows |
|---|---|---|
| `spread_navigation` | books of 0 to 7 pages, both layouts, all cover modes, ScrubSteps 10; 570 | position invariants and turns; seven pages contain every parity, head and tail case the pairing distinguishes, and the proofs remove the bound. Also evaluates `MCAlgorithms` |
| `page_cache` | 3 pages, capacity 2, byte budget 3, sizes 1, 2, 4; one decode worker, two prefetch tasks; 31 729 | accounting, limits, markers. Size 4 is a page over the whole budget; two tasks overlap on every window |
| `book_session` | 2 interchangeable books of 0 or 3 pages; 236 067 | session and preference properties (proved for every instance), with any outcome landing at any moment, quits and crashes. Three pages in pairs have a layout change that moves the index. Also evaluates `MCBookSessionAudit` |
| `page_loader` | 3 pages, one that always fails and one (the last) that fails now and decodes later, 2 books, 2 jobs, 4 generations; 432 891 | late results and partial failures: only the current spread is painted, and a placeholder always has something on its way and is replaced |
| `library_requests` | 2 opens and 2 adds of 2 paths at once; 325 965 | both controllers refine `LatestRequest` with its liveness; a batch is whole |
| `carousel` | 2 books, one of them empty, 2 queries, 2 moves; 652 082 | rows, badges, projection; every placeholder settles. Up to four generations of cover workers live at once, because opens and empty books also rebuild |
| `library_on_disk` | 2 interchangeable paths, books of 1 or 2 pages, two unreadable contents, one fault; 215 291 | the file refines `DurableDocument` across crashes and power losses between any two steps; unreadable files are kept; a merge at load loses nothing; a book that shrank never resumes past its end; a removal whose save fails gives the shelf back as it was |
| `update_flow` | 2 versions, the 3 strategies, 2 checks per process; 483 296 | the keyboard, the installed binary, visibility and end of a job, skipped versions |
| `thumbnails` | 2 books of 2 pages, one of them written again, one cache entry, 2 generations per process; 178 034 | cells, decodes and liveness of requested cells, over sweeps, purges and restarts |
| `transient_failure_sticks` | 2 pages, both flaky | violated; section 5 |
| `stale_projection` | the first book empty, 1 move | violated; section 5 |
| `overlapping_checks` | a second check may start while one is under way | violated; section 5 |

Bounds. `MaxTotal`, `MaxSide`, `PageCounts`, `MaxSources`, `MaxEpoch`, `MaxJobs`, `MaxPosted`, `MaxOpens`,
`MaxAdds`, `MaxMoves`, `MaxFaults`, `MaxVersion`, `MaxChecks` and `MaxStored` are guards of the actions that
grow a counter or take a step from outside, and nothing else. Two generations are enough for a late result to
meet a newer target, three for a result to be two generations late. In `Carousel` a move is anything the
reader does except deleting, leaving selection mode and going back to the viewer; two moves and a free delete
are query, select, delete, the shortest way to a stale projection. In `library_on_disk` the number of crashes
is not bounded, only the failing calls are. In `thumbnails`, `MaxStored` 1 with two pages makes every other
store fail, as a full disk does, and `MaxEntries` 0 lets the startup sweep remove any entry.

Environments. Five constants say what surrounds the program, and a passing run takes the value under which
its properties hold; the other value is described in section 5. `FlakyPages = {2}`: the page that fails now and
decodes later is the last one, which leads a spread only alone (it may also trail one); a flaky page that leads a
pair is `transient_failure_sticks`. `QuarantineMayFail = FALSE`: an unreadable
`library.json` can be renamed aside. `LandsAnywhere = FALSE`: an open or an add lands while the reader is
still on the screen that asked for it. `OverlappingChecks = FALSE`: one update check at a time.
`ReplaceOpenBooks = FALSE`: a book file is not replaced while it is being read.

Fairness. `CacheLiveSpec` of `PageCache`, `LiveSpec` of `PageLoader`, `LibraryRequests` and `Thumbnails` and `Spec` of
`Carousel` and `UpdateFlow` assume weak fairness of the workers and of delivery: a closure given to rayon is
run (the pool never drops a task, and workers do not wait for each other) and a closure posted to the event
loop is run. In `UpdateFlow` a download ends because every network phase has a timeout (`update/net.rs`), and
the relaunch timer fires. Nothing is assumed of the reader, so no property says that a page is ever turned or
a dialog ever answered. In `Carousel` the cover cache directory is assumed to exist; without one
`CoverController::start` dispatches nothing and placeholders stay, as its log message says.

Refinements. `LibraryRequests` shows `OpenController` and `AddController` to implement `LatestRequest`
(`NewestOpenLands`, `NewestBatchLands`), where the worker, the slot and the closure of a superseded request
are stuttering. `LibraryOnDisk` shows the store to implement `DurableDocument` (`SaveIsAtomic`), where
`readable` is what a restart may find: the file, the contents a power loss may bring back, and the document
being saved.

## 4. Proofs

The theorems hold for all values of the constants that satisfy the named assumptions.

* `ViewerProofs`, on the spreads: `NavigationInvariant` (types and `IndexIsLeading`; inductive as they stand, from
  the lemmas that `normalize_leading`, `next_leading` and `prev_leading` return leading pages),
  `TurnsContiguous` and `LayoutChangesKeepPage` (action properties from that invariant and
  `NormalizeContains`), `ResumeBringsBack` and `ScrubAgreesWithArrows`. Books of any length, windows of any
  size, scrubbers of any resolution.
* `DecodedPagesProofs`, on the cache: `MarkersExact`, the in-flight markers are exactly what running tasks hold
  and no page is held twice. Inductive with `PrefetchType` and `HoldsOnlyWhileRunning`: a task that has not
  reserved holds nothing, without which a fresh task could free another's markers. `BudgetsAlwaysHold`, one entry
  per page, an exact byte total and both ceilings, and `DecodedPageSurvives`, the entry just inserted is never
  the one evicted, from `StoreInv`. A byte total is the cardinality of the set of numbered bytes of the entries
  (`BytesAreHeld`), so that taking an entry out, moving it or popping a prefix changes it by a lemma about
  finite sets; eviction is the least number of pops that fits the budget (`PoppedIs`, `EvictIs`). Numbers are
  counted up to a bound by a least counterexample (`UpTo`), which also shows that the recursive functions of the
  module exist and satisfy their equations (`IterationExists`).
* `DecodedPagesProofs`, on the viewer: `TypeCorrect` and `OnlyCurrentIsDisplayed`. The strengthening is
  `Generations`: jobs and closures never carry an epoch above the controller's, and those that carry the current
  one carry the current source and target. Each action then either keeps the target, and with it the
  generation, or makes everything under way stale. `ErrorsSparePages`: an error report takes a page off the
  screen only when that page is flaky (section 5). It rests on `ReportInv`: pages that never decode are never HITs,
  so a live job or closure of a spread they lead ends in an error, and no such page is on screen; one led by a page
  that always decodes never ends in an error. `OnlyFlakySpreadsStick`, with no hypothesis, and its consequence
  `PlaceholdersAreAwaited` for instances where no flaky page leads a pair (`FlakyStandAlone`, true in the run and
  false in `transient_failure_sticks`), add `ReservationInv`: a reserved slot has a result on its way, except a
  trailing page that decoded beside a failed leading one, and the report of a failed trailing page is followed by
  that of its leading page.
* `LibraryRequestsProofs`: both controllers implement the safety part of `LatestRequest`, for any number of
  paths, opens and adds. `OpenInvariant` (`OpenInv`) has workers up to the current epoch (`Started`), a closure
  queued at most once and only by a worker that posted (`PostedOnce`), and a slot holding its own worker's path
  between store and drain (`SlotsFull`); with it `take_outcome` returns a result exactly when the newest
  worker's closure is at the head, so each step is an `Ask`, a `Land` or a stutter (`OnlyNewestOpenLands`).
  `BatchesAreWhole` and `OnlyNewestBatchLands` rest on `AddInv`: what is left to count down is the number of
  probes that have not (`Uncounted`, compared by cardinality), so the one that reaches zero finds every
  outcome pushed, posts the one finalize of its batch, and the accumulator it drains is whole.
* `UpdateFlowProofs`: `KeyboardStaysAlive`, for a program whose requests land on a bare library
  (`~LandsAnywhere`), from `KeyInv`, which says what modals can be up together: a delete confirmation only over
  the library and beside the update dialog alone, the shortcuts only over the settings. `InstalledStaysWhole`, `JobsAreVisible` and `SkippedIsQuiet`, with one check at a time
  (`~OverlappingChecks`), from `UpdateInv`: a job and the dialog it committed belong together, the staged and
  the running binary are pieces of one release, and a check under way captured what is stored. Neither
  hypothesis is for convenience: TLC finds each of `InstalledIsWhole`, `OneJobAtATime` and `SkippedStaysQuiet`
  violated with overlapping checks (two jobs write one staged file; a second check captured before the skip).
* `CarouselProofs`: `CarouselInvariant`, `CoversStayOnTheirRows`, `RowsOpenTheirBooks`, `BadgesFollowBooks`
  and `RowsFollowTheFilter`, for any books, queries, moves and generations. `CarouselInv` says that the
  positions are those of the active filter until an empty book is dropped (`PositionsFit`), that the rows are
  the books at those positions with their badges (`RowsInv`), and that a worker of the current generation names
  the book of the row it will fill (`JobsFit`); work of an older generation may say anything, as the guard at
  delivery drops it. The order of the shelf is defined by counting what is below a book (`Ascending`), so that adding
  or removing a book moves positions by lemmas about cardinality.
* `ViewerProofs`, on the viewport, the settings and the preferences of a book: with `ViewSpec`, whose step is any event the page area handles with any sizes, points and zoom factors:
  `PagePlaced` (on each axis a page that fits is centred and a larger one covers the window),
  `RenderedWhereHeld` (the drawn offset is the one the gestures work with) and `GesturesDoNotDrift` (a drag or
  a pinch ends where it would have ended without its intermediate events).
  `RestoredWindowReachable`, `RestoreIsStable` and `WindowNormalized` are about the window, for any stored
  geometry and any monitors; `NormalizeIdempotent`; and with `SettingsSpec` (start, normalise, any control)
  `CacheConfigMirrored`: the cache configuration in memory is the one the saved settings would give, from
  `Mirrored`, which adds the fields a step updates.
  `DifferencesAreMinimal` (an override resolves back to the view it was taken from, and no smaller one does),
  `InheritedFieldsFollow`, `LibraryDialogKeepsTheBook` and `ResetBookInherits` hold for any views and defaults.
* `BookSessionProofs`: every property of the `book_session` run, for any books and page counts, and one more,
  `LibraryIsOnDisk` (no handler returns with an unsaved change of the library). `SessionTypes`,
  `LibraryStaysOnDisk` and `SnapshotStaysWithItsSession` are about `Spec`; the snapshot is inductive once
  `SessionInv` adds that a session names the screen it was opened from and that its dialog is up, and that the dialog
  whose reset button is offered never edits the defaults. `GlobalIsKept`
  and `OwnViewIsKept` are about `AuditSpec`, from `Kept`: while a Library-scope dialog is up the runtime holds the
  global default and the snapshot the book's own view; at any other time the settings and the runtime do.
  `ReopenReturns` adds `PositionInv` (an open book is at one of its spreads) and `MemoryInv` (what was
  remembered at a leave point can be got back from the stored record); it rests on `ResumeReturns`, that the
  page stored for a spread normalises back to it.
* `LibraryOnDiskProofs`: `SavesAreAtomic`, the store implements `DurableDocument` whatever crashes, power
  losses, failed writes and outside damage come between two steps; `BookmarkStaysOnShelf`; `UnreadableIsKept`;
  `OpensInsideTheBook`, `RemovalsAreUndone` (`restore` inverts `remove_many` on any lawful shelf) and `LoadsHeal`. The invariant is `DiskInv`: the shelf in memory and every
  library a restart may find are lawful (one entry per path, a bookmark inside its book), the temp file holds the
  library being saved, and once renamed it is what `main` shows. Every handler is then one idea,
  `Begun(lib)`: the save of a lawful shelf begins (`HandlerBegins`). That a merge at load keeps every path once
  is by counting (`MergedGroup`, `LoadedIsLawful`). `UnreadableIsKept` has the hypothesis `~QuarantineMayFail`, for
  the reason given in section 5, and excepts a step of the outside that replaces one unreadable content by
  another, which is not the program's.

* `ThumbnailsProofs`: `DecodesAreSingle`, nothing is under way for a cell of the live generation that is filled,
  from `WorkInv`: tasks and closures never carry a generation above the strip's, what is under way for the live
  one was requested and its cell still loads, and there is one task or closure of it per page (a second would
  find the cell filled by the first). `CellsAreRight`, a cell shows an image of its
  own page of the open book and of no earlier content, from `ImageInv`, which follows an image from the page
  store, through the disk entries with the key they were written under and the closures, to the cell. It has the
  hypothesis `~ReplaceOpenBooks`, for the reason given in section 5.

Every safety property of a passing run that is not about a pure module is a theorem, and so are those of the pure
modules named above. Only model-checked: the other pure modules of section 2, whose recursive functions TLC
evaluates on bounded inputs; and all liveness (`ENABLED` is out of the prover's reach), which includes the
liveness half of `LatestRequest`.

## 5. Where code and documents disagree

With a run (`PROJECT.json`, findings):

* `transient_failure_sticks`: after a partial failure one reservation is never released; if the page decodes later
  the spread waits for a worker that is gone (page_loader.rs:169-170).
* `stale_projection`: dropping an empty book rebuilds the rows from positions computed before the removal
  (carousel_refresh.rs:189-192 and 258-259). For the same reason the focused index can end up past the last row
  (carousel_refresh.rs:99-105).
* `overlapping_checks`: the answer of a second check clears the busy flag of a running download
  (update/dialog.rs:22-24). Two jobs then also share one file in Downloads.

With a named assumption of `MCAlgorithms`, true of the code as it is:

* `UnreadableProbesEmpty`: a folder that cannot be listed and an archive with only damaged entries open as
  empty and are dropped from the shelf as such (folder.rs:49-71, rar.rs:79-86), while docs/patterns.md:1037,
  docs/ADRs/0009:37-38 and docs/architecture.md:106 keep unreadable and empty apart.
* `DecodeWipesNotices`: the notices of an open are overwritten by the status line of its first decode
  (docs/patterns.md:458 and 921 against `apply_spread_geometry` in main.rs).
* `FailedSaveHidesSkips`: when the save of an add fails, the count of refused books is not shown
  (docs/patterns.md:210).
* `RefusedOpenHidesLeaveFailure`: the failed save of the outgoing position is reported only if the open succeeds.
* `DroppedBookStillCounted`: a selected book that was dropped as empty is still counted by the delete dialog.
* `RepairOverwritesUnread` and `CorruptIsNotRewritten`: the settings repair at startup writes defaults over a
  file that could not be read nor renamed aside (persist.rs:24-28), and does not rewrite one that was renamed
  (main.rs:163-170).
* `ClearTakesRunningWrites`: clearing the thumbnail cache removes temporary files of writes under way.

Known limits a constant or a history variable sets aside:

* Removing or losing the open book leaves its view modes in the runtime; quitting then makes them the global
  default (ADR-0007:16-17). A failed open ends the dialog session but not the dialog; closing it then treats
  the book's view as the edited defaults (dialog_session.rs:72-73). `asked` becomes `Untracked` there.
* An open or an add that lands after the reader opened a modal or went elsewhere moves focus under it
  (`LandsAnywhere`; docs/patterns.md on focus, handlers/update.rs:62-72).
* A book file replaced while it is open has its new bytes cached under the page numbers of the old list
  (`ReplaceOpenBooks`). A page overwritten in a folder does not change the folder's modification time, so its
  old thumbnail stays.
* When an unreadable `library.json` cannot be renamed aside, the next save replaces it (`QuarantineMayFail`).

* An error report of the live generation that lands after a prefetch has decoded the page and a refresh of the
  same spread has painted it blanks the page (page_loader.rs:347-365; `on_page_decode_error`), until the next
  refresh. The run has this case, with the last page; no property forbids it, and docs/patterns.md:54-56 only says
  that an error clears the view. `ErrorsSparePages` says that no other page is exposed to it.
* An automatic check under way while the answer of a manual one is skipped offers that version once more, since
  it decides with the skipped version it captured (`OverlappingChecks`; handlers/update.rs:121-139).
* A thumbnail's key has the modification time of its source in whole seconds, and 0 when it cannot be read
  (thumbnail_cache.rs:11-18). `Thumbnails` takes it to tell the versions of a file apart: a file written again
  within the second it was read, or whose time cannot be read, keeps its old thumbnails.

Noticed while modelling, without a check of their own:

* A page may be decoded twice: dispatches are deduplicated (docs/scope.md:188-189), but a prefetch and a viewer
  worker are two decoders, and the lock is released between the two checks of `decode_and_cache`.
* A progress tick of a bulk add can land after the finalize and raise the hairline again: `PostProgress` and
  `PostAddFinalize` of different workers are not ordered (ViewerWindow.slint:103).
* A mode edited in the Library dialog repaints the viewer; closing the dialog restores the book's modes without a
  repaint (docs/architecture.md:769-770). The edit also moves the index when the book's own layout is restored.
* A page count queued by a superseded worker waits for the next start and can then replace a newer one
  (page_count_prefetch.rs:77-79 says a stale push is skipped; the check and the push are two steps).
* The cover requests are built before the resolved counts are applied (carousel_refresh.rs:197-250), so a book
  whose count is already known is opened once more only to count it.
* A strip wider than its first 16 cells, or scrolled when it is bound, gets no visible-range event until it moves
  (thumbnail_strip.rs:47-51). A sweep counts a file it failed to unlink as retained.
* The origins of a finished drag and pinch stay set until the next one begins.

## 6. Not modelled, and what is left

* The Slint views, themes and translations: layout and wording. `Surfaces` has what they say about focus, and
  the callbacks they fire are the actions of the modules. The operators of `Reports` and `ReaderChrome` keep a
  message as its id with its numbers.
* Image codecs and resampling, the zip and unrar libraries, the file system and the network: external, and
  modelled only by the answers the code handles.
* The closures that wire callbacks to handlers, getters, test doubles and the construction of objects: no
  state changes of their own. About half of the repository's Rust lines are tests written beside the code, so
  the share of the program's own lines that is mapped is about twice the share of all lines.
* Packaging, scripts and the web site, which are not part of the running program.
* Left to do: the retries of the window restore while the platform window is not realised; language changes.
