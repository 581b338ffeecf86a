--------------------------- MODULE MCAlgorithms ----------------------------
(***************************************************************************)
(* Bounded checks of the algorithms that keep no state of their own: the   *)
(* page area's geometry, the settings, the order of names, the page        *)
(* sources, the texts, the covers in memory and the files of a release.    *)
(* Each ASSUME compares an operator with what it promises on every input   *)
(* of a small set; TLC evaluates them before the first state of every run  *)
(* whose module extends this one.                                          *)
(***************************************************************************)
EXTENDS Viewport, AppSettings, NaturalOrder, PageSources, Reports, CoverMemory,
        UpdateAssets

-----------------------------------------------------------------------------
(* Viewport: every view within two events of a book being opened.           *)

Boxes == [Axes -> {0, 3, 7}]
Anchors == [Axes -> {-4, 0, 5}]
PinchScales == {0, 1, 5}

Opened == {resize(set_content(from_settings(m), c), w) :
             m \in FitModes, c \in Boxes, w \in Boxes}
Reached == LET after(S) == UNION {Handle(v, {[x |-> 7, y |-> 3]}, Anchors, PinchScales) : v \in S}
           IN  Opened \cup after(Opened)

AxisPlaced(disp, vp, o) ==
  IF disp <= vp THEN o = (vp - disp) \div 2 ELSE vp - disp <= o /\ o <= 0

\* No zoom, pan, pinch, resize or page change leaves a gap beside a page that
\* overflows or moves one that fits off centre.
ASSUME PagePlacedOnInstance ==
  \A v \in Reached :
    /\ v.zoom \in ZOOM_MIN .. ZOOM_MAX
    /\ \A a \in Axes : AxisPlaced(displayed(v)[a], v.vp_size[a], v.offset[a])
    /\ geometry(v).offset = v.offset

\* fit_scale is the largest scale at which the page fits: whole, or by width.
ASSUME FitFills ==
  \A c \in Boxes, w \in Boxes :
    (\A a \in Axes : c[a] > 0 /\ w[a] > 0) =>
      LET scaled(mode, a) == [num |-> c[a] * fit_scale(c, w, mode).num,
                             den |-> fit_scale(c, w, mode).den]
          fills(s, a) == s.num = w[a] * s.den
          within(s, a) == s.num <= w[a] * s.den
      IN  /\ \A a \in Axes : within(scaled("Whole", a), a)
          /\ \E a \in Axes : fills(scaled("Whole", a), a)
          /\ fills(scaled("Width", "x"), "x")

-----------------------------------------------------------------------------
(* Settings. *)

SomeWindows == {[width |-> w, height |-> h, x |-> x, y |-> 0] :
                  w \in {0, 4, 9}, h \in {1, 9}, x \in {-5, 0, 6}}
SomeLists == UNION {[1 .. n -> {"a", "b", "c", "d"}] : n \in 0 .. 3}

\* The recent list never holds a source twice, never outgrows its cap, and the
\* source just opened is its head.
ASSUME RecentListKept ==
  \A list \in SomeLists, p \in {"a", "e"} :
    LET before == [recent_sources |-> list, track_recent_sources |-> TRUE]
        after == push_recent(before, p).recent_sources
    IN  IsInjective(list) =>
          /\ after[1] = p /\ IsInjective(after)
          /\ Len(after) <= MAX_RECENT_SOURCES
          /\ push_recent(push_recent(before, p), p) = push_recent(before, p)

\* A combo box seeded from the value in force and committed unchanged is a
\* no-op, and an index outside its model falls back to the first entry.
ASSUME ControlsRoundTrip ==
  \A order \in {ReadingDirections, SpreadModeOrder, CoverModeOrder, FitModeOrder, Languages} :
    /\ \A k \in DOMAIN order : index_to(order, to_index(order, order[k])) = order[k]
    /\ \A i \in {-1, Len(order), 99} : index_to(order, i) = order[1]

\* A normalised window is within both bounds, or is forgotten.
ASSUME StoredWindowSane ==
  \A g \in SomeWindows :
    LET w == normalize_window(g, NoWindow)
    IN  w = NoWindow \/ (Floored(w) /\ is_size_within_max(w))

-----------------------------------------------------------------------------
(* Names: 0, 1, 2 (code points 48 .. 50), A, a and b.                        *)

Characters == {48, 49, 50, 65, 97, 98}
Names(n) == UNION {[1 .. k -> Characters] : k \in 0 .. n}

\* natural_cmp is a total order: only equal names compare equal, swapping the
\* arguments swaps the result, and it is transitive.
ASSUME OrderIsAntisymmetric ==
  \A a \in Names(3), b \in Names(3) :
    /\ natural_cmp(a, b) = -natural_cmp(b, a)
    /\ natural_cmp(a, b) = 0 <=> a = b

ASSUME OrderIsTransitive ==
  \A a \in Names(2), b \in Names(2) :
    natural_cmp(a, b) < 0 =>
      \A c \in Names(2) : natural_cmp(b, c) < 0 => natural_cmp(a, c) < 0

\* Numbers by value whatever their zeros, before the letters around them: page
\* 2 before page 10, and 02 next to 2.
NumberOf(run) == FoldLeft(LAMBDA v, c : 10 * v + (c - 48), 0, run)
ASSUME NumbersByValue ==
  \A a \in UNION {[1 .. k -> {48, 49, 50}] : k \in 1 .. 4},
     b \in UNION {[1 .. k -> {48, 49, 50}] : k \in 1 .. 4} :
    NumberOf(a) < NumberOf(b) => natural_cmp(a, b) = -1

-----------------------------------------------------------------------------
(* Page sources. *)

MaxBytes == 2
Plain == [name |-> 1, path |-> <<"page.png">>, dir |-> FALSE, readable |-> TRUE,
          declared |-> 1, actual |-> 1, data |-> "p"]
Variants ==
  {Plain, [Plain EXCEPT !.name = 2, !.data = "q"],
   [Plain EXCEPT !.path = <<Current, "dir", "page.png">>],
   [Plain EXCEPT !.path = <<"__MACOSX", "page.png">>],
   [Plain EXCEPT !.path = <<"dir", Parent, "page.png">>],
   [Plain EXCEPT !.dir = TRUE], [Plain EXCEPT !.readable = FALSE],
   [Plain EXCEPT !.declared = 3], [Plain EXCEPT !.actual = 3]}
InDirectory(entries) ==
  /\ \A i \in DOMAIN entries : Len(entries[i].path) = 1
  /\ \A i, j \in DOMAIN entries : entries[i].name = entries[j].name => i = j
Listings == UNION {[1 .. n -> Variants] : n \in 0 .. 3}
\* The names of a directory are plain and distinct; an archive's may be nested and
\* repeated.
Possible(format, entries) == format = "folder" => InDirectory(entries)

IsPage(e) ==
  /\ e.readable /\ ~e.dir /\ e.declared <= MaxBytes
  /\ e.path[Len(e.path)] = "page.png"
  /\ \A i \in DOMAIN e.path : e.path[i] \notin {Parent, "__MACOSX"}

\* The pages are the entries that are readable images of an admissible size and
\* name, in natural order; each of the others is a counted skip or noise.
ASSUME PagesAreTheImages ==
  \A format \in Formats : \A entries \in Listings :
    Possible(format, entries) =>
      LET source == Source(format, entries, MaxBytes)
          listed == Listed(format, entries)
      IN  /\ {source.pages[k].at : k \in DOMAIN source.pages}
               = {i \in DOMAIN listed : IsPage(listed[i])}
          /\ \A j, k \in DOMAIN source.pages :
               j < k => source.pages[j].name <= source.pages[k].name
          /\ Len(source.pages) + source.skipped <= Len(entries)

\* A read of the unchanged file returns the page that was listed, or refuses it;
\* whatever the file holds by then, nothing longer than the limit is returned.
ASSUME ReadsWhatWasListed ==
  \A format \in Formats : \A entries \in Listings :
    Possible(format, entries) =>
      LET source == Source(format, entries, MaxBytes)
      IN  \A k \in DOMAIN source.pages :
            LET e == entries[source.pages[k].at]
            IN  format # "rar" \/ ~source.truncated =>
                  read_bytes(source, entries, k - 1)
                    = IF e.actual > MaxBytes THEN "EntryTooLarge" ELSE e.data

ASSUME ReadsAreBounded ==
  \A format \in Formats :
    \A entries \in [1 .. 2 -> Variants], now \in [1 .. 2 -> Variants] :
      Possible(format, entries) /\ Possible(format, now) =>
        LET source == Source(format, entries, MaxBytes)
            got(k) == read_bytes(source, now, k)
        IN  \A k \in 0 .. 2 :
              got(k) \in {"p", "q"} => \E i \in DOMAIN now :
                                          now[i].data = got(k) /\ now[i].actual <= MaxBytes

\* A RAR cut short by a damaged header keeps, and can still read, every page
\* before the damage.
ASSUME TruncatedKeepsItsPages ==
  \A entries \in Listings :
    LET source == Source("rar", entries, MaxBytes)
    IN  \A k \in DOMAIN source.pages :
          read_bytes(source, entries, k - 1) \in {"p", "q", "EntryTooLarge"}

\* Known divergence: archive_loader.rs says an unreadable source is never
\* classified as empty.  A folder that cannot be listed, a RAR whose first header
\* is damaged and a ZIP with only damaged entries all are.
Damage == <<[Plain EXCEPT !.readable = FALSE]>>
APath == [utf8 |-> TRUE, dir |-> FALSE, ext |-> "none", magic |-> "none",
          opens |-> TRUE, entries |-> Damage]
ASSUME UnreadableProbesEmpty ==
  /\ probe_page_count([APath EXCEPT !.dir = TRUE], TRUE, MaxBytes) = "EmptyBook"
  /\ probe_page_count([APath EXCEPT !.ext = "rar"], TRUE, MaxBytes) = "EmptyBook"
  /\ probe_page_count([APath EXCEPT !.ext = "zip"], TRUE, MaxBytes) = "EmptyBook"

\* RAR is refused by the policy whether its name or its bytes give it away, and
\* before the file is opened as an archive.
ASSUME PolicyCannotBeDodged ==
  \A ext \in {"rar", "none"}, opens \in BOOLEAN :
    probe_page_count([APath EXCEPT !.ext = ext, !.magic = "rar", !.opens = opens],
                     FALSE, MaxBytes) = "FormatDisabled"

-----------------------------------------------------------------------------
(* What the reader is told. *)

Spread == <<"pages">>
Told(o) == finalize_open(<<>>, Spread, apply_probed(o))
Mentions(text, part) == \E i \in DOMAIN text : text[i] = part

\* A book that opens names every save of its open that failed, a lost listing
\* and what was skipped, and nothing that did not happen.
ASSUME OpenedNamesItsFailures ==
  \A o \in Opens :
    apply_probed(o).outcome = "Success" =>
      /\ Mentions(Told(o), "failed_save_library") <=> "failed" \in {o.leave, o.library}
      /\ Mentions(Told(o), "failed_save_settings") <=> o.settings = "failed"
      /\ Mentions(Told(o), "listing_truncated") <=> o.truncated
      /\ Mentions(Told(o), "entries_skipped") <=> o.skipped > 0

\* Known limit: the position of the book that was open is saved before the probe's
\* outcome is looked at, and when the open fails or is refused, the failure of
\* that save is told nobody.
ASSUME RefusedOpenHidesLeaveFailure ==
  \E o \in Opens :
    /\ apply_probed(o).outcome # "Success" /\ o.leave = "failed"
    /\ ~Mentions(Told(o), "failed_save_library")

\* Known divergence: the notices are appended after refresh so that they are not
\* overwritten, but a new book's pages are never decoded yet, and the decode that
\* refresh starts overwrites them when it lands.
ASSUME DecodeWipesNotices ==
  \A o \in Opens :
    apply_probed(o).outcome = "Success" => spread_anchored(Told(o), Spread) = Spread

\* Known divergence: a save that fails hides how many of the picked books were
\* refused, which it is documented to come on top of.
ASSUME FailedSaveHidesSkips ==
  \A added \in 1 .. 2, skipped \in 1 .. 2 :
    apply_add_report(added, skipped, "failed") = apply_add_report(added, 0, "failed")

\* Every failure of an add is on the toast and every neutral answer on the strip.
ASSUME AddFailuresOnToast ==
  \A added \in 0 .. 2, skipped \in 0 .. 2, save \in Saves :
    apply_add_report(added, skipped, save).toast # <<>>
      <=> skipped > 0 \/ (added > 0 /\ save = "failed")

\* As long as every selected book is on the shelf, the delete dialog accounts for
\* exactly the books that confirming removes, the hidden ones included.
ASSUME DialogCountsWhatIsRemoved ==
  \A shelf \in SUBSET (1 .. 4) : \A selection \in SUBSET shelf, visible \in SUBSET shelf :
    LET dialog == confirm_delete_content(selection, visible, shelf, 1)
        removed == removed_by(selection, shelf)
    IN  /\ dialog.title = Cardinality(removed)
        /\ dialog.titles + dialog.more = Cardinality(removed)
        /\ dialog.outside_search = Cardinality(removed \ visible)
        /\ dialog.warning <=> 1 \in removed

\* Known limit: a selected book that is dropped from the shelf as empty stays in
\* the selection, and the dialog then counts a book that is not removed and calls
\* it outside the search.
ASSUME DroppedBookStillCounted ==
  LET dialog == confirm_delete_content({1, 2}, {1}, {1}, 0)
  IN  dialog.title = 2 /\ dialog.outside_search = 1 /\ removed_by({1, 2}, {1}) = {1}

-----------------------------------------------------------------------------
(* Covers in memory. *)

Budget == 4
CoverSteps == [key : 1 .. 3, bytes : {0, 2, 3, 5}]    \* 0 stands for a get
AfterSteps(steps) ==
  FoldLeft(LAMBDA c, e : IF e.bytes = 0 THEN touch_cover(c, e.key)
                         ELSE insert_cover(c, e.key, e.bytes, Budget), NoCovers, steps)

\* The running total is the bytes that are held, a cover is held once, the
\* budget is kept unless one cover alone exceeds it, and the newest is there.
ASSUME CoverBudgetKept ==
  \A steps \in [1 .. 4 -> CoverSteps] :
    LET c == AfterSteps(steps)
        newest == steps[4]
    IN  /\ c.total_bytes = FoldLeft(LAMBDA n, e : n + e.bytes, 0, c.lru)
        /\ \A i, j \in DOMAIN c.lru : c.lru[i].key = c.lru[j].key => i = j
        /\ c.total_bytes <= Budget \/ Len(c.lru) = 1
        /\ newest.bytes > 0 => c.lru[Len(c.lru)] = newest

\* A cover touched on this pass outlives every other one when room is needed.
ASSUME TouchedSurvives ==
  \A a, b \in 1 .. 2 :
    a # b =>
      LET both == insert_cover(insert_cover(NoCovers, a, 2, Budget), b, 2, Budget)
          after == insert_cover(touch_cover(both, a), 3, 2, Budget)
      IN  HasCover(after, a) /\ ~HasCover(after, b)

-----------------------------------------------------------------------------
(* The files of a release. *)

ReleaseName(words, ext) == [words |-> words, ext |-> ext]
PublishedNames ==
  {ReleaseName({"macos"}, "zip"), ReleaseName({"windows"}, "zip"), ReleaseName({}, "deb"),
   ReleaseName({}, "appimage")}
File(n) == [name |-> n, bytes |-> n]
Sums(listed) ==
  [name |-> SumsName, lines |-> <<[hash |-> "blank"]>>
                                 \o [i \in DOMAIN listed |-> [hash |-> listed[i], name |-> listed[i]]]]
FormOf(n) ==
  CASE n.ext = "appimage" -> "LinuxAppImage" [] n.ext = "deb" -> "LinuxDeb"
    [] n.words = {"macos"} -> "MacOsApp" [] OTHER -> "WindowsPortable"
Intact == [n \in PublishedNames |-> n]

\* From any subset of the published files in any order, an installation saves the
\* file of its own form, if the release has it and its checksum, and nothing else.
ASSUME TakesItsOwnFile ==
  \A names \in SUBSET PublishedNames : \A order \in SetToSeqs(names) :
    \A listed \in {order, <<>>}, pkg \in Packagings :
      LET assets == [i \in DOMAIN order |-> File(order[i])]
          got == download_and_verify(pkg, Append(assets, Sums(listed)), Intact)
          own == {n \in names : FormOf(n) = pkg}
      IN  IF own = {} THEN got = "no matching asset"
          ELSE IF listed = <<>> THEN got = "not listed"
          ELSE got \in own

\* Bytes that do not have the listed checksum are never saved.
ASSUME DamagedIsRefused ==
  \A n \in PublishedNames :
    LET damaged == [b \in PublishedNames |-> "other"]
        sums == [name |-> SumsName, lines |-> <<[hash |-> "its hash", name |-> n]>>]
    IN  download_and_verify(FormOf(n), <<File(n), sums>>, damaged) = "mismatch"

\* An AppImage runs from a mounted image, wherever that looks to be: it is
\* recognised first, and replaces itself.
ASSUME AppImageFirst ==
  \A exe \in [bundle : BOOLEAN, exe : BOOLEAN, usr : BOOLEAN] :
    strategy_of(detect_packaging(exe, TRUE)) = "SelfReplace"

\* The program is taken from the first entry of an archive that is one, whatever
\* folder it is in, unless the archive is damaged before it.
ASSUME TakesTheProgram ==
  LET Entry(exe, readable, path) == [exe |-> exe, readable |-> readable, path |-> path]
      readme == Entry(FALSE, TRUE, <<"README">>)
      program == Entry(TRUE, TRUE, <<"release", "gashuu.exe">>)
      broken == Entry(FALSE, FALSE, <<>>)
  IN  /\ extract_exe_from_zip(<<readme, program, broken>>) = "gashuu.exe"
      /\ extract_exe_from_zip(<<broken, program>>) = "unreadable entry"
      /\ extract_exe_from_zip(<<readme>>) = "no .exe entry"

-----------------------------------------------------------------------------
(* The two probes of a source. *)

\* A file the bulk add counts opens with pages; one it skips as empty opens too,
\* without a page, and is rejected when it lands; every other one fails.
ASSUME ProbesAgree ==
  \A ext \in {"zip", "rar", "none"}, magic \in {"zip", "rar", "none", "unreadable"} :
    \A dir, utf8, opens, allow_rar \in BOOLEAN : \A entries \in {<<>>, <<Plain>>, Damage} :
      LET path == [utf8 |-> utf8, dir |-> dir, ext |-> ext, magic |-> magic,
                   opens |-> opens, entries |-> entries]
          open == probe_open(path, allow_rar, MaxBytes)
          add == probe_path(path, allow_rar, MaxBytes)
      IN  /\ open.kind = "Opened" <=> add \in {"Counted", "Empty"}
          /\ open.kind = "Opened" =>
               (open.source.pages # <<>> <=> add = "Counted")
          /\ add = "FormatDisabled" => ~allow_rar

-----------------------------------------------------------------------------
(* The cache directory. *)

F == INSTANCE CacheFiles

Now == 10000
CacheFile(name, temp, ext, size, mtime, held) ==
  [name |-> name, temp |-> temp, ext |-> ext, regular |-> TRUE, size |-> size,
   mtime |-> mtime, held |-> held]
CacheDirectory ==
  {CacheFile(1, FALSE, "qoi", 2, 0, FALSE), CacheFile(2, FALSE, "qoi", 1, 0, FALSE),
   CacheFile(3, FALSE, "qoi", 3, 5, TRUE), CacheFile(4, FALSE, "qoi", 1, 9, FALSE),
   CacheFile(5, FALSE, "png", 2, Now, FALSE), CacheFile(6, TRUE, "none", 1, Now - 3599, FALSE),
   CacheFile(7, TRUE, "none", 1, Now - 3600, FALSE), CacheFile(8, FALSE, "txt", 4, 0, FALSE),
   [CacheFile(9, FALSE, "qoi", 4, 0, FALSE) EXCEPT !.regular = FALSE]}
Young == {f \in CacheDirectory : f.temp /\ f.mtime > Now - F!TMP_STALE_SECS}
Thumbnail(f) == f.regular /\ ~f.temp /\ f.ext = "qoi"

\* A sweep leaves the newest thumbnails that fit, as far as files let themselves be
\* unlinked: no thumbnail goes while an older one that could go stays, nothing goes
\* that fits, and what it reports as kept is what is there.
ASSUME SweepKeepsTheNewest ==
  \A dir \in SUBSET CacheDirectory, max \in 0 .. 8 :
    LET swept == F!prune(dir, max, Now)
        left == {f \in dir \ swept.removed : Thumbnail(f)}
        evicted == {f \in swept.removed : Thumbnail(f)}
        older(a, b) == a.mtime < b.mtime \/ (a.mtime = b.mtime /\ a.name < b.name)
    IN  /\ swept.retained_bytes = F!Bytes(left)
        /\ swept.retained_bytes <= max \/ \A f \in left : f.held
        /\ \A f \in left, e \in evicted : f.held \/ older(e, f)
        /\ \A e \in evicted : (\A o \in evicted : o = e \/ older(o, e)) =>
             swept.retained_bytes + e.size > max

\* Neither sweep touches a file of another program, a folder, or one that is held;
\* the one at startup spares the write of another process that is under way.
ASSUME SweepsSpareOthers ==
  \A dir \in SUBSET CacheDirectory, max \in {0, 3} :
    LET swept == F!prune(dir, max, Now).removed
        spared == {f \in dir : ~f.regular \/ f.held \/ f.ext = "txt"}
    IN  /\ (swept \cup F!clear(dir)) \cap spared = {}
        /\ swept \cap Young = {}
        /\ dir \ F!clear(dir) = spared

\* Clearing the history keeps every cover when the emptied library could not be
\* saved, and the figures of the other button are of files that are gone.
ASSUME ClearedOnlyWhenSaved ==
  \A dir \in SUBSET CacheDirectory, opened \in BOOLEAN :
    LET asked == F!on_clear_cover_cache(opened, dir)
    IN  /\ F!clear_thumbnail_cache_after_library_save(FALSE, opened, dir) = dir
        /\ F!clear_thumbnail_cache_after_library_save(TRUE, opened, dir) = asked.dir
        /\ opened => asked.status = F!Report(dir \ asked.dir)

\* Known limit: the names of interrupted writes and of writes under way are the
\* same, and clearing the cache removes the latter too; that write then fails and
\* the page is made again later.
ASSUME ClearTakesRunningWrites == Young # {} /\ Young \subseteq F!clear(CacheDirectory)

-----------------------------------------------------------------------------
(* A start of the program. *)

StartRadius == 5
S == INSTANCE Startup WITH SETTINGS_VERSION <- 1, MAX_PREFETCH_RADIUS <- StartRadius

AllCan == [resolve |-> TRUE, rename |-> TRUE, save |-> TRUE]
Objects == [body : {"object"}, version : {-1, 0, 1, 2, 10}, preload : {-2, -1, 0, 3, 5, 7},
            canonical : BOOLEAN]
\* A canonical file is one that to_json wrote.
SettingsFiles ==
  {S!Missing, [body |-> "unreadable"], [body |-> "not an object"]}
    \cup {f \in Objects : f.canonical => f = S!to_json(S!normalize(f.preload)) /\ f.preload >= 0}
Lost(file) == ~S!IsOk(S!load(file))
Calls == [resolve : BOOLEAN, rename : BOOLEAN, save : BOOLEAN]

\* A start always has settings within their bounds; it keeps what it cannot read
\* and says so; and the next start, on what it left, finds the same settings and
\* nothing more to do.
ASSUME StartSettles ==
  \A file \in SettingsFiles :
    LET s == S!start(file, AllCan)
        again == S!start(s.file, AllCan)
    IN  /\ s.settings \in 0 .. StartRadius
        /\ s.aside = IF Lost(file) THEN {file} ELSE {}
        /\ s.notices = <<>> <=> ~Lost(file)
        /\ again = [s EXCEPT !.aside = {}, !.notices = <<>>]

\* No start creates a file, and a call that fails is told, except a rename aside,
\* whose failure only shortens the notice.
ASSUME StartCreatesNothing ==
  \A file \in SettingsFiles, can \in Calls :
    LET s == S!start(file, can)
    IN  /\ file = S!Missing => s.file = S!Missing
        /\ ~can.resolve => s.file = file /\ s.notices # <<>>
        /\ s.file # S!Missing /\ s.file # S!to_json(s.settings) => s.notices # <<>>

\* Known divergence: a file that this build must not save over (persist.rs), and
\* that could not be renamed aside, is rewritten with the defaults a moment later.
ASSUME RepairOverwritesUnread ==
  \A file \in SettingsFiles :
    Lost(file) => S!start(file, [AllCan EXCEPT !.rename = FALSE]).file = S!to_json(S!Default)

\* Known divergence: the repair is said to rewrite a corrupt file with the
\* defaults it recovered to; that file has been renamed aside by then, and none
\* is written.
ASSUME CorruptIsNotRewritten ==
  \A file \in SettingsFiles : Lost(file) => S!start(file, AllCan).file = S!Missing

-----------------------------------------------------------------------------
(* Images. *)

I == INSTANCE ImageLimits

Limits == [max_pixels |-> 12, max_side |-> 8, max_alloc |-> 48]
ImageFiles ==
  [format : {"png", "avif", "unknown"}, header : BOOLEAN, data : BOOLEAN,
   width : 1 .. 9, height : 1 .. 9, depth : {3, 4, 8}]

\* Whatever the format and its decoder, what is decoded is within every limit and
\* has the bytes its size asks for; and all that is refused is over a limit or
\* damaged.
ASSUME DecodedIsBounded ==
  \A f \in ImageFiles :
    LET within == f.width * f.height <= Limits.max_pixels /\ I!WithinReaderLimits(f, Limits)
    IN  I!decode_dynamic(f, Limits) = "decoded"
          <=> f.format # "unknown" /\ f.header /\ f.data /\ within

\* The byte count of a decoded image is never off, even where the product of its
\* sides does not fit a machine word, which no buffer can be as long as.
ASSUME SizeMatchesBytes ==
  \A len \in 0 .. 14, w, h \in 0 .. 5 :
    I!new(len, w, h, 15).kind = "DecodedImage" => len = 4 * w * h

\* A thumbnail is never larger than asked nor than the image, is never empty, and
\* its longer edge is the one asked for when the image is larger.
ASSUME ThumbnailFits ==
  \A w, h \in 1 .. 12, side \in 1 .. 6 :
    LET f == [format |-> "png", header |-> TRUE, data |-> TRUE, width |-> w, height |-> h, depth |-> 4]
        t == I!decode_thumbnail(f, side, [max_pixels |-> 200, max_side |-> 20, max_alloc |-> 800])
    IN  /\ t.width \in 1 .. w /\ t.height \in 1 .. h
        /\ t.width <= side /\ t.height <= side
        /\ (w > side \/ h > side) => side \in {t.width, t.height}
=============================================================================
