---------------------------- MODULE AppSettings -----------------------------
(***************************************************************************)
(* The settings aggregate of crates/gashuu-core/src/settings.rs with the   *)
(* cache configuration it validates (cache_config.rs), the controls of the *)
(* settings dialog (handlers/settings.rs, enum_adapters.rs) and the recent *)
(* list written by an open (open_book.rs).  The four view modes are        *)
(* BookSession's; the fields here are the ones with a bound or a list.     *)
(* An operation maps the application's value                               *)
(*   [settings, cache_config] to its next value.                           *)
(***************************************************************************)
EXTENDS WindowGeometry

CONSTANTS
  SETTINGS_VERSION,
  MAX_CACHE_CAPACITY, MAX_PREFETCH_RADIUS, MAX_RECENT_SOURCES,
  NoWindow               \* no stored geometry (a model value)

ASSUME SettingsAssumption ==
  /\ MAX_CACHE_CAPACITY \in Nat \ {0}
  /\ MAX_PREFETCH_RADIUS \in Nat
  /\ MAX_RECENT_SOURCES \in Nat \ {0}
  /\ NoWindow \notin Geometries

Capped(n, hi) == IF n > hi THEN hi ELSE n

\* CacheConfig::new.
CacheConfig(capacity, radius) ==
  [capacity |-> AtLeast(Capped(capacity, MAX_CACHE_CAPACITY), 1),
   radius |-> Capped(radius, MAX_PREFETCH_RADIUS)]

\* Settings::cache_config.
cache_config_of(s) == CacheConfig(s.cache_capacity, s.prefetch_radius)

Truncated(list) ==
  IF Len(list) <= MAX_RECENT_SOURCES THEN list
  ELSE SubSeq(list, 1, MAX_RECENT_SOURCES)

\* Settings::normalize.
normalize(s) ==
  [s EXCEPT
    !.version = SETTINGS_VERSION,
    !.cache_capacity = cache_config_of(s).capacity,
    !.prefetch_radius = cache_config_of(s).radius,
    !.recent_sources = Truncated(@),
    !.window = IF @ = NoWindow THEN @ ELSE normalize_window(@, NoWindow)]

\* Settings::from_json of a parsed object; a document of a later version is
\* an error.  migrate only stamps the version and fills absent fields.
from_json(doc, FutureSchema) ==
  IF doc.version > SETTINGS_VERSION THEN FutureSchema ELSE normalize(doc)

\* Settings::push_recent: most recent first, each source once, capped.
push_recent(s, path) ==
  IF ~s.track_recent_sources THEN s
  ELSE [s EXCEPT !.recent_sources =
          Truncated(<<path>> \o SelectSeq(@, LAMBDA p : p # path))]

-----------------------------------------------------------------------------
(* The controls of the dialog.  A combo box speaks in indices; the orders   *)
(* below are the ones its model is declared in.                             *)

ReadingDirections == <<"Ltr", "Rtl">>
SpreadModeOrder == <<"Single", "Double", "Auto">>
CoverModeOrder == <<"Standalone", "Paired">>
FitModeOrder == <<"Whole", "Width", "Actual">>
Languages == <<"En", "Ja">>

\* *_to_index: total, from 0.  index_to_*: any other index is the first value.
to_index(order, value) == (CHOOSE k \in DOMAIN order : order[k] = value) - 1
index_to(order, i) == IF i + 1 \in DOMAIN order THEN order[i + 1] ELSE order[1]

\* One mode set from its combo box: a control that names the value in force
\* (as a combo box does when it is seeded) neither changes nor redraws.
SetFromIndex(view, field, order, i) ==
  LET value == index_to(order, i)
  IN  IF view[field] = value THEN view
      ELSE [view EXCEPT ![field] = value, !.refreshed = TRUE]

on_set_reading_direction(view, i) ==
  SetFromIndex(view, "reading_direction", ReadingDirections, i)
on_set_cover_mode(view, i) ==
  SetFromIndex(view, "cover_mode", CoverModeOrder, i)
on_set_fit_mode(view, i) ==
  SetFromIndex(view, "fit_mode", FitModeOrder, i)
on_set_spread_mode(view, i) ==
  SetFromIndex(view, "spread_mode", SpreadModeOrder, i)
on_set_language(view, i) ==
  SetFromIndex(view, "language", Languages, i)

\* on_open_settings seeds every combo box from the value in force.
shown(view) ==
  [reading_direction |-> to_index(ReadingDirections, view.reading_direction),
   spread_mode |-> to_index(SpreadModeOrder, view.spread_mode),
   cover_mode |-> to_index(CoverModeOrder, view.cover_mode),
   fit_mode |-> to_index(FitModeOrder, view.fit_mode),
   language |-> to_index(Languages, view.language)]

-----------------------------------------------------------------------------
(* The application's value: what is persisted and what new books are opened *)
(* with.                                                                     *)

\* main: the settings are loaded, the viewer state takes its configuration
\* from them.
Boot(s) == [settings |-> s, cache_config |-> cache_config_of(s)]

\* The value read back from the validated configuration is what is kept.
on_set_cache_size(app, v) ==
  LET cfg == CacheConfig(AtLeast(v, 1), app.settings.prefetch_radius)
  IN  [app EXCEPT !.settings.cache_capacity = cfg.capacity, !.cache_config = cfg]

on_set_preload_pages(app, v) ==
  LET cfg == CacheConfig(app.settings.cache_capacity, AtLeast(v, 0))
  IN  [app EXCEPT !.settings.prefetch_radius = cfg.radius, !.cache_config = cfg]

on_set_track_recent(app, b) == [app EXCEPT !.settings.track_recent_sources = b]

\* OpenBookUseCase::record_recent, before the settings are saved.
record_recent(app, path) == [app EXCEPT !.settings = push_recent(@, path)]

\* on_clear_reading_history, the part about the settings.
clear_recent(app) == [app EXCEPT !.settings.recent_sources = <<>>]

\* Exit: the window as it is, which the window system keeps at its minimum.
capture(app, window) ==
  [app EXCEPT !.settings.window = capture_geometry(window)]

Steps(app, paths, windows, numbers) ==
  {on_set_cache_size(app, v) : v \in numbers}
    \cup {on_set_preload_pages(app, v) : v \in numbers}
    \cup {on_set_track_recent(app, b) : b \in BOOLEAN}
    \cup {record_recent(app, p) : p \in paths}
    \cup {capture(app, w) : w \in windows}
    \cup {clear_recent(app)}
=============================================================================
