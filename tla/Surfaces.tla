------------------------------ MODULE Surfaces ------------------------------
(***************************************************************************)
(* Who owns the keyboard: the two screens, the four modals over them and   *)
(* every handler that moves focus (ViewerWindow.slint, main.rs,            *)
(* handlers/settings.rs, handlers/library.rs, carousel_refresh.rs of       *)
(* crates/gashuu, update/dialog.rs of crates/gashuu-core).  A screen's     *)
(* FocusScope rejects every key while any modal is open, so focus left     *)
(* there under a modal is a dead keyboard.                                 *)
(***************************************************************************)
EXTENDS FiniteSets

CONSTANT LandsAnywhere   \* whether an open or an add may land while the reader is elsewhere

ASSUME LandsAssumption == LandsAnywhere \in BOOLEAN

VARIABLES
  screen,       \* 0 and 1 of the code: "library" and "viewer"
  modals,       \* the modals that are shown
  focus,        \* the surface that has the keyboard
  landing,      \* requests under way in the background
  bookOpen      \* whether a book is open

surfaceVars == <<screen, modals, focus, landing, bookOpen>>

ModalNames == {"settings", "shortcuts", "confirm", "update"}
ScreenSurfaces == {"carousel", "pages"}

SurfaceTypeOK ==
  /\ screen \in {"library", "viewer"}
  /\ modals \subseteq ModalNames
  /\ focus \in ModalNames \cup ScreenSurfaces
  /\ landing \subseteq {"open", "add"}
  /\ bookOpen \in BOOLEAN

SurfaceInit ==
  /\ screen = "library" /\ modals = {} /\ focus = "carousel"
  /\ landing = {} /\ bookOpen = FALSE

\* A plausible slip (#359): the screen underneath, whatever stands between.
focus_target_after_dialog_ScreenOnly(stack, scr) ==
  IF scr = "library" THEN "carousel" ELSE "pages"

\* The topmost surface once the update dialog is gone.
focus_target_after_dialog(stack, scr) ==
  IF "confirm" \in stack THEN "confirm"
  ELSE IF "shortcuts" \in stack THEN "shortcuts"
  ELSE IF "settings" \in stack THEN "settings"
  ELSE IF scr = "library" THEN "carousel" ELSE "pages"

\* The paint order: the update dialog covers everything.
Topmost ==
  IF "update" \in modals THEN "update"
  ELSE IF "confirm" \in modals THEN "confirm"
  ELSE IF "shortcuts" \in modals THEN "shortcuts"
  ELSE IF "settings" \in modals THEN "settings"
  ELSE IF screen = "library" THEN "carousel" ELSE "pages"

\* A control can be used only on the topmost surface.
Using(surface) == Topmost = surface

-----------------------------------------------------------------------------
(* Handlers. *)

Shown(m) == modals' = modals \cup {m}
Hidden(m) == modals' = modals \ {m}

\* The dialog's own init takes the focus.
OpenSettings ==
  /\ Topmost \in ScreenSurfaces
  /\ Shown("settings") /\ focus' = "settings"
  /\ UNCHANGED <<screen, landing, bookOpen>>

OpenShortcuts ==
  /\ Using("settings")
  /\ Shown("shortcuts") /\ focus' = "shortcuts"
  /\ UNCHANGED <<screen, landing, bookOpen>>

CloseShortcuts ==
  /\ Using("shortcuts")
  /\ Hidden("shortcuts") /\ focus' = "settings"
  /\ UNCHANGED <<screen, landing, bookOpen>>

\* Focus by screen: the settings dialog is closed only when it is the last modal.
CloseSettings ==
  /\ Using("settings")
  /\ Hidden("settings")
  /\ focus' = IF screen = "library" THEN "carousel" ELSE "pages"
  /\ UNCHANGED <<screen, landing, bookOpen>>

RequestDelete ==
  /\ Using("carousel")
  /\ Shown("confirm") /\ focus' = "confirm"
  /\ UNCHANGED <<screen, landing, bookOpen>>

\* Cancelled, or the removal finalized; the open book may be among the removed.
AnswerDelete(removesOpen) ==
  /\ Using("confirm")
  /\ Hidden("confirm") /\ focus' = "carousel"
  /\ bookOpen' = (bookOpen /\ ~removesOpen)
  /\ UNCHANGED <<screen, landing>>

\* A row is opened, or books are added; a drop only asks for the library screen.
StartRequest(kind) ==
  /\ Using("carousel") \/ (kind = "add" /\ screen = "library")
  /\ landing' = landing \cup {kind}
  /\ UNCHANGED <<screen, modals, focus, bookOpen>>

\* carousel_back and go_to_viewer.
CarouselBack ==
  /\ Using("carousel") /\ bookOpen
  /\ screen' = "viewer" /\ focus' = "pages"
  /\ UNCHANGED <<modals, landing, bookOpen>>

\* go_to_library.
LeaveViewer ==
  /\ Using("pages")
  /\ screen' = "library" /\ focus' = "carousel"
  /\ UNCHANGED <<modals, landing, bookOpen>>

MayLand(kind) == kind \in landing /\ (LandsAnywhere \/ Using("carousel"))

\* finalize_open: only a book that opened switches the screen and the focus.
LandOpen(opened) ==
  /\ MayLand("open")
  /\ landing' = landing \ {"open"}
  /\ IF opened
       THEN bookOpen' = TRUE /\ screen' = "viewer" /\ focus' = "pages"
       ELSE UNCHANGED <<bookOpen, screen, focus>>
  /\ UNCHANGED modals

\* apply_add_report focuses the carousel, whatever covers it.
LandAdd ==
  /\ MayLand("add")
  /\ landing' = landing \ {"add"}
  /\ focus' = "carousel"
  /\ UNCHANGED <<screen, modals, bookOpen>>

SurfaceNext ==
  \/ OpenSettings \/ OpenShortcuts \/ CloseShortcuts \/ CloseSettings
  \/ RequestDelete
  \/ \E removesOpen \in BOOLEAN : AnswerDelete(removesOpen)
  \/ \E kind \in {"open", "add"} : StartRequest(kind)
  \/ CarouselBack \/ LeaveViewer
  \/ \E opened \in BOOLEAN : LandOpen(opened)
  \/ LandAdd
=============================================================================
