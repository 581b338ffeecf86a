----------------------------- MODULE PageLoader -----------------------------
(***************************************************************************)
(* The asynchronous page view: PageController's generations and dispatch   *)
(* reservations (crates/gashuu/src/page_loader.rs), the refresh that       *)
(* classifies a spread into HIT and MISS slots (main.rs), the rayon jobs   *)
(* that decode the missing slots, and the closures they post to the event  *)
(* loop.  The cache is the environment here: PageCache models it; any page *)
(* that can be decoded may enter it or leave it between two steps.         *)
(***************************************************************************)
EXTENDS Integers, Sequences, FiniteSets

CONSTANTS
  PageCount,      \* pages of every source
  FailingPages,   \* pages that never decode
  FlakyPages,     \* pages that may fail now and decode later, as a busy file does
  MaxSources,     \* bound: books opened
  MaxEpoch,       \* bound: page-result generations
  MaxJobs,        \* bound: decode jobs alive at a time
  MaxPosted       \* bound: closures waiting in the event loop

ASSUME PageCountAssumption == PageCount \in Nat \ {0}
ASSUME FailingAssumption == FailingPages \subseteq 0 .. PageCount - 1
ASSUME FlakyAssumption == FlakyPages \subseteq 0 .. PageCount - 1
ASSUME BoundsAssumption ==
  MaxSources \in Nat /\ MaxEpoch \in Nat /\ MaxJobs \in Nat /\ MaxPosted \in Nat

VARIABLES
  source,       \* the open source, counted from 1; 0 when no book is open
  opened,       \* sources opened so far
  cached,       \* pages of the open source that are cache HITs
  controller,   \* PageController: epoch, target, dispatched
  view,         \* the images and the loading placeholders on screen
  jobs,         \* decode jobs on the rayon pool
  queue         \* closures posted to the event loop, first in first out

vars == <<source, opened, cached, controller, view, jobs, queue>>

Pages == 0 .. PageCount - 1
NoPage == -1                                  \* optional_page_i32(None)
NoTarget == [leading |-> NoPage, trailing |-> NoPage]
Spreads == [leading : Pages, trailing : {NoPage}]
             \cup {s \in [leading : Pages, trailing : Pages] : s.trailing = s.leading + 1}
Slots(spread) == {spread.leading, spread.trailing} \ {NoPage}

Blank == [source |-> 0, page |-> NoPage]      \* slint::Image::default()
Image(s, page) == IF page = NoPage THEN Blank ELSE [source |-> s, page |-> page]
EmptyView == [leading |-> Blank, trailing |-> Blank, loading |-> {}]

Idle == [source |-> 0, epoch |-> 0, spread |-> NoTarget, missing |-> {}]
Job == [source : 1 .. MaxSources, epoch : Nat, spread : Spreads, missing : SUBSET Pages]
Message == [kind : {"spread", "error"}, source : 1 .. MaxSources, epoch : Nat,
            spread : Spreads, page : Pages \cup {NoPage}]

TypeOK ==
  /\ source \in 0 .. MaxSources /\ opened \in 0 .. MaxSources
  /\ cached \in SUBSET Pages
  /\ controller \in [epoch : Nat, target : Spreads \cup {NoTarget},
                     dispatched : SUBSET Pages]
  /\ view \in [leading : [source : 0 .. MaxSources, page : Pages \cup {NoPage}],
               trailing : [source : 0 .. MaxSources, page : Pages \cup {NoPage}],
               loading : SUBSET Pages]
  /\ jobs \in [1 .. MaxJobs -> Job \cup {Idle}]
  /\ queue \in Seq(Message)

Init ==
  /\ source = 0 /\ opened = 0
  /\ cached = {}
  /\ controller = [epoch |-> 0, target |-> NoTarget, dispatched |-> {}]
  /\ view = EmptyView
  /\ jobs = [j \in 1 .. MaxJobs |-> Idle]
  /\ queue = <<>>

-----------------------------------------------------------------------------
(* PageController. *)

\* A plausible slip: the new generation inherits the old one's reservations.
begin_generation_KeepReservations(c) == [c EXCEPT !.epoch = @ + 1]

begin_generation(c) == [c EXCEPT !.epoch = @ + 1, !.dispatched = {}]

\* A plausible slip: a new book only clears the reservations of the old one.
reset_for_source_SameEpoch(c) == [c EXCEPT !.dispatched = {}]

reset_for_source(c) == begin_generation([c EXCEPT !.target = NoTarget])

set_target(c, spread) ==
  IF c.target = spread THEN c ELSE begin_generation([c EXCEPT !.target = spread])

clear_target(c) ==
  IF c.target # NoTarget THEN begin_generation([c EXCEPT !.target = NoTarget])
  ELSE [c EXCEPT !.dispatched = {}]

\* A plausible slip: the trailing page's reservation is not released.
clear_dispatched_spread_LeadingOnly(c, spread) ==
  [c EXCEPT !.dispatched = @ \ {spread.leading}]

clear_dispatched_spread(c, spread) == [c EXCEPT !.dispatched = @ \ Slots(spread)]

\* A plausible slip: an absent trailing page is reserved as well.
Missing_NoPageToo(spread, hits) == {spread.leading, spread.trailing} \ hits

\* classify_spread: the slots that are cache misses.
Missing(spread, hits) == Slots(spread) \ hits

-----------------------------------------------------------------------------
(* refresh, on the UI thread. *)

FreeJobs == {j \in 1 .. MaxJobs : jobs[j] = Idle}
Dispatch(job) ==
  /\ FreeJobs # {}
  /\ jobs' = [jobs EXCEPT ![CHOOSE j \in FreeJobs : \A k \in FreeJobs : j <= k] = job]

\* refresh of the spread on source s, from the controller c and the HITs.
\* A HIT spread is applied at once.  Otherwise both images are blanked, every
\* missing slot that is not reserved yet is reserved, and one job is spawned if
\* any was; the job decodes all slots that are missing now.
RefreshFrom(c, s, spread, hits) ==
  LET next == set_target(c, spread)
      missing == Missing(spread, hits)
      reserved == missing \ next.dispatched
  IN  IF missing = {}
        THEN /\ controller' = clear_dispatched_spread(next, spread)
             /\ view' = [leading |-> Image(s, spread.leading),
                         trailing |-> Image(s, spread.trailing), loading |-> {}]
             /\ UNCHANGED jobs
        ELSE /\ controller' = [next EXCEPT !.dispatched = @ \cup reserved]
             /\ view' = [EmptyView EXCEPT !.loading = missing]
             /\ IF reserved = {} THEN UNCHANGED jobs
                ELSE Dispatch([source |-> s, epoch |-> next.epoch,
                               spread |-> spread, missing |-> missing])

\* A page turn, a layout change, a resize or any other refresh of an open book.
Refresh(spread) ==
  /\ source # 0
  /\ set_target(controller, spread).epoch <= MaxEpoch
  /\ RefreshFrom(controller, source, spread, cached)
  /\ UNCHANGED <<source, opened, cached, queue>>

\* A refresh when no page can be shown.
RefreshNothing ==
  /\ source = 0
  /\ controller' = clear_target(controller)
  /\ view' = EmptyView
  /\ UNCHANGED <<source, opened, cached, jobs, queue>>

\* finalize_open, Success: a new cache, a new generation, and a refresh.
OpenBook(spread) ==
  /\ opened < MaxSources
  /\ controller.epoch + 1 < MaxEpoch
  /\ opened' = opened + 1
  /\ source' = opened + 1
  /\ cached' = {}
  /\ RefreshFrom(reset_for_source(controller), opened + 1, spread, {})
  /\ UNCHANGED queue

\* finalize_open, EmptyBookRejected: the viewer is closed, nothing is refreshed.
RejectEmptyBook ==
  /\ controller.epoch < MaxEpoch
  /\ source' = 0
  /\ cached' = {}
  /\ controller' = reset_for_source(controller)
  /\ UNCHANGED <<opened, view, jobs, queue>>

\* remove_books.rs closes the viewer; the page controller is not told.
RemoveOpenBook ==
  /\ source # 0
  /\ source' = 0
  /\ cached' = {}
  /\ UNCHANGED <<opened, controller, view, jobs, queue>>

-----------------------------------------------------------------------------
(* The cache, filled by prefetch and emptied by eviction. *)

Prefetched(page) ==
  /\ source # 0
  /\ page \notin cached /\ page \notin FailingPages
  /\ cached' = cached \cup {page}
  /\ UNCHANGED <<source, opened, controller, view, jobs, queue>>

Evicted(page) ==
  /\ page \in cached
  /\ cached' = cached \ {page}
  /\ UNCHANGED <<source, opened, controller, view, jobs, queue>>

-----------------------------------------------------------------------------
(* The decode jobs and the closures they post. *)

\* The slots whose decode fails: never one the job was handed as a HIT or finds
\* in the cache of its own source.
MayFail(job) ==
  LET missing == IF job.source = source THEN job.missing \ cached ELSE job.missing
  IN  {bad \in SUBSET missing :
         missing \cap FailingPages \subseteq bad /\ bad \subseteq FailingPages \cup FlakyPages}

\* finish_decode_spread: a failed leading page loses the spread, and a failed
\* trailing page is reported first; alone, it leaves the leading page shown.
Posted(job, bad) ==
  LET message(kind, page) == [kind |-> kind, source |-> job.source, epoch |-> job.epoch,
                              spread |-> job.spread, page |-> page]
      trailing == job.spread.trailing
  IN  IF job.spread.leading \notin bad
        THEN <<message("spread", IF trailing \in bad THEN trailing ELSE NoPage)>>
        ELSE (IF trailing \in bad THEN <<message("error", trailing)>> ELSE <<>>)
               \o <<message("error", job.spread.leading)>>

Finish(j, bad) ==
  /\ jobs[j] # Idle
  /\ bad \in MayFail(jobs[j])
  /\ cached' = IF jobs[j].source = source THEN cached \cup (jobs[j].missing \ bad)
               ELSE cached
  /\ queue' = queue \o Posted(jobs[j], bad)
  /\ Len(queue') <= MaxPosted
  /\ jobs' = [jobs EXCEPT ![j] = Idle]
  /\ UNCHANGED <<source, opened, controller, view>>

\* marshal_to_ui: the closure of a superseded generation does nothing.
IsStale(message) == message.epoch # controller.epoch

DeliverStale ==
  /\ queue # <<>> /\ IsStale(Head(queue))
  /\ queue' = Tail(queue)
  /\ UNCHANGED <<source, opened, cached, controller, view, jobs>>

\* marshal_spread and on_spread_anchored.
DeliverSpread ==
  LET message == Head(queue)
      spread == message.spread
  IN  /\ queue # <<>> /\ ~IsStale(message) /\ message.kind = "spread"
      /\ queue' = Tail(queue)
      /\ controller' = clear_dispatched_spread(controller, spread)
      /\ view' = [leading |-> Image(message.source, spread.leading),
                  trailing |-> IF message.page # NoPage THEN Blank
                               ELSE Image(message.source, spread.trailing),
                  loading |-> {}]
      /\ UNCHANGED <<source, opened, cached, jobs>>

\* on_page_decode_error: one reservation is released, the whole view blanked.
DeliverError ==
  LET message == Head(queue)
  IN  /\ queue # <<>> /\ ~IsStale(message) /\ message.kind = "error"
      /\ queue' = Tail(queue)
      /\ controller' = [controller EXCEPT !.dispatched = @ \ {message.page}]
      /\ view' = EmptyView
      /\ UNCHANGED <<source, opened, cached, jobs>>

FinishSome == \E j \in 1 .. MaxJobs : \E bad \in SUBSET Pages : Finish(j, bad)
Deliver == DeliverStale \/ DeliverSpread \/ DeliverError

Next ==
  \/ \E spread \in Spreads : Refresh(spread)
  \/ RefreshNothing
  \/ \E spread \in Spreads : OpenBook(spread)
  \/ RejectEmptyBook
  \/ RemoveOpenBook
  \/ \E page \in Pages : Prefetched(page)
  \/ \E page \in Pages : Evicted(page)
  \/ FinishSome
  \/ Deliver

Spec == Init /\ [][Next]_vars

\* The pool runs every spawned job and the event loop every posted closure;
\* nothing makes a reader turn a page or the cache keep one.
Fairness ==
  /\ \A j \in 1 .. MaxJobs : WF_vars(\E bad \in SUBSET Pages : Finish(j, bad))
  /\ WF_vars(Deliver)

LiveSpec == Spec /\ Fairness

-----------------------------------------------------------------------------
(* Properties. *)

\* What the viewer shows belongs to the open book and to the spread it stands
\* on: no decode that was overtaken by a page turn or by another book paints.
DisplayedIsCurrent ==
  source # 0 =>
    /\ view.leading \in {Blank, Image(source, controller.target.leading)}
    /\ view.trailing \in {Blank, Image(source, controller.target.trailing)}

\* Work that will reach the view: a job or a closure of the live generation.
Pending ==
  \/ \E j \in 1 .. MaxJobs : jobs[j] # Idle /\ jobs[j].epoch = controller.epoch
  \/ \E i \in DOMAIN queue : ~IsStale(queue[i])

\* dispatch_spread: a refresh that finds its slots in flight "leaves completion
\* to the earlier worker": a placeholder is never up with nothing on its way.  It
\* holds while a flaky page leads only alone; a flaky leading page beside a
\* trailing one can leave a reservation behind that no work covers.
LoadingHasResult == source # 0 /\ view.loading # {} => Pending

\* An error report takes away a page that is on screen only when that page is
\* flaky: it decoded after the job that reports it had failed, a refresh painted it
\* from the cache, and the late report blanks it.
ErrorBlanksOnlyFlaky ==
  [][DeliverError =>
       view.leading = Blank \/ Head(queue).spread.leading \in FlakyPages]_vars

\* Every placeholder is eventually replaced by a page or an error, unless the
\* book is closed first.
LoadingResolves ==
  source # 0 /\ view.loading # {} ~> source = 0 \/ view.loading = {}
=============================================================================
