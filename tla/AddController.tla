---------------------------- MODULE AddController ----------------------------
(***************************************************************************)
(* The off-thread bulk add (add_controller.rs).  Each start bumps the      *)
(* epoch, installs a fresh accumulator and spawns one probe per path; each *)
(* probe pushes its outcome, counts down and posts a progress tick, and    *)
(* the one that counts down to zero posts the finalize that applies the    *)
(* whole batch to the library.                                             *)
(***************************************************************************)
EXTENDS Integers, Sequences

CONSTANTS
  BatchSizes,  \* how many paths one add may pick; the callers pick at least one
  MaxAdds      \* bound: how many adds are started

ASSUME AddAssumption == BatchSizes \subseteq Nat \ {0} /\ MaxAdds \in Nat

VARIABLES
  addEpoch,    \* AddController::epoch
  batches,     \* per generation, its paths and what its workers share
  jobs,        \* per generation and path, the progress of the probe's worker
  addLoop,     \* the closures posted to the event loop
  bar,         \* add-active: whether the progress hairline is up
  applied      \* the last batch the apply half ran on

addVars == <<addEpoch, batches, jobs, addLoop, bar, applied>>

Adds == 1 .. MaxAdds
Indices == UNION {1 .. n : n \in BatchSizes}

NoBatch == [total |-> 0, outcomes |-> {}, remaining |-> 0]

AddTypeOK ==
  /\ addEpoch \in 0 .. MaxAdds
  /\ batches \in [Adds -> [total : BatchSizes \cup {0}, outcomes : SUBSET Indices,
                           remaining : Indices \cup {0}]]
  /\ jobs \in [Adds -> [Indices -> {"unborn", "probing", "pushed", "counted", "last",
                                    "ticked", "done"}]]
  /\ addLoop \in Seq([kind : {"progress", "finalize"}, epoch : Adds])
  /\ bar \in BOOLEAN
  /\ applied \in [epoch : 0 .. MaxAdds, outcomes : SUBSET Indices]

AddInit ==
  /\ addEpoch = 0
  /\ batches = [g \in Adds |-> NoBatch]
  /\ jobs = [g \in Adds |-> [i \in Indices |-> "unborn"]]
  /\ addLoop = <<>>
  /\ bar = FALSE
  /\ applied = [epoch |-> 0, outcomes |-> {}]

Batch(n) == [total |-> n, outcomes |-> {}, remaining |-> n]

\* start, on the UI thread: the first progress call is direct.
StartAdd(n) ==
  /\ addEpoch < MaxAdds
  /\ addEpoch' = addEpoch + 1
  /\ batches' = [batches EXCEPT ![addEpoch + 1] = Batch(n)]
  /\ jobs' = [jobs EXCEPT ![addEpoch + 1] =
                [i \in Indices |-> IF i <= n THEN "probing" ELSE "unborn"]]
  /\ bar' = TRUE
  /\ UNCHANGED <<addLoop, applied>>

Push(g, i) ==
  /\ jobs[g][i] = "probing"
  /\ batches' = [batches EXCEPT ![g].outcomes = @ \cup {i}]
  /\ jobs' = [jobs EXCEPT ![g][i] = "pushed"]
  /\ UNCHANGED <<addEpoch, addLoop, bar, applied>>

\* A plausible slip: the last but one worker already finalizes.
IsLast_OffByOne(remaining) == remaining <= 2

\* A plausible slip: fetch_sub is taken to return what is left.
IsLast_PreDecrement(remaining) == remaining = 0

\* fetch_sub returns the count before this worker; none is left after it.
IsLast(remaining) == remaining - 1 = 0

CountDown(g, i) ==
  /\ jobs[g][i] = "pushed"
  /\ batches' = [batches EXCEPT ![g].remaining = @ - 1]
  /\ jobs' = [jobs EXCEPT ![g][i] = IF IsLast(batches[g].remaining) THEN "last" ELSE "counted"]
  /\ UNCHANGED <<addEpoch, addLoop, bar, applied>>

PostProgress(g, i) ==
  /\ jobs[g][i] \in {"counted", "last"}
  /\ addLoop' = Append(addLoop, [kind |-> "progress", epoch |-> g])
  /\ jobs' = [jobs EXCEPT ![g][i] = IF @ = "last" THEN "ticked" ELSE "done"]
  /\ UNCHANGED <<addEpoch, batches, bar, applied>>

PostAddFinalize(g, i) ==
  /\ jobs[g][i] = "ticked"
  /\ addLoop' = Append(addLoop, [kind |-> "finalize", epoch |-> g])
  /\ jobs' = [jobs EXCEPT ![g][i] = "done"]
  /\ UNCHANGED <<addEpoch, batches, bar, applied>>

\* marshal_to_ui drops the closure of a superseded generation.
DropStaleAdd ==
  /\ addLoop # <<>> /\ Head(addLoop).epoch # addEpoch
  /\ addLoop' = Tail(addLoop)
  /\ UNCHANGED <<addEpoch, batches, jobs, bar, applied>>

\* on_add_progress.
DeliverProgress ==
  /\ addLoop # <<>> /\ Head(addLoop).epoch = addEpoch /\ Head(addLoop).kind = "progress"
  /\ addLoop' = Tail(addLoop)
  /\ bar' = TRUE
  /\ UNCHANGED <<addEpoch, batches, jobs, applied>>

\* on_add_finalize: take_outcomes, apply_add_report, retire the hairline.
DeliverFinalize ==
  /\ addLoop # <<>> /\ Head(addLoop).epoch = addEpoch /\ Head(addLoop).kind = "finalize"
  /\ addLoop' = Tail(addLoop)
  /\ applied' = [epoch |-> addEpoch, outcomes |-> batches[addEpoch].outcomes]
  /\ batches' = [batches EXCEPT ![addEpoch].outcomes = {}]
  /\ bar' = FALSE
  /\ UNCHANGED <<addEpoch, jobs>>

AddWork(g, i) == Push(g, i) \/ CountDown(g, i) \/ PostProgress(g, i) \/ PostAddFinalize(g, i)
AddDeliver == DropStaleAdd \/ DeliverProgress \/ DeliverFinalize

AddNext ==
  \/ \E n \in BatchSizes : StartAdd(n)
  \/ \E g \in Adds, i \in Indices : AddWork(g, i)
  \/ AddDeliver

AddSpec == AddInit /\ [][AddNext]_addVars

\* The pool runs every spawned probe, the event loop every posted closure.
AddFairness ==
  /\ \A g \in Adds, i \in Indices : WF_addVars(AddWork(g, i))
  /\ WF_addVars(AddDeliver)

-----------------------------------------------------------------------------
(* Properties. *)

\* The apply half sees every probe of its batch and none of another: the last
\* worker to count down has seen every push, whatever order they finished in.
WholeBatchApplied ==
  applied.epoch # 0 => applied.outcomes = 1 .. batches[applied.epoch].total

Add == INSTANCE LatestRequest WITH
  Requests <- Adds, NoRequest <- 0, landed <- applied.epoch,
  wanted <- IF applied.epoch = addEpoch THEN 0 ELSE addEpoch

\* The newest batch is applied exactly once; a superseded one never is.
NewestBatchLands == Add!Spec
=============================================================================
