--------------------------- MODULE OpenController ---------------------------
(***************************************************************************)
(* The off-thread open of a book (open_controller.rs).  Each start bumps   *)
(* the epoch and installs a fresh result slot; its worker probes the path, *)
(* writes its own slot and posts one finalize closure to the event loop.   *)
(* The closure of the current epoch drains the current slot; what it does  *)
(* with the result are the Open actions of BookSession.                    *)
(***************************************************************************)
EXTENDS Integers, Sequences

CONSTANTS
  Paths,
  NoPath,
  MaxOpens     \* bound: how many opens are started

ASSUME OpenAssumption ==
  /\ NoPath \notin Paths
  /\ MaxOpens \in Nat

VARIABLES
  epoch,       \* OpenController::epoch
  slots,       \* per generation, the Arc its worker writes
  probes,      \* per generation, the path and the progress of its worker
  openLoop,    \* the finalize closures posted to the event loop, as epochs
  opened       \* the path whose outcome was applied last

openVars == <<epoch, slots, probes, openLoop, opened>>

Generations == 1 .. MaxOpens
Unborn == [path |-> NoPath, pc |-> "unborn"]

OpenTypeOK ==
  /\ epoch \in 0 .. MaxOpens
  /\ slots \in [Generations -> Paths \cup {NoPath}]
  /\ probes \in [Generations -> [path : Paths \cup {NoPath},
                                 pc : {"unborn", "probing", "stored", "posted"}]]
  /\ openLoop \in Seq(Generations)
  /\ opened \in Paths \cup {NoPath}

OpenInit ==
  /\ epoch = 0
  /\ slots = [g \in Generations |-> NoPath]
  /\ probes = [g \in Generations |-> Unborn]
  /\ openLoop = <<>>
  /\ opened = NoPath

\* start, on the UI thread.
Start(path) ==
  /\ epoch < MaxOpens
  /\ epoch' = epoch + 1
  /\ probes' = [probes EXCEPT ![epoch + 1] = [path |-> path, pc |-> "probing"]]
  /\ UNCHANGED <<slots, openLoop, opened>>

\* A plausible slip: the worker writes whichever slot is current by then.
StoreOutcome_CurrentSlot(g) ==
  /\ probes[g].pc = "probing"
  /\ slots' = [slots EXCEPT ![epoch] = probes[g].path]
  /\ probes' = [probes EXCEPT ![g].pc = "stored"]
  /\ UNCHANGED <<epoch, openLoop, opened>>

\* The worker: the probe is over and its outcome is in the worker's own slot.
StoreOutcome(g) ==
  /\ probes[g].pc = "probing"
  /\ slots' = [slots EXCEPT ![g] = probes[g].path]
  /\ probes' = [probes EXCEPT ![g].pc = "stored"]
  /\ UNCHANGED <<epoch, openLoop, opened>>

PostFinalize(g) ==
  /\ probes[g].pc = "stored"
  /\ openLoop' = Append(openLoop, g)
  /\ probes' = [probes EXCEPT ![g].pc = "posted"]
  /\ UNCHANGED <<epoch, slots, opened>>

\* take_outcome: what the closure of generation g drains, NoPath for nothing.
take_outcome(g) == IF g = epoch THEN slots[epoch] ELSE NoPath

\* A closure that marshal_to_ui or take_outcome drops as superseded.
DropStaleOpen ==
  /\ openLoop # <<>> /\ take_outcome(Head(openLoop)) = NoPath
  /\ openLoop' = Tail(openLoop)
  /\ UNCHANGED <<epoch, slots, probes, opened>>

\* open-finalize: the current slot is drained and its outcome applied.
FinalizeOpen ==
  /\ openLoop # <<>> /\ take_outcome(Head(openLoop)) # NoPath
  /\ openLoop' = Tail(openLoop)
  /\ opened' = take_outcome(Head(openLoop))
  /\ slots' = [slots EXCEPT ![epoch] = NoPath]
  /\ UNCHANGED <<epoch, probes>>

OpenWork(g) == StoreOutcome(g) \/ PostFinalize(g)
OpenDeliver == DropStaleOpen \/ FinalizeOpen

OpenNext ==
  \/ \E path \in Paths : Start(path)
  \/ \E g \in Generations : OpenWork(g)
  \/ OpenDeliver

OpenSpec == OpenInit /\ [][OpenNext]_openVars

\* The pool runs every spawned probe, the event loop every posted closure.
OpenFairness ==
  /\ \A g \in Generations : WF_openVars(OpenWork(g))
  /\ WF_openVars(OpenDeliver)

-----------------------------------------------------------------------------
(* The promise. *)

Queued(g) == \E i \in 1 .. Len(openLoop) : openLoop[i] = g

\* The newest open is still to land while its worker runs or its closure waits.
OpenPending == epoch # 0 /\ (probes[epoch].pc = "posted" => Queued(epoch))

Wanted == IF OpenPending THEN probes[epoch].path ELSE NoPath

Open == INSTANCE LatestRequest WITH
  Requests <- Paths, NoRequest <- NoPath, wanted <- Wanted, landed <- opened

\* The newest open lands exactly once, and one that was superseded never does.
NewestOpenLands == Open!Spec
=============================================================================
