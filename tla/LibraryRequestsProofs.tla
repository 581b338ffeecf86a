----------------------- MODULE LibraryRequestsProofs -----------------------
(***************************************************************************)
(* Both requests of the library screen implement LatestRequest, for any    *)
(* number of requests and any order of workers and closures, and a bulk    *)
(* add applies its whole batch.  The invariant of the open says who owns a *)
(* slot: a closure waits in the event loop at most once, and the slot it   *)
(* is to drain holds the path its own worker was started with.  That of    *)
(* the add says what the shared counter counts, so that the one worker     *)
(* that brings it to zero closes a batch in which every probe is over.     *)
(***************************************************************************)
EXTENDS LibraryRequests, FiniteSetTheorems, TLAPS

\* The two requests share no state: each sees its own steps only.
LEMMA StepOfEach == [Next]_vars => [OpenNext]_openVars /\ [AddNext]_addVars
  BY DEF Next, vars

\* A generation has a worker, with a path to probe, once it was started.
Started ==
  \A g \in Generations :
    IF g <= epoch THEN probes[g].pc # "unborn" /\ probes[g].path \in Paths
                  ELSE probes[g].pc = "unborn"

\* The closure of a generation is posted by its worker, and once.
PostedOnce ==
  /\ \A i \in 1 .. Len(openLoop) : probes[openLoop[i]].pc = "posted"
  /\ \A i, j \in 1 .. Len(openLoop) : openLoop[i] = openLoop[j] => i = j

\* The slot of a finished probe is full until its own closure drains it.
SlotsFull ==
  \A g \in Generations :
    probes[g].pc = "stored" \/ Queued(g) => slots[g] = probes[g].path

OpenInv == OpenTypeOK /\ Started /\ PostedOnce /\ SlotsFull

-----------------------------------------------------------------------------
(* The event loop as a sequence of closures. *)

\* The elements of a queue.
LEMMA ElementsOf ==
  ASSUME NEW S, NEW s \in Seq(S)
  PROVE  Len(s) \in Nat /\ \A k \in 1 .. Len(s) : s[k] \in S
  OBVIOUS

\* Appending to a queue adds one element behind the others.
LEMMA AppendElements ==
  ASSUME NEW S, NEW s \in Seq(S), NEW x \in S
  PROVE  /\ Append(s, x) \in Seq(S)
         /\ Len(Append(s, x)) = Len(s) + 1
         /\ Len(s) \in Nat
         /\ \A i \in 1 .. Len(s) : Append(s, x)[i] = s[i]
         /\ Append(s, x)[Len(s) + 1] = x
  OBVIOUS

\* Taking the head of a queue moves the others forward by one place.
LEMMA TailElements ==
  ASSUME NEW S, NEW s \in Seq(S), s # <<>>
  PROVE  /\ Head(s) = s[1] /\ Head(s) \in S
         /\ Tail(s) \in Seq(S)
         /\ Len(s) \in Nat /\ Len(s) >= 1
         /\ Len(Tail(s)) = Len(s) - 1
         /\ \A i \in 1 .. Len(s) - 1 : Tail(s)[i] = s[i + 1]
  OBVIOUS

\* A posted closure is the only change of what is queued.
LEMMA QueuedAfterPost ==
  ASSUME OpenTypeOK, NEW g \in Generations, openLoop' = Append(openLoop, g)
  PROVE  \A h \in Generations : Queued(h)' <=> Queued(h) \/ h = g
<1>1. openLoop \in Seq(Generations)
  BY DEF OpenTypeOK
<1>2. /\ Len(openLoop') = Len(openLoop) + 1 /\ Len(openLoop) \in Nat
      /\ \A i \in 1 .. Len(openLoop) : openLoop'[i] = openLoop[i]
      /\ openLoop'[Len(openLoop) + 1] = g
  BY <1>1, AppendElements
<1> QED
  BY <1>2 DEF Queued

\* With every closure queued once, a delivery takes exactly its own away.
LEMMA QueuedAfterDelivery ==
  ASSUME OpenTypeOK, PostedOnce, openLoop # <<>>, openLoop' = Tail(openLoop)
  PROVE  /\ Head(openLoop) \in Generations
         /\ Queued(Head(openLoop))
         /\ \A h \in Generations : Queued(h)' <=> Queued(h) /\ h # Head(openLoop)
<1>1. openLoop \in Seq(Generations)
  BY DEF OpenTypeOK
<1>2. /\ Head(openLoop) = openLoop[1] /\ Head(openLoop) \in Generations
      /\ Len(openLoop) \in Nat /\ Len(openLoop) >= 1
      /\ Len(openLoop') = Len(openLoop) - 1
      /\ \A i \in 1 .. Len(openLoop) - 1 : openLoop'[i] = openLoop[i + 1]
  BY <1>1, TailElements
<1>3. \A i, j \in 1 .. Len(openLoop) : openLoop[i] = openLoop[j] => i = j
  BY DEF PostedOnce
<1>4. ASSUME NEW h \in Generations, Queued(h)' PROVE Queued(h) /\ h # Head(openLoop)
  <2>1. PICK i \in 1 .. Len(openLoop') : openLoop'[i] = h
    BY <1>4 DEF Queued
  <2>2. i \in 1 .. Len(openLoop) - 1 /\ i + 1 \in 1 .. Len(openLoop) /\ openLoop[i + 1] = h
    BY <2>1, <1>2
  <2>3. openLoop[1] # h
    BY <2>2, <1>2, <1>3
  <2> QED
    BY <2>2, <2>3, <1>2 DEF Queued
<1>5. ASSUME NEW h \in Generations, Queued(h), h # Head(openLoop) PROVE Queued(h)'
  <2>1. PICK i \in 1 .. Len(openLoop) : openLoop[i] = h
    BY <1>5 DEF Queued
  <2>2. i # 1
    BY <2>1, <1>2, <1>5
  <2>3. i - 1 \in 1 .. Len(openLoop') /\ (i - 1) + 1 = i
    BY <2>1, <2>2, <1>2
  <2>4. openLoop'[i - 1] = h
    BY <2>1, <2>3, <1>2
  <2> QED
    BY <2>3, <2>4 DEF Queued
<1>6. Queued(Head(openLoop))
  BY <1>2 DEF Queued
<1> QED
  BY <1>2, <1>4, <1>5, <1>6

-----------------------------------------------------------------------------
(* The invariant, one lemma per action that moves a closure or a slot. *)

\* A start leaves every older generation alone and gives the new one a worker.
LEMMA StartKeepsInv ==
  ASSUME OpenInv, NEW path \in Paths, Start(path)
  PROVE  OpenInv'
<1> USE OpenAssumption
<1>1. epoch + 1 \in Generations /\ epoch \in Nat
  BY DEF OpenInv, OpenTypeOK, Start, Generations
<1>2. OpenTypeOK'
  BY <1>1 DEF OpenInv, OpenTypeOK, Start, Generations
<1>3. /\ probes' = [probes EXCEPT ![epoch + 1] = [path |-> path, pc |-> "probing"]]
      /\ openLoop' = openLoop /\ slots' = slots /\ epoch' = epoch + 1
  BY DEF Start
<1>4. probes \in [Generations -> [path : Paths \cup {NoPath},
                                 pc : {"unborn", "probing", "stored", "posted"}]]
      /\ openLoop \in Seq(Generations)
  BY DEF OpenInv, OpenTypeOK
<1>5. probes[epoch + 1].pc = "unborn"
  BY <1>1 DEF OpenInv, Started
<1>6. \A g \in Generations : g # epoch + 1 => probes'[g] = probes[g]
  BY <1>3, <1>4
<1>7. probes'[epoch + 1] = [path |-> path, pc |-> "probing"]
  BY <1>1, <1>3, <1>4
<1>8. Started'
  BY <1>1, <1>3, <1>6, <1>7 DEF OpenInv, Started, Generations
<1>9. \A i \in 1 .. Len(openLoop) : openLoop[i] \in Generations /\ openLoop[i] # epoch + 1
  BY <1>4, <1>5 DEF OpenInv, PostedOnce
<1>10. PostedOnce'
  BY <1>3, <1>6, <1>9 DEF OpenInv, PostedOnce
<1>11. ~ Queued(epoch + 1)
  BY <1>9 DEF Queued
<1>12. SlotsFull'
  BY <1>3, <1>6, <1>7, <1>11 DEF OpenInv, SlotsFull, Queued
<1> QED
  BY <1>2, <1>8, <1>10, <1>12 DEF OpenInv

\* A worker fills its own slot, and no other.
LEMMA StoreKeepsInv ==
  ASSUME OpenInv, NEW g \in Generations, StoreOutcome(g)
  PROVE  OpenInv'
<1>1. /\ probes' = [probes EXCEPT ![g].pc = "stored"]
      /\ slots' = [slots EXCEPT ![g] = probes[g].path]
      /\ openLoop' = openLoop /\ epoch' = epoch /\ opened' = opened
      /\ probes[g].pc = "probing"
  BY DEF StoreOutcome
<1>2. /\ probes \in [Generations -> [path : Paths \cup {NoPath},
                                   pc : {"unborn", "probing", "stored", "posted"}]]
      /\ slots \in [Generations -> Paths \cup {NoPath}]
      /\ openLoop \in Seq(Generations)
  BY DEF OpenInv, OpenTypeOK
<1>3. probes'[g] = [path |-> probes[g].path, pc |-> "stored"] /\ slots'[g] = probes[g].path
  BY <1>1, <1>2
<1>4. \A h \in Generations : h # g => probes'[h] = probes[h] /\ slots'[h] = slots[h]
  BY <1>1, <1>2
<1>5. OpenTypeOK'
  BY <1>1, <1>2 DEF OpenInv, OpenTypeOK
<1>6. Started'
  BY <1>1, <1>3, <1>4 DEF OpenInv, Started
<1>7. \A i \in 1 .. Len(openLoop) : openLoop[i] \in Generations /\ openLoop[i] # g
  BY <1>1, <1>2 DEF OpenInv, PostedOnce
<1>8. PostedOnce'
  BY <1>1, <1>4, <1>7 DEF OpenInv, PostedOnce
<1>9. SlotsFull'
  BY <1>1, <1>3, <1>4 DEF OpenInv, SlotsFull, Queued
<1> QED
  BY <1>5, <1>6, <1>8, <1>9 DEF OpenInv

\* The closure of a finished probe joins the event loop behind the others.
LEMMA PostKeepsInv ==
  ASSUME OpenInv, NEW g \in Generations, PostFinalize(g)
  PROVE  OpenInv'
<1>1. /\ probes' = [probes EXCEPT ![g].pc = "posted"]
      /\ openLoop' = Append(openLoop, g)
      /\ slots' = slots /\ epoch' = epoch /\ opened' = opened
      /\ probes[g].pc = "stored"
  BY DEF PostFinalize
<1>2. /\ probes \in [Generations -> [path : Paths \cup {NoPath},
                                   pc : {"unborn", "probing", "stored", "posted"}]]
      /\ openLoop \in Seq(Generations)
  BY DEF OpenInv, OpenTypeOK
<1>3. probes'[g] = [path |-> probes[g].path, pc |-> "posted"]
  BY <1>1, <1>2
<1>4. \A h \in Generations : h # g => probes'[h] = probes[h]
  BY <1>1, <1>2
<1>5. /\ openLoop' \in Seq(Generations)
      /\ Len(openLoop') = Len(openLoop) + 1 /\ Len(openLoop) \in Nat
      /\ \A i \in 1 .. Len(openLoop) : openLoop'[i] = openLoop[i]
      /\ openLoop'[Len(openLoop) + 1] = g
  BY <1>1, <1>2, AppendElements
<1>6. OpenTypeOK'
  BY <1>1, <1>2, <1>5 DEF OpenInv, OpenTypeOK
<1>7. Started'
  BY <1>1, <1>3, <1>4 DEF OpenInv, Started
<1>8. \A i \in 1 .. Len(openLoop) : openLoop[i] \in Generations /\ openLoop[i] # g
  BY <1>1, <1>2 DEF OpenInv, PostedOnce
<1>9. PostedOnce'
  <2>1. \A i \in 1 .. Len(openLoop') : i \in 1 .. Len(openLoop) \/ i = Len(openLoop) + 1
    BY <1>5
  <2>2. \A i \in 1 .. Len(openLoop') : probes'[openLoop'[i]].pc = "posted"
    BY <2>1, <1>3, <1>4, <1>5, <1>8 DEF OpenInv, PostedOnce
  <2>3. \A i, j \in 1 .. Len(openLoop') : openLoop'[i] = openLoop'[j] => i = j
    BY <2>1, <1>5, <1>8 DEF OpenInv, PostedOnce
  <2> QED
    BY <2>2, <2>3 DEF PostedOnce
<1>10. \A h \in Generations : Queued(h)' <=> Queued(h) \/ h = g
  BY <1>1, QueuedAfterPost DEF OpenInv
<1>11. SlotsFull'
  BY <1>1, <1>3, <1>4, <1>10 DEF OpenInv, SlotsFull
<1> QED
  BY <1>6, <1>7, <1>9, <1>11 DEF OpenInv

\* Any delivery, stale or not: the closures that stay keep their slots.
LEMMA DeliveryKeepsInv ==
  ASSUME OpenInv, DropStaleOpen \/ FinalizeOpen
  PROVE  OpenInv'
<1>1. openLoop # <<>> /\ openLoop' = Tail(openLoop) /\ probes' = probes /\ epoch' = epoch
  BY DEF DropStaleOpen, FinalizeOpen
<1>2. /\ openLoop \in Seq(Generations)
      /\ slots \in [Generations -> Paths \cup {NoPath}]
      /\ opened \in Paths \cup {NoPath}
  BY DEF OpenInv, OpenTypeOK
<1>3. /\ openLoop' \in Seq(Generations)
      /\ Len(openLoop) \in Nat /\ Len(openLoop) >= 1
      /\ Len(openLoop') = Len(openLoop) - 1
      /\ \A i \in 1 .. Len(openLoop) - 1 : openLoop'[i] = openLoop[i + 1]
  BY <1>1, <1>2, TailElements
<1>4. /\ Head(openLoop) \in Generations
      /\ \A h \in Generations : Queued(h)' <=> Queued(h) /\ h # Head(openLoop)
  BY <1>1, QueuedAfterDelivery DEF OpenInv
<1>5. /\ slots' \in [Generations -> Paths \cup {NoPath}] /\ opened' \in Paths \cup {NoPath}
      /\ \A h \in Generations : h # Head(openLoop) => slots'[h] = slots[h]
  <2>1. CASE DropStaleOpen
    BY <2>1, <1>2 DEF DropStaleOpen
  <2>2. CASE FinalizeOpen
    <3>1. Head(openLoop) = epoch /\ slots' = [slots EXCEPT ![epoch] = NoPath]
          /\ opened' = slots[epoch]
      BY <2>2 DEF FinalizeOpen, take_outcome
    <3> QED
      BY <3>1, <1>2, <1>4
  <2> QED
    BY <2>1, <2>2
<1>6. OpenTypeOK'
  BY <1>1, <1>3, <1>5 DEF OpenInv, OpenTypeOK
<1>7. Started'
  BY <1>1 DEF OpenInv, Started
<1>8. PostedOnce'
  <2>1. \A i \in 1 .. Len(openLoop') :
          i \in 1 .. Len(openLoop) - 1 /\ i + 1 \in 1 .. Len(openLoop)
    BY <1>3
  <2>2. \A i \in 1 .. Len(openLoop') : probes[openLoop'[i]].pc = "posted"
    BY <2>1, <1>3 DEF OpenInv, PostedOnce
  <2>3. ASSUME NEW i \in 1 .. Len(openLoop'), NEW j \in 1 .. Len(openLoop'),
               openLoop'[i] = openLoop'[j]
        PROVE  i = j
    <3>1. openLoop[i + 1] = openLoop[j + 1]
      BY <2>1, <2>3, <1>3
    <3>2. i + 1 = j + 1
      BY <3>1, <2>1 DEF OpenInv, PostedOnce
    <3> QED
      BY <3>2, <2>1
  <2> QED
    BY <1>1, <2>2, <2>3 DEF PostedOnce
<1>9. SlotsFull'
  <2>1. SUFFICES ASSUME NEW g \in Generations, probes[g].pc = "stored" \/ Queued(g)'
                 PROVE  slots'[g] = probes[g].path
    BY <1>1 DEF SlotsFull
  <2>2. g # Head(openLoop)
    <3>1. Queued(Head(openLoop)) /\ probes[Head(openLoop)].pc = "posted"
      BY <1>1, <1>2, <1>3, TailElements, QueuedAfterDelivery DEF OpenInv, PostedOnce
    <3> QED
      BY <3>1, <2>1, <1>4
  <2>3. probes[g].pc = "stored" \/ Queued(g)
    BY <2>1, <1>4
  <2> QED
    BY <2>2, <2>3, <1>5 DEF OpenInv, SlotsFull
<1> QED
  BY <1>6, <1>7, <1>8, <1>9 DEF OpenInv

\* Type correctness and slot ownership hold in every reachable state.
THEOREM OpenInvariant == OpenSpec => []OpenInv
<1>1. OpenInit => OpenInv
  <2> SUFFICES ASSUME OpenInit PROVE OpenInv
    OBVIOUS
  <2>1. OpenTypeOK
    BY OpenAssumption DEF OpenInit, OpenTypeOK, Generations, Unborn
  <2>2. Started
    BY OpenAssumption DEF OpenInit, Started, Generations, Unborn
  <2>3. PostedOnce
    BY DEF OpenInit, PostedOnce
  <2>4. SlotsFull
    BY DEF OpenInit, SlotsFull, Queued, Unborn, Generations
  <2> QED
    BY <2>1, <2>2, <2>3, <2>4 DEF OpenInv
<1>2. OpenInv /\ [OpenNext]_openVars => OpenInv'
  <2> SUFFICES ASSUME OpenInv, [OpenNext]_openVars PROVE OpenInv'
    OBVIOUS
  <2>1. CASE \E path \in Paths : Start(path)
    BY <2>1, StartKeepsInv
  <2>2. CASE \E g \in Generations : StoreOutcome(g)
    BY <2>2, StoreKeepsInv
  <2>3. CASE \E g \in Generations : PostFinalize(g)
    BY <2>3, PostKeepsInv
  <2>4. CASE DropStaleOpen \/ FinalizeOpen
    BY <2>4, DeliveryKeepsInv
  <2>5. CASE UNCHANGED openVars
    BY <2>5 DEF openVars, OpenInv, OpenTypeOK, Started, PostedOnce, SlotsFull, Queued
  <2> QED
    BY <2>1, <2>2, <2>3, <2>4, <2>5 DEF OpenNext, OpenWork, OpenDeliver
<1> QED
  BY <1>1, <1>2, PTL DEF OpenSpec

-----------------------------------------------------------------------------
(* The refinement: a start asks, a finalize lands, every other step is a    *)
(* stutter of LatestRequest.                                                *)

\* A start makes its path the wanted one, whatever was under way.
LEMMA StartAsks ==
  ASSUME OpenInv, NEW path \in Paths, Start(path)
  PROVE  Open!Ask(path)
<1>1. epoch + 1 \in Generations /\ epoch \in Nat /\ epoch' = epoch + 1
  BY OpenAssumption DEF OpenInv, OpenTypeOK, Start, Generations
<1>2. probes'[epoch'] = [path |-> path, pc |-> "probing"]
  BY <1>1 DEF OpenInv, OpenTypeOK, Start
<1>3. Wanted' = path
  BY <1>1, <1>2 DEF Wanted, OpenPending
<1> QED
  BY <1>3 DEF Open!Ask, Start

\* While the newest worker finishes, its path stays the wanted one.
LEMMA WorkStutters ==
  ASSUME OpenInv, NEW g \in Generations, OpenWork(g)
  PROVE  UNCHANGED <<Wanted, opened>>
<1>1. /\ epoch' = epoch /\ opened' = opened
      /\ \A h \in Generations : probes'[h].path = probes[h].path
      /\ \A h \in Generations : h # g => probes'[h] = probes[h]
  BY DEF OpenInv, OpenTypeOK, OpenWork, StoreOutcome, PostFinalize
<1>2. epoch = 0 \/ epoch \in Generations
  BY OpenAssumption DEF OpenInv, OpenTypeOK, Generations
<1>3. CASE StoreOutcome(g)
  <2>1. probes[g].pc = "probing" /\ probes'[g].pc = "stored" /\ openLoop' = openLoop
    BY <1>3 DEF OpenInv, OpenTypeOK, StoreOutcome
  <2>2. OpenPending' = OpenPending
    BY <1>1, <1>2, <2>1 DEF OpenPending, Queued
  <2> QED
    BY <1>1, <1>2, <2>2 DEF Wanted, OpenPending
<1>4. CASE PostFinalize(g)
  <2>1. probes[g].pc = "stored" /\ probes'[g].pc = "posted" /\ openLoop' = Append(openLoop, g)
    BY <1>4 DEF OpenInv, OpenTypeOK, PostFinalize
  <2>2. \A h \in Generations : Queued(h)' <=> Queued(h) \/ h = g
    BY <2>1, QueuedAfterPost DEF OpenInv
  <2>3. OpenPending' <=> OpenPending
    BY <1>1, <1>2, <2>1, <2>2 DEF OpenPending
  <2> QED
    BY <1>1, <1>2, <2>3 DEF Wanted, OpenPending
<1> QED
  BY <1>3, <1>4 DEF OpenWork

\* The closure at the head belongs to a finished probe, so the current one
\* finds its slot full and is never taken for a superseded one.
LEMMA HeadSlot ==
  ASSUME OpenInv, openLoop # <<>>
  PROVE  LET head == Head(openLoop) IN
         /\ head \in Generations /\ Queued(head)
         /\ probes[head].pc = "posted"
         /\ slots[head] = probes[head].path /\ slots[head] \in Paths
<1>1. openLoop \in Seq(Generations)
  BY DEF OpenInv, OpenTypeOK
<1>2. Head(openLoop) = openLoop[1] /\ Head(openLoop) \in Generations
      /\ Len(openLoop) \in Nat /\ Len(openLoop) >= 1
  BY <1>1, TailElements
<1>3. probes[Head(openLoop)].pc = "posted" /\ Queued(Head(openLoop))
  BY <1>2 DEF OpenInv, PostedOnce, Queued
<1>4. slots[Head(openLoop)] = probes[Head(openLoop)].path
  BY <1>2, <1>3 DEF OpenInv, SlotsFull
<1>5. probes[Head(openLoop)].path \in Paths
  BY <1>2, <1>3 DEF OpenInv, Started
<1> QED
  BY <1>2, <1>3, <1>4, <1>5

\* A superseded closure takes nothing of the newest open with it.
LEMMA DropStutters ==
  ASSUME OpenInv, DropStaleOpen
  PROVE  UNCHANGED <<Wanted, opened>>
<1>1. openLoop # <<>> /\ take_outcome(Head(openLoop)) = NoPath /\ openLoop' = Tail(openLoop)
      /\ epoch' = epoch /\ probes' = probes /\ opened' = opened
  BY DEF DropStaleOpen
<1>2. Head(openLoop) # epoch
  BY <1>1, HeadSlot, OpenAssumption DEF take_outcome
<1>3. \A h \in Generations : Queued(h)' <=> Queued(h) /\ h # Head(openLoop)
  BY <1>1, QueuedAfterDelivery DEF OpenInv
<1>4. epoch = 0 \/ epoch \in Generations
  BY OpenAssumption DEF OpenInv, OpenTypeOK, Generations
<1>5. OpenPending' <=> OpenPending
  BY <1>1, <1>2, <1>3, <1>4 DEF OpenPending
<1> QED
  BY <1>1, <1>5 DEF Wanted, OpenPending

\* The closure of the newest open lands its path, and nothing is wanted then.
LEMMA FinalizeLands ==
  ASSUME OpenInv, FinalizeOpen
  PROVE  Open!Land
<1>1. openLoop # <<>> /\ take_outcome(Head(openLoop)) # NoPath /\ openLoop' = Tail(openLoop)
      /\ epoch' = epoch /\ probes' = probes /\ opened' = take_outcome(Head(openLoop))
  BY DEF FinalizeOpen
<1>2. Head(openLoop) = epoch /\ opened' = slots[epoch]
  BY <1>1 DEF take_outcome
<1>3. epoch \in Generations /\ Queued(epoch) /\ probes[epoch].pc = "posted"
      /\ slots[epoch] = probes[epoch].path /\ slots[epoch] \in Paths
  BY <1>1, <1>2, HeadSlot
<1>4. epoch # 0
  BY <1>3 DEF Generations
<1>5. ~ Queued(epoch)'
  BY <1>1, <1>2, <1>3, QueuedAfterDelivery DEF OpenInv
<1>6. Wanted = slots[epoch]
  BY <1>3, <1>4 DEF Wanted, OpenPending
<1>7. Wanted' = NoPath
  <2>1. ~ OpenPending'
    BY <1>1, <1>3, <1>5 DEF OpenPending
  <2> QED
    BY <2>1 DEF Wanted
<1> QED
  BY <1>2, <1>3, <1>6, <1>7, OpenAssumption DEF Open!Land

\* The open lands its newest request, and only that: whatever the order in
\* which workers end and closures run, a superseded path is never opened.
THEOREM OnlyNewestOpenLands == Spec => Open!SafeSpec
<1>1. OpenInit => Open!Init
  BY DEF OpenInit, Open!Init, Wanted, OpenPending
<1>2. OpenInv /\ [OpenNext]_openVars => [Open!Next]_Open!vars
  <2> SUFFICES ASSUME OpenInv, [OpenNext]_openVars PROVE [Open!Next]_Open!vars
    OBVIOUS
  <2>1. CASE \E path \in Paths : Start(path)
    BY <2>1, StartAsks DEF Open!Next
  <2>2. CASE \E g \in Generations : OpenWork(g)
    BY <2>2, WorkStutters DEF Open!vars
  <2>3. CASE DropStaleOpen
    BY <2>3, DropStutters DEF Open!vars
  <2>4. CASE FinalizeOpen
    BY <2>4, FinalizeLands DEF Open!Next
  <2>5. CASE UNCHANGED openVars
    BY <2>5 DEF openVars, Open!vars, Wanted, OpenPending, Queued
  <2> QED
    BY <2>1, <2>2, <2>3, <2>4, <2>5 DEF OpenNext, OpenDeliver
<1> QED
  BY <1>1, <1>2, OpenInvariant, StepOfEach, PTL DEF Spec, Init, OpenSpec, Open!SafeSpec

-----------------------------------------------------------------------------
(* The bulk add. *)

\* The probes of a batch that have not counted down, the worker that is to
\* post its finalize closure, and that closure waiting in the event loop.
Uncounted(g) == {i \in 1 .. batches[g].total : jobs[g][i] \in {"probing", "pushed"}}
Closing(g) == {i \in 1 .. batches[g].total : jobs[g][i] \in {"last", "ticked"}}
FinalizeOf(g) == [kind |-> "finalize", epoch |-> g]
Waiting(g) == \E k \in 1 .. Len(addLoop) : addLoop[k] = FinalizeOf(g)

\* A generation has one worker per path once it was started, and none before.
Born ==
  /\ \A g \in Adds : g > addEpoch => batches[g] = NoBatch
  /\ \A g \in Adds, i \in Indices : jobs[g][i] # "unborn" <=> i <= batches[g].total

\* The shared counter is the number of workers that have not counted down.
Counted == \A g \in Adds : batches[g].remaining = Cardinality(Uncounted(g))

\* Every worker has counted down before the batch is closed, and it is closed
\* once: by one worker, with one closure, which is applied at most once.
ClosedOnce ==
  /\ \A g \in Adds :
       Closing(g) # {} \/ Waiting(g) \/ applied.epoch = g => Uncounted(g) = {}
  /\ \A g \in Adds : \A i, j \in Closing(g) : i = j
  /\ \A g \in Adds : Closing(g) # {} => ~ Waiting(g) /\ applied.epoch # g
  /\ \A g \in Adds : Waiting(g) => applied.epoch # g

\* The finalize closures of the event loop are all different, and none is of a
\* generation that was not started.
QueuedOnce ==
  /\ \A k, l \in 1 .. Len(addLoop) :
       addLoop[k].kind = "finalize" /\ addLoop[l] = addLoop[k] => k = l
  /\ \A k \in 1 .. Len(addLoop) : addLoop[k].epoch <= addEpoch

\* Until a batch is applied it holds the outcome of every probe that is over.
OutcomesKept ==
  \A g \in Adds : g > applied.epoch =>
    batches[g].outcomes = {i \in 1 .. batches[g].total : jobs[g][i] # "probing"}

AddInv ==
  /\ AddTypeOK /\ Born /\ Counted /\ ClosedOnce /\ QueuedOnce /\ OutcomesKept
  /\ applied.epoch <= addEpoch
  /\ WholeBatchApplied

\* The index of a path is between 1 and the size of its batch.
LEMMA IndexFacts ==
  /\ Indices \subseteq Nat \ {0} /\ Adds \subseteq Nat \ {0}
  /\ \A n \in BatchSizes \cup {0} : n \in Nat /\ 1 .. n \subseteq Indices
  /\ \A i \in Indices : \A j \in 0 .. i : j \in Indices \cup {0}
<1>1. Indices \subseteq Nat \ {0} /\ Adds \subseteq Nat \ {0}
  BY AddAssumption DEF Indices, Adds
<1>2. \A n \in BatchSizes \cup {0} : n \in Nat /\ 1 .. n \subseteq Indices
  BY AddAssumption DEF Indices
<1>3. ASSUME NEW i \in Indices, NEW j \in 0 .. i PROVE j \in Indices \cup {0}
  <2>1. PICK n \in BatchSizes : i \in 1 .. n
    BY DEF Indices
  <2>2. n \in Nat
    BY AddAssumption
  <2>3. CASE j = 0
    BY <2>3
  <2>4. CASE j # 0
    <3>1. j \in 1 .. n
      BY <2>1, <2>2, <2>4
    <3> QED
      BY <3>1 DEF Indices
  <2> QED
    BY <2>3, <2>4
<1> QED
  BY <1>1, <1>2, <1>3

\* The workers of a batch are finitely many.
LEMMA UncountedFinite ==
  ASSUME AddTypeOK, NEW g \in Adds
  PROVE  /\ batches[g].total \in Nat /\ Uncounted(g) \subseteq 1 .. batches[g].total
         /\ IsFiniteSet(Uncounted(g)) /\ Cardinality(Uncounted(g)) \in Nat
<1>1. batches[g].total \in Nat
  BY IndexFacts DEF AddTypeOK
<1>2. IsFiniteSet(1 .. batches[g].total)
  BY <1>1, FS_Interval
<1>3. Uncounted(g) \subseteq 1 .. batches[g].total
  BY DEF Uncounted
<1> QED
  BY <1>1, <1>2, <1>3, FS_Subset, FS_CardinalityType

\* A closure names a generation.
LEMMA ClosureType ==
  ASSUME AddTypeOK
  PROVE  /\ Len(addLoop) \in Nat
         /\ \A k \in 1 .. Len(addLoop) :
              addLoop[k] \in [kind : {"progress", "finalize"}, epoch : Adds]
<1>1. addLoop \in Seq([kind : {"progress", "finalize"}, epoch : Adds])
  BY DEF AddTypeOK
<1> QED
  BY <1>1, ElementsOf

LEMMA StartKeepsAddInv ==
  ASSUME AddInv, NEW n \in BatchSizes, StartAdd(n)
  PROVE  AddInv'
<1>0. PICK e : e = addEpoch + 1
  OBVIOUS
<1>1. /\ e \in Adds /\ addEpoch \in Nat /\ addEpoch' = e /\ e \in 0 .. MaxAdds
      /\ n \in Nat \ {0} /\ n \in BatchSizes \cup {0} /\ 1 .. n \subseteq Indices
      /\ n \in Indices
  BY <1>0, AddAssumption, IndexFacts DEF AddInv, AddTypeOK, StartAdd, Adds, Indices
<1>2. /\ batches' = [batches EXCEPT ![e] = Batch(n)]
      /\ jobs' = [jobs EXCEPT ![e] =
                    [i \in Indices |-> IF i <= n THEN "probing" ELSE "unborn"]]
      /\ bar' = TRUE /\ addLoop' = addLoop /\ applied' = applied
  BY <1>0 DEF StartAdd
<1>3. /\ batches'[e] = Batch(n)
      /\ jobs'[e] = [i \in Indices |-> IF i <= n THEN "probing" ELSE "unborn"]
      /\ \A g \in Adds : g # e => batches'[g] = batches[g] /\ jobs'[g] = jobs[g]
  BY <1>1, <1>2 DEF AddInv, AddTypeOK
<1>4. applied.epoch \in Nat /\ applied.epoch <= addEpoch
  BY DEF AddInv, AddTypeOK
<1>5. AddTypeOK'
  <2>1. Batch(n) \in [total : BatchSizes \cup {0}, outcomes : SUBSET Indices,
                      remaining : Indices \cup {0}]
    BY <1>1 DEF Batch
  <2>2. batches' \in [Adds -> [total : BatchSizes \cup {0}, outcomes : SUBSET Indices,
                      remaining : Indices \cup {0}]]
    BY <1>2, <2>1 DEF AddInv, AddTypeOK
  <2>3. jobs' \in [Adds -> [Indices -> {"unborn", "probing", "pushed", "counted", "last",
                                        "ticked", "done"}]]
    BY <1>2 DEF AddInv, AddTypeOK
  <2> QED
    BY <1>1, <1>2, <2>2, <2>3 DEF AddInv, AddTypeOK
<1>6. Born'
  <2>1. \A g \in Adds : g > e => batches'[g] = NoBatch
    BY <1>0, <1>1, <1>3, IndexFacts DEF AddInv, Born
  <2>2. \A i \in Indices : jobs'[e][i] # "unborn" <=> i <= batches'[e].total
    BY <1>3 DEF Batch
  <2> QED
    BY <1>1, <1>3, <2>1, <2>2 DEF AddInv, Born
<1>7. /\ Uncounted(e)' = 1 .. n /\ Closing(e)' = {}
      /\ \A g \in Adds : g # e => Uncounted(g)' = Uncounted(g) /\ Closing(g)' = Closing(g)
      /\ \A g \in Adds : Waiting(g)' = Waiting(g)
  <2>1. batches'[e].total = n /\ \A i \in 1 .. n : jobs'[e][i] = "probing"
    BY <1>1, <1>3 DEF Batch
  <2>2. Uncounted(e)' = 1 .. n /\ Closing(e)' = {}
    BY <2>1 DEF Uncounted, Closing
  <2>3. \A g \in Adds : g # e => Uncounted(g)' = Uncounted(g) /\ Closing(g)' = Closing(g)
    BY <1>3 DEF Uncounted, Closing
  <2> QED
    BY <1>2, <2>2, <2>3 DEF Waiting
<1>8. ~ Waiting(e) /\ applied.epoch # e
  BY <1>0, <1>1, <1>4 DEF AddInv, QueuedOnce, Waiting, FinalizeOf
<1>9. Counted'
  <2>1. Cardinality(1 .. n) = n
    BY <1>1, FS_Interval
  <2>2. batches'[e].remaining = n
    BY <1>3 DEF Batch
  <2> QED
    BY <1>1, <1>3, <1>7, <2>1, <2>2 DEF AddInv, Counted
<1>10. ClosedOnce'
  BY <1>1, <1>2, <1>7, <1>8 DEF AddInv, ClosedOnce
<1>11. QueuedOnce'
  <2>1. \A k \in 1 .. Len(addLoop) : addLoop[k].epoch \in Nat
    BY ClosureType, IndexFacts DEF AddInv
  <2> QED
    BY <1>0, <1>1, <1>2, <2>1 DEF AddInv, QueuedOnce
<1>12. OutcomesKept'
  <2>1. batches'[e].outcomes = {i \in 1 .. batches'[e].total : jobs'[e][i] # "probing"}
    BY <1>1, <1>3 DEF Batch
  <2>2. \A g \in Adds : g # e /\ g > applied.epoch =>
          batches'[g].outcomes = {i \in 1 .. batches'[g].total : jobs'[g][i] # "probing"}
    BY <1>3 DEF AddInv, OutcomesKept
  <2> QED
    BY <1>2, <2>1, <2>2 DEF OutcomesKept
<1>13. WholeBatchApplied' /\ applied'.epoch <= addEpoch'
  <2>1. applied.epoch # 0 => applied.epoch \in Adds
    BY <1>4 DEF AddInv, AddTypeOK, Adds
  <2> QED
    BY <1>0, <1>1, <1>2, <1>3, <1>4, <1>8, <2>1 DEF AddInv, WholeBatchApplied
<1> QED
  BY <1>5, <1>6, <1>9, <1>10, <1>11, <1>12, <1>13 DEF AddInv

\* A worker's step changes the progress of that worker only.
LEMMA WorkerStep ==
  ASSUME AddInv, NEW g \in Adds, NEW i \in Indices, NEW pc,
         pc \in {"pushed", "counted", "last", "ticked", "done"},
         jobs[g][i] # "unborn", jobs' = [jobs EXCEPT ![g][i] = pc],
         \A h \in Adds : batches'[h].total = batches[h].total
  PROVE  /\ i \in 1 .. batches[g].total
         /\ jobs' \in [Adds -> [Indices -> {"unborn", "probing", "pushed", "counted", "last",
                                           "ticked", "done"}]]
         /\ jobs'[g][i] = pc
         /\ \A j \in Indices : j # i => jobs'[g][j] = jobs[g][j]
         /\ \A h \in Adds : h # g => jobs'[h] = jobs[h]
         /\ \A h \in Adds : h # g => Uncounted(h)' = Uncounted(h) /\ Closing(h)' = Closing(h)
         /\ Uncounted(g)' = IF pc = "pushed" THEN Uncounted(g) \cup {i} ELSE Uncounted(g) \ {i}
         /\ Closing(g)' = IF pc \in {"last", "ticked"} THEN Closing(g) \cup {i} ELSE Closing(g) \ {i}
         /\ (\A h \in Adds : h > addEpoch => batches'[h] = NoBatch) /\ addEpoch' = addEpoch => Born'
<1>1. /\ i \in 1 .. batches[g].total
      /\ \A h \in Adds : batches[h].total \in Nat /\ 1 .. batches[h].total \subseteq Indices
  BY IndexFacts DEF AddInv, Born, AddTypeOK
<1>2. jobs' \in [Adds -> [Indices -> {"unborn", "probing", "pushed", "counted", "last",
                                     "ticked", "done"}]]
  BY DEF AddInv, AddTypeOK
<1>3. /\ jobs'[g][i] = pc
      /\ \A j \in Indices : j # i => jobs'[g][j] = jobs[g][j]
      /\ \A h \in Adds : h # g => jobs'[h] = jobs[h]
  BY DEF AddInv, AddTypeOK
<1>4. \A h \in Adds : h # g => Uncounted(h)' = Uncounted(h) /\ Closing(h)' = Closing(h)
  BY <1>3 DEF Uncounted, Closing
<1>5. Uncounted(g)' = IF pc = "pushed" THEN Uncounted(g) \cup {i} ELSE Uncounted(g) \ {i}
  <2>1. Uncounted(g)' = {j \in 1 .. batches[g].total : jobs'[g][j] \in {"probing", "pushed"}}
    BY DEF Uncounted
  <2> QED
    BY <1>1, <1>3, <2>1 DEF Uncounted
<1>6. Closing(g)' = IF pc \in {"last", "ticked"} THEN Closing(g) \cup {i} ELSE Closing(g) \ {i}
  <2>1. Closing(g)' = {j \in 1 .. batches[g].total : jobs'[g][j] \in {"last", "ticked"}}
    BY DEF Closing
  <2> QED
    BY <1>1, <1>3, <2>1 DEF Closing
<1>7. ASSUME \A h \in Adds : h > addEpoch => batches'[h] = NoBatch, addEpoch' = addEpoch
      PROVE  Born'
  <2>1. \A h \in Adds, j \in Indices : jobs'[h][j] # "unborn" <=> jobs[h][j] # "unborn"
    BY <1>3
  <2> QED
    BY <1>7, <2>1 DEF Born, AddInv
<1> QED
  BY <1>1, <1>2, <1>3, <1>4, <1>5, <1>6, <1>7

\* A push adds the outcome of the probe that is over.
LEMMA PushKeepsAddInv ==
  ASSUME AddInv, NEW g \in Adds, NEW i \in Indices, Push(g, i)
  PROVE  AddInv'
<1>1. /\ jobs[g][i] = "probing" /\ jobs' = [jobs EXCEPT ![g][i] = "pushed"]
      /\ batches' = [batches EXCEPT ![g].outcomes = @ \cup {i}]
      /\ addEpoch' = addEpoch /\ addLoop' = addLoop /\ bar' = bar /\ applied' = applied
  BY DEF Push
<1>2. /\ batches'[g] = [batches[g] EXCEPT !.outcomes = @ \cup {i}]
      /\ \A h \in Adds : h # g => batches'[h] = batches[h]
      /\ batches' \in [Adds -> [total : BatchSizes \cup {0}, outcomes : SUBSET Indices,
                      remaining : Indices \cup {0}]]
  BY <1>1 DEF AddInv, AddTypeOK
<1>3. /\ batches'[g].outcomes = batches[g].outcomes \cup {i}
      /\ batches'[g].total = batches[g].total
      /\ batches'[g].remaining = batches[g].remaining
  BY <1>2 DEF AddInv, AddTypeOK
<1>4. /\ i \in 1 .. batches[g].total
      /\ jobs' \in [Adds -> [Indices -> {"unborn", "probing", "pushed", "counted", "last",
                                        "ticked", "done"}]]
      /\ jobs'[g][i] = "pushed"
      /\ \A j \in Indices : j # i => jobs'[g][j] = jobs[g][j]
      /\ \A h \in Adds : h # g => jobs'[h] = jobs[h]
      /\ \A h \in Adds : h # g => Uncounted(h)' = Uncounted(h) /\ Closing(h)' = Closing(h)
      /\ Uncounted(g)' = Uncounted(g) \cup {i} /\ Closing(g)' = Closing(g) \ {i}
      /\ (\A h \in Adds : h > addEpoch => batches'[h] = NoBatch) /\ addEpoch' = addEpoch => Born'
  BY <1>1, <1>2, <1>3, WorkerStep
<1>5. i \in Uncounted(g) /\ i \notin Closing(g)
  BY <1>1, <1>4 DEF Uncounted, Closing
<1>6. Uncounted(g)' = Uncounted(g) /\ Closing(g)' = Closing(g)
  BY <1>4, <1>5
<1>7. AddTypeOK'
  BY <1>1, <1>2, <1>4 DEF AddInv, AddTypeOK
<1>8. Born'
  <2>1. batches[g].total # 0
    BY <1>4
  <2>2. \A h \in Adds : h > addEpoch => batches'[h] = NoBatch
    BY <1>2, <2>1 DEF AddInv, Born, NoBatch
  <2> QED
    BY <1>1, <1>4, <2>2
<1>9. Counted'
  BY <1>2, <1>3, <1>4, <1>6 DEF AddInv, Counted
<1>10. \A h \in Adds : Waiting(h)' = Waiting(h)
  BY <1>1 DEF Waiting
<1>11. ClosedOnce'
  BY <1>1, <1>4, <1>6, <1>10 DEF AddInv, ClosedOnce
<1>12. QueuedOnce'
  BY <1>1 DEF AddInv, QueuedOnce
<1>13. OutcomesKept'
  <2>1. g > applied.epoch =>
          batches'[g].outcomes = {j \in 1 .. batches[g].total : jobs'[g][j] # "probing"}
    <3>1. 1 .. batches[g].total \subseteq Indices
      BY IndexFacts DEF AddInv, AddTypeOK
    <3> QED
      BY <1>3, <1>4, <3>1 DEF AddInv, OutcomesKept
  <2> QED
    BY <1>1, <1>2, <1>3, <1>4, <2>1 DEF AddInv, OutcomesKept
<1>14. WholeBatchApplied' /\ applied'.epoch <= addEpoch'
  <2>1. applied.epoch # 0 => applied.epoch \in Adds
    BY DEF AddInv, AddTypeOK, Adds
  <2> QED
    BY <1>1, <1>2, <1>3, <2>1 DEF AddInv, WholeBatchApplied
<1> QED
  BY <1>7, <1>8, <1>9, <1>11, <1>12, <1>13, <1>14 DEF AddInv

\* The worker that counts down to zero is the only one left, so none closes the
\* batch yet, and every probe is over when it does.
LEMMA CountDownKeepsAddInv ==
  ASSUME AddInv, NEW g \in Adds, NEW i \in Indices, CountDown(g, i)
  PROVE  AddInv'
<1>0. PICK pc : pc = IF IsLast(batches[g].remaining) THEN "last" ELSE "counted"
  OBVIOUS
<1>1. /\ jobs[g][i] = "pushed" /\ jobs' = [jobs EXCEPT ![g][i] = pc]
      /\ batches' = [batches EXCEPT ![g].remaining = @ - 1]
      /\ addEpoch' = addEpoch /\ addLoop' = addLoop /\ bar' = bar /\ applied' = applied
  BY <1>0 DEF CountDown
<1>2. /\ batches'[g] = [batches[g] EXCEPT !.remaining = @ - 1]
      /\ \A h \in Adds : h # g => batches'[h] = batches[h]
      /\ batches'[g].outcomes = batches[g].outcomes
      /\ batches'[g].total = batches[g].total
      /\ batches'[g].remaining = batches[g].remaining - 1
  BY <1>1 DEF AddInv, AddTypeOK
<1>3. pc \in {"last", "counted"}
  BY <1>0
<1>4. /\ i \in 1 .. batches[g].total
      /\ jobs' \in [Adds -> [Indices -> {"unborn", "probing", "pushed", "counted", "last",
                                        "ticked", "done"}]]
      /\ jobs'[g][i] = pc
      /\ \A j \in Indices : j # i => jobs'[g][j] = jobs[g][j]
      /\ \A h \in Adds : h # g => jobs'[h] = jobs[h]
      /\ \A h \in Adds : h # g => Uncounted(h)' = Uncounted(h) /\ Closing(h)' = Closing(h)
      /\ Uncounted(g)' = Uncounted(g) \ {i}
      /\ Closing(g)' = IF pc \in {"last", "ticked"} THEN Closing(g) \cup {i} ELSE Closing(g) \ {i}
      /\ (\A h \in Adds : h > addEpoch => batches'[h] = NoBatch) /\ addEpoch' = addEpoch => Born'
  BY <1>1, <1>2, <1>3, WorkerStep
<1>5. /\ i \in Uncounted(g) /\ Closing(g) = {} /\ ~ Waiting(g) /\ applied.epoch # g
  <2>1. i \in Uncounted(g)
    BY <1>1, <1>4 DEF Uncounted
  <2> QED
    BY <2>1 DEF AddInv, ClosedOnce
<1>6. /\ IsFiniteSet(Uncounted(g)) /\ Cardinality(Uncounted(g)) \in Nat
      /\ batches[g].remaining = Cardinality(Uncounted(g))
      /\ Cardinality(Uncounted(g)') = Cardinality(Uncounted(g)) - 1
      /\ batches[g].total \in Nat
  <2>1. /\ IsFiniteSet(Uncounted(g)) /\ Cardinality(Uncounted(g)) \in Nat
        /\ batches[g].total \in Nat
    BY UncountedFinite DEF AddInv
  <2>2. Cardinality(Uncounted(g) \ {i}) = Cardinality(Uncounted(g)) - 1
    BY <1>5, <2>1, FS_RemoveElement
  <2> QED
    BY <1>4, <2>1, <2>2 DEF AddInv, Counted
<1>7. pc = "last" => Uncounted(g)' = {}
  <2> SUFFICES ASSUME pc = "last" PROVE Uncounted(g)' = {}
    OBVIOUS
  <2>1. batches[g].remaining - 1 = 0
    BY <1>0 DEF IsLast
  <2>2. IsFiniteSet(Uncounted(g) \ {i}) /\ Cardinality(Uncounted(g) \ {i}) = 0
    BY <1>4, <1>6, <2>1, FS_RemoveElement
  <2> QED
    BY <1>4, <2>2, FS_EmptySet
<1>8. AddTypeOK'
  <2>1. batches[g].remaining - 1 \in Indices \cup {0}
    <3>1. batches[g].remaining \in Nat \ {0}
      <4>1. Cardinality(Uncounted(g)) # 0
        BY <1>5, <1>6, FS_EmptySet
      <4> QED
        BY <1>6, <4>1
    <3>2. batches[g].remaining \in Indices
      BY <3>1 DEF AddInv, AddTypeOK
    <3>3. batches[g].remaining - 1 \in 0 .. batches[g].remaining
      BY <3>1
    <3> QED
      BY <3>2, <3>3, IndexFacts
  <2>2. batches' \in [Adds -> [total : BatchSizes \cup {0}, outcomes : SUBSET Indices,
                      remaining : Indices \cup {0}]]
    BY <1>1, <2>1 DEF AddInv, AddTypeOK
  <2> QED
    BY <1>1, <1>4, <2>2 DEF AddInv, AddTypeOK
<1>9. Born'
  <2>1. batches[g].total # 0
    BY <1>4
  <2>2. \A h \in Adds : h > addEpoch => batches'[h] = NoBatch
    BY <1>2, <2>1 DEF AddInv, Born, NoBatch
  <2> QED
    BY <1>1, <1>4, <2>2
<1>10. Counted'
  BY <1>2, <1>4, <1>6 DEF AddInv, Counted
<1>11. ClosedOnce'
  <2>1. \A h \in Adds : Waiting(h)' = Waiting(h)
    BY <1>1 DEF Waiting
  <2>2. CASE pc = "last"
    <3>1. Closing(g)' = {i} /\ Uncounted(g)' = {}
      BY <1>4, <1>5, <1>7, <2>2
    <3> QED
      BY <1>1, <1>4, <1>5, <2>1, <3>1 DEF AddInv, ClosedOnce
  <2>3. CASE pc = "counted"
    <3>1. Closing(g)' = {}
      BY <1>4, <1>5, <2>3
    <3> QED
      BY <1>1, <1>4, <1>5, <2>1, <3>1 DEF AddInv, ClosedOnce
  <2> QED
    BY <1>3, <2>2, <2>3
<1>12. QueuedOnce'
  BY <1>1 DEF AddInv, QueuedOnce
<1>13. OutcomesKept'
  <2>1. /\ 1 .. batches[g].total \subseteq Indices
        /\ \A j \in Indices : jobs'[g][j] # "probing" <=> jobs[g][j] # "probing"
    BY <1>1, <1>3, <1>4, IndexFacts DEF AddInv, AddTypeOK
  <2>2. {j \in 1 .. batches[g].total : jobs'[g][j] # "probing"}
          = {j \in 1 .. batches[g].total : jobs[g][j] # "probing"}
    BY <2>1
  <2> QED
    BY <1>1, <1>2, <1>4, <2>2 DEF AddInv, OutcomesKept
<1>14. WholeBatchApplied' /\ applied'.epoch <= addEpoch'
  <2>1. applied.epoch # 0 => applied.epoch \in Adds
    BY DEF AddInv, AddTypeOK, Adds
  <2> QED
    BY <1>1, <1>2, <2>1 DEF AddInv, WholeBatchApplied
<1> QED
  BY <1>8, <1>9, <1>10, <1>11, <1>12, <1>13, <1>14 DEF AddInv

\* A closure posted behind the others.
LEMMA PostedStep ==
  ASSUME AddInv, NEW c \in [kind : {"progress", "finalize"}, epoch : Adds],
         addLoop' = Append(addLoop, c)
  PROVE  /\ addLoop' \in Seq([kind : {"progress", "finalize"}, epoch : Adds])
         /\ \A g \in Adds : Waiting(g)' <=> Waiting(g) \/ c = FinalizeOf(g)
         /\ (c.kind = "finalize" => ~ Waiting(c.epoch)) /\ c.epoch <= addEpoch
              /\ addEpoch' = addEpoch => QueuedOnce'
<1>1. /\ addLoop' \in Seq([kind : {"progress", "finalize"}, epoch : Adds])
      /\ Len(addLoop') = Len(addLoop) + 1 /\ Len(addLoop) \in Nat
      /\ \A k \in 1 .. Len(addLoop) : addLoop'[k] = addLoop[k]
      /\ addLoop'[Len(addLoop) + 1] = c
  BY AppendElements DEF AddInv, AddTypeOK
<1>2. \A g \in Adds : Waiting(g)' <=> Waiting(g) \/ c = FinalizeOf(g)
  BY <1>1 DEF Waiting
<1>3. ASSUME c.kind = "finalize" => ~ Waiting(c.epoch), c.epoch <= addEpoch,
             addEpoch' = addEpoch
      PROVE  QueuedOnce'
  <2>1. ASSUME NEW k \in 1 .. Len(addLoop'), NEW l \in 1 .. Len(addLoop'),
               addLoop'[k].kind = "finalize", addLoop'[l] = addLoop'[k]
        PROVE  k = l
    <3>1. c.kind = "finalize" => c = FinalizeOf(c.epoch)
      BY DEF FinalizeOf
    <3>2. c.kind = "finalize" => \A j \in 1 .. Len(addLoop) : addLoop[j] # c
      BY <1>3, <3>1 DEF Waiting
    <3> QED
      BY <1>1, <2>1, <3>2 DEF AddInv, QueuedOnce
  <2>2. \A k \in 1 .. Len(addLoop') : addLoop'[k].epoch <= addEpoch
    BY <1>1, <1>3 DEF AddInv, QueuedOnce
  <2> QED
    BY <1>3, <2>1, <2>2 DEF QueuedOnce
<1> QED
  BY <1>1, <1>2, <1>3

\* A worker's two posts: the progress tick, and then, by the last worker only,
\* the finalize closure.
LEMMA PostKeepsAddInv ==
  ASSUME AddInv, NEW g \in Adds, NEW i \in Indices,
         PostProgress(g, i) \/ PostAddFinalize(g, i)
  PROVE  AddInv'
<1>0. PICK pc, c :
        /\ pc = IF jobs[g][i] = "last" THEN "ticked" ELSE "done"
        /\ c = [kind |-> IF jobs[g][i] = "ticked" THEN "finalize" ELSE "progress",
                epoch |-> g]
  OBVIOUS
<1>1. /\ jobs[g][i] \in {"counted", "last", "ticked"}
      /\ jobs' = [jobs EXCEPT ![g][i] = pc] /\ addLoop' = Append(addLoop, c)
      /\ batches' = batches /\ addEpoch' = addEpoch /\ bar' = bar /\ applied' = applied
  <2>1. CASE PostProgress(g, i)
    BY <1>0, <2>1 DEF PostProgress, AddInv, AddTypeOK
  <2>2. CASE PostAddFinalize(g, i)
    BY <1>0, <2>2 DEF PostAddFinalize
  <2> QED
    BY <2>1, <2>2
<1>2. /\ i \in 1 .. batches[g].total
      /\ jobs' \in [Adds -> [Indices -> {"unborn", "probing", "pushed", "counted", "last",
                                        "ticked", "done"}]]
      /\ jobs'[g][i] = pc
      /\ \A j \in Indices : j # i => jobs'[g][j] = jobs[g][j]
      /\ \A h \in Adds : h # g => jobs'[h] = jobs[h]
      /\ \A h \in Adds : h # g => Uncounted(h)' = Uncounted(h) /\ Closing(h)' = Closing(h)
      /\ Uncounted(g)' = Uncounted(g) \ {i}
      /\ Closing(g)' = IF pc = "ticked" THEN Closing(g) \cup {i} ELSE Closing(g) \ {i}
      /\ (\A h \in Adds : h > addEpoch => batches'[h] = NoBatch) /\ addEpoch' = addEpoch => Born'
  <2>1. pc \in {"ticked", "done"}
    BY <1>0
  <2> QED
    BY <1>1, <2>1, WorkerStep
<1>3. Uncounted(g)' = Uncounted(g)
  BY <1>1, <1>2 DEF Uncounted
<1>4. /\ (i \in Closing(g) <=> jobs[g][i] \in {"last", "ticked"})
      /\ pc = "ticked" => Closing(g)' = Closing(g)
  BY <1>0, <1>1, <1>2 DEF Closing
<1>5. /\ c \in [kind : {"progress", "finalize"}, epoch : Adds]
      /\ c.epoch = g /\ (c.kind = "finalize" <=> jobs[g][i] = "ticked")
      /\ \A h \in Adds : c = FinalizeOf(h) <=> jobs[g][i] = "ticked" /\ h = g
  BY <1>0, <1>1 DEF FinalizeOf
<1>6. /\ addLoop' \in Seq([kind : {"progress", "finalize"}, epoch : Adds])
      /\ \A h \in Adds : Waiting(h)' <=> Waiting(h) \/ c = FinalizeOf(h)
      /\ (c.kind = "finalize" => ~ Waiting(c.epoch)) /\ c.epoch <= addEpoch
           /\ addEpoch' = addEpoch => QueuedOnce'
  BY <1>1, <1>5, PostedStep
<1>7. AddTypeOK'
  BY <1>1, <1>2, <1>6 DEF AddInv, AddTypeOK
<1>8. Born'
  BY <1>1, <1>2 DEF AddInv, Born
<1>9. Counted'
  BY <1>1, <1>2, <1>3 DEF AddInv, Counted
<1>10. g <= addEpoch
  <2>1. batches[g].total # 0 /\ addEpoch \in Nat /\ g \in Nat
    BY <1>2, IndexFacts DEF AddInv, AddTypeOK
  <2> QED
    BY <2>1 DEF AddInv, Born, NoBatch
<1>11. QueuedOnce'
  BY <1>1, <1>4, <1>5, <1>6, <1>10 DEF AddInv, ClosedOnce
<1>12. ClosedOnce'
  <2>1. CASE jobs[g][i] = "ticked"
    <3>1. /\ i \in Closing(g) /\ Closing(g)' = {} /\ Uncounted(g) = {} /\ applied.epoch # g
          /\ \A h \in Adds : Waiting(h)' <=> Waiting(h) \/ h = g
      <4>1. i \in Closing(g) /\ pc = "done"
        BY <1>0, <1>4, <2>1
      <4>2. Closing(g)' = Closing(g) \ {i}
        BY <1>2, <4>1
      <4>3. Closing(g)' = {}
        BY <4>1, <4>2 DEF AddInv, ClosedOnce
      <4> QED
        BY <1>5, <1>6, <2>1, <4>1, <4>3 DEF AddInv, ClosedOnce
    <3>2. /\ applied' = applied /\ Uncounted(g)' = {}
          /\ \A h \in Adds : Uncounted(h)' = Uncounted(h)
          /\ \A h \in Adds : h # g => /\ Closing(h)' = Closing(h)
                                      /\ Waiting(h)' <=> Waiting(h)
      BY <1>1, <1>2, <1>3, <3>1
    <3>3. ASSUME NEW h \in Adds
          PROVE  /\ Closing(h)' # {} \/ Waiting(h)' \/ applied.epoch = h => Uncounted(h)' = {}
                 /\ \A j, k \in Closing(h)' : j = k
                 /\ Closing(h)' # {} => ~ Waiting(h)' /\ applied.epoch # h
                 /\ Waiting(h)' => applied.epoch # h
      <4>1. CASE h = g
        <5>1. Closing(h)' = {} /\ Uncounted(h)' = {} /\ applied.epoch # h
          BY <3>1, <3>2, <4>1
        <5> QED
          BY <5>1
      <4>2. CASE h # g
        <5>1. /\ Closing(h)' = Closing(h) /\ Uncounted(h)' = Uncounted(h)
              /\ Waiting(h)' <=> Waiting(h)
          BY <3>2, <4>2
        <5>2. /\ Closing(h) # {} \/ Waiting(h) \/ applied.epoch = h => Uncounted(h) = {}
              /\ \A j, k \in Closing(h) : j = k
              /\ Closing(h) # {} => ~ Waiting(h) /\ applied.epoch # h
              /\ Waiting(h) => applied.epoch # h
          BY DEF AddInv, ClosedOnce
        <5> QED
          BY <5>1, <5>2, Zenon
      <4> QED
        BY <4>1, <4>2
    <3> QED
      BY <3>2, <3>3 DEF ClosedOnce
  <2>2. CASE jobs[g][i] \in {"last", "counted"}
    <3>1. Closing(g)' = Closing(g) /\ \A h \in Adds : Waiting(h)' <=> Waiting(h)
      <4>1. jobs[g][i] = "counted" => i \notin Closing(g)
        BY <1>4
      <4> QED
        BY <1>0, <1>2, <1>4, <1>5, <1>6, <2>2, <4>1
    <3> QED
      BY <1>1, <1>2, <1>3, <3>1 DEF AddInv, ClosedOnce
  <2> QED
    BY <1>1, <2>1, <2>2
<1>13. OutcomesKept'
  <2>1. /\ 1 .. batches[g].total \subseteq Indices
        /\ \A j \in Indices : jobs'[g][j] # "probing" <=> jobs[g][j] # "probing"
    BY <1>0, <1>1, <1>2, IndexFacts DEF AddInv, AddTypeOK
  <2>2. {j \in 1 .. batches[g].total : jobs'[g][j] # "probing"}
          = {j \in 1 .. batches[g].total : jobs[g][j] # "probing"}
    BY <2>1
  <2> QED
    BY <1>1, <1>2, <2>2 DEF AddInv, OutcomesKept
<1>14. WholeBatchApplied' /\ applied'.epoch <= addEpoch'
  BY <1>1 DEF AddInv, WholeBatchApplied
<1> QED
  BY <1>7, <1>8, <1>9, <1>11, <1>12, <1>13, <1>14 DEF AddInv

\* The closure at the head, and the queue it leaves behind.
LEMMA DeliveredStep ==
  ASSUME AddInv, addLoop # <<>>, addLoop' = Tail(addLoop), addEpoch' = addEpoch
  PROVE  LET head == Head(addLoop) IN
         /\ head \in [kind : {"progress", "finalize"}, epoch : Adds]
         /\ \A g \in Adds : head = FinalizeOf(g) => Waiting(g) /\ ~ Waiting(g)'
         /\ addLoop' \in Seq([kind : {"progress", "finalize"}, epoch : Adds])
         /\ \A g \in Adds : Waiting(g)' => Waiting(g)
         /\ QueuedOnce'
<1>1. /\ Head(addLoop) = addLoop[1]
      /\ Head(addLoop) \in [kind : {"progress", "finalize"}, epoch : Adds]
      /\ addLoop' \in Seq([kind : {"progress", "finalize"}, epoch : Adds])
      /\ Len(addLoop) \in Nat /\ Len(addLoop) >= 1
      /\ Len(addLoop') = Len(addLoop) - 1
      /\ \A k \in 1 .. Len(addLoop) - 1 : addLoop'[k] = addLoop[k + 1]
  <2>1. addLoop \in Seq([kind : {"progress", "finalize"}, epoch : Adds])
    BY DEF AddInv, AddTypeOK
  <2> QED
    BY <2>1, TailElements
<1>2. \A k \in 1 .. Len(addLoop') :
        k + 1 \in 1 .. Len(addLoop) /\ k + 1 # 1 /\ addLoop'[k] = addLoop[k + 1]
  BY <1>1
<1>3. \A g \in Adds : Waiting(g)' => Waiting(g)
  BY <1>2 DEF Waiting
<1>5. 1 \in 1 .. Len(addLoop)
  BY <1>1
<1>6. ASSUME NEW g \in Adds, Head(addLoop) = FinalizeOf(g)
      PROVE  Waiting(g) /\ ~ Waiting(g)'
  <2>1. addLoop[1] = FinalizeOf(g) /\ FinalizeOf(g).kind = "finalize"
    BY <1>1, <1>6 DEF FinalizeOf
  <2>2. \A k \in 1 .. Len(addLoop') : addLoop'[k] # FinalizeOf(g)
    BY <1>2, <1>5, <2>1 DEF AddInv, QueuedOnce
  <2> QED
    BY <1>5, <2>1, <2>2 DEF Waiting
<1>7. QueuedOnce'
  <2>1. \A k, l \in 1 .. Len(addLoop') :
          addLoop'[k].kind = "finalize" /\ addLoop'[l] = addLoop'[k] => k = l
    BY <1>1, <1>2 DEF AddInv, QueuedOnce
  <2>2. \A k \in 1 .. Len(addLoop') : addLoop'[k].epoch <= addEpoch'
    BY <1>2 DEF AddInv, QueuedOnce
  <2> QED
    BY <2>1, <2>2 DEF QueuedOnce
<1> QED
  BY <1>1, <1>3, <1>6, <1>7

\* A superseded closure and a progress tick leave the batches alone.
LEMMA DropKeepsAddInv ==
  ASSUME AddInv, DropStaleAdd \/ DeliverProgress
  PROVE  AddInv'
<1>1. /\ addLoop # <<>> /\ addLoop' = Tail(addLoop)
      /\ batches' = batches /\ jobs' = jobs /\ addEpoch' = addEpoch /\ applied' = applied
      /\ bar' \in BOOLEAN
  BY DEF DropStaleAdd, DeliverProgress, AddInv, AddTypeOK
<1>2. /\ addLoop' \in Seq([kind : {"progress", "finalize"}, epoch : Adds])
      /\ \A g \in Adds : Waiting(g)' => Waiting(g)
      /\ QueuedOnce'
  BY <1>1, DeliveredStep
<1>3. \A g \in Adds : Uncounted(g)' = Uncounted(g) /\ Closing(g)' = Closing(g)
  BY <1>1 DEF Uncounted, Closing
<1>4. AddTypeOK'
  BY <1>1, <1>2 DEF AddInv, AddTypeOK
<1>5. Born' /\ Counted' /\ OutcomesKept'
  BY <1>1, <1>3 DEF AddInv, Born, Counted, OutcomesKept
<1>6. ClosedOnce'
  BY <1>1, <1>2, <1>3 DEF AddInv, ClosedOnce
<1> QED
  BY <1>1, <1>2, <1>4, <1>5, <1>6 DEF AddInv, WholeBatchApplied

\* What the finalize of the newest generation finds: every worker has counted
\* down, and its batch was not applied before.
LEMMA FinalizeFacts ==
  ASSUME AddInv, DeliverFinalize
  PROVE  /\ addEpoch \in Adds /\ Head(addLoop) = FinalizeOf(addEpoch)
         /\ applied.epoch < addEpoch /\ Uncounted(addEpoch) = {} /\ Closing(addEpoch) = {}
         /\ batches[addEpoch].outcomes = 1 .. batches[addEpoch].total
<1>1. /\ addLoop # <<>> /\ Head(addLoop).epoch = addEpoch /\ Head(addLoop).kind = "finalize"
      /\ addLoop' = Tail(addLoop) /\ addEpoch' = addEpoch
  BY DEF DeliverFinalize
<1>2. /\ Head(addLoop) \in [kind : {"progress", "finalize"}, epoch : Adds]
      /\ \A g \in Adds : Head(addLoop) = FinalizeOf(g) => Waiting(g)
  BY <1>1, DeliveredStep
<1>3. addEpoch \in Adds /\ Head(addLoop) = FinalizeOf(addEpoch)
  BY <1>1, <1>2 DEF FinalizeOf
<1>4. /\ Uncounted(addEpoch) = {} /\ Closing(addEpoch) = {} /\ applied.epoch # addEpoch
  BY <1>2, <1>3 DEF AddInv, ClosedOnce
<1>5. applied.epoch < addEpoch
  BY <1>4 DEF AddInv, AddTypeOK
<1>6. batches[addEpoch].outcomes
        = {i \in 1 .. batches[addEpoch].total : jobs[addEpoch][i] # "probing"}
  BY <1>3, <1>5 DEF AddInv, OutcomesKept, AddTypeOK
<1>7. \A i \in 1 .. batches[addEpoch].total : jobs[addEpoch][i] # "probing"
  BY <1>4 DEF Uncounted
<1> QED
  BY <1>3, <1>4, <1>5, <1>6, <1>7

LEMMA FinalizeKeepsAddInv ==
  ASSUME AddInv, DeliverFinalize
  PROVE  AddInv'
<1>0. PICK e : e = addEpoch
  OBVIOUS
<1>1. /\ addLoop # <<>> /\ addLoop' = Tail(addLoop) /\ jobs' = jobs /\ addEpoch' = addEpoch
      /\ applied' = [epoch |-> e, outcomes |-> batches[e].outcomes]
      /\ batches' = [batches EXCEPT ![e].outcomes = {}] /\ bar' = FALSE
  BY <1>0 DEF DeliverFinalize
<1>2. /\ e \in Adds /\ Head(addLoop) = FinalizeOf(e)
      /\ applied.epoch < e /\ Uncounted(e) = {} /\ Closing(e) = {}
      /\ batches[e].outcomes = 1 .. batches[e].total
  BY <1>0, FinalizeFacts
<1>3. /\ addLoop' \in Seq([kind : {"progress", "finalize"}, epoch : Adds])
      /\ \A g \in Adds : Waiting(g)' => Waiting(g)
      /\ ~ Waiting(e)'
      /\ QueuedOnce'
  BY <1>1, <1>2, DeliveredStep
<1>4. /\ batches' \in [Adds -> [total : BatchSizes \cup {0}, outcomes : SUBSET Indices,
                      remaining : Indices \cup {0}]]
      /\ \A g \in Adds : /\ batches'[g].total = batches[g].total
                         /\ batches'[g].remaining = batches[g].remaining
                         /\ g # e => batches'[g] = batches[g]
  BY <1>1, <1>2 DEF AddInv, AddTypeOK
<1>5. \A g \in Adds : Uncounted(g)' = Uncounted(g) /\ Closing(g)' = Closing(g)
  BY <1>1, <1>4 DEF Uncounted, Closing
<1>6. applied'.epoch = e /\ applied'.outcomes = 1 .. batches[e].total
  BY <1>1, <1>2
<1>7. AddTypeOK'
  <2>1. applied' \in [epoch : 0 .. MaxAdds, outcomes : SUBSET Indices]
    BY <1>0, <1>1, <1>2, IndexFacts DEF AddInv, AddTypeOK
  <2> QED
    BY <1>1, <1>3, <1>4, <2>1 DEF AddInv, AddTypeOK
<1>8. Born'
  BY <1>0, <1>1, <1>2, <1>4 DEF AddInv, AddTypeOK, Born
<1>9. Counted'
  BY <1>4, <1>5 DEF AddInv, Counted
<1>10. ClosedOnce'
  BY <1>2, <1>3, <1>5, <1>6 DEF AddInv, ClosedOnce
<1>11. OutcomesKept'
  <2>1. \A g \in Adds : g > e => g # e /\ g > applied.epoch
    BY <1>2, IndexFacts DEF AddInv, AddTypeOK
  <2> QED
    BY <1>1, <1>4, <1>6, <2>1 DEF AddInv, OutcomesKept
<1>12. WholeBatchApplied' /\ applied'.epoch <= addEpoch'
  BY <1>0, <1>1, <1>2, <1>4, <1>6, IndexFacts DEF WholeBatchApplied
<1> QED
  BY <1>3, <1>7, <1>8, <1>9, <1>10, <1>11, <1>12 DEF AddInv

LEMMA AddInitInv == AddInit => AddInv
  <1> SUFFICES ASSUME AddInit PROVE AddInv
    OBVIOUS
  <1>1. /\ addEpoch = 0 /\ addLoop = <<>> /\ bar = FALSE
        /\ applied = [epoch |-> 0, outcomes |-> {}]
        /\ batches = [g \in Adds |-> NoBatch]
        /\ jobs = [g \in Adds |-> [i \in Indices |-> "unborn"]]
    BY DEF AddInit
  <1>2. AddTypeOK
    <2>1. /\ addEpoch \in 0 .. MaxAdds /\ applied \in [epoch : 0 .. MaxAdds, outcomes : SUBSET Indices]
          /\ addLoop \in Seq([kind : {"progress", "finalize"}, epoch : Adds])
      BY <1>1, AddAssumption
    <2>2. NoBatch \in [total : BatchSizes \cup {0}, outcomes : SUBSET Indices,
                      remaining : Indices \cup {0}]
      BY DEF NoBatch
    <2> QED
      BY <1>1, <2>1, <2>2, Zenon DEF AddTypeOK
  <1>3. Born
    BY <1>1, IndexFacts DEF Born, NoBatch
  <1>4. \A g \in Adds : Uncounted(g) = {} /\ Closing(g) = {} /\ ~ Waiting(g)
    BY <1>1 DEF Uncounted, Closing, Waiting, NoBatch
  <1>5. Counted
    BY <1>1, <1>4, FS_EmptySet DEF Counted, NoBatch
  <1>6. ClosedOnce
    BY <1>1, <1>4, IndexFacts DEF ClosedOnce
  <1>7. QueuedOnce
    BY <1>1 DEF QueuedOnce
  <1>8. OutcomesKept
    BY <1>1 DEF OutcomesKept, NoBatch
  <1> QED
    BY <1>1, <1>2, <1>3, <1>5, <1>6, <1>7, <1>8 DEF AddInv, WholeBatchApplied

LEMMA AddStepInv == AddInv /\ [AddNext]_addVars => AddInv'
  <1> SUFFICES ASSUME AddInv, [AddNext]_addVars PROVE AddInv'
    OBVIOUS
  <1>1. CASE \E n \in BatchSizes : StartAdd(n)
    BY <1>1, StartKeepsAddInv
  <1>2. CASE \E g \in Adds, i \in Indices : AddWork(g, i)
    BY <1>2, PushKeepsAddInv, CountDownKeepsAddInv, PostKeepsAddInv DEF AddWork
  <1>3. CASE AddDeliver
    BY <1>3, DropKeepsAddInv, FinalizeKeepsAddInv DEF AddDeliver
  <1>4. CASE UNCHANGED addVars
    BY <1>4 DEF addVars, AddInv, AddTypeOK, Born, Counted, ClosedOnce, QueuedOnce, OutcomesKept,
                WholeBatchApplied, Uncounted, Closing, Waiting
  <1> QED
    BY <1>1, <1>2, <1>3, <1>4 DEF AddNext

\* A batch is applied whole: with any number of paths, in any order of pushes,
\* countdowns and closures, beside any number of opens.
THEOREM BatchesAreWhole == Spec => []WholeBatchApplied
  <1>1. AddInv => WholeBatchApplied
    BY DEF AddInv
  <1> QED
    BY <1>1, AddInitInv, AddStepInv, StepOfEach, PTL DEF Spec, Init

\* The add lands its newest batch, once, and never one that was superseded.
THEOREM OnlyNewestBatchLands == Spec => Add!SafeSpec
  <1>1. AddInit => Add!Init
    BY DEF AddInit, Add!Init
  <1>2. AddInv /\ [AddNext]_addVars => [Add!Next]_Add!vars
    <2> SUFFICES ASSUME AddInv, [AddNext]_addVars PROVE [Add!Next]_Add!vars
      OBVIOUS
    <2>1. ASSUME NEW n \in BatchSizes, StartAdd(n) PROVE Add!Next
      <3>1. /\ addEpoch' = addEpoch + 1 /\ applied' = applied /\ addEpoch + 1 \in Adds
            /\ applied.epoch # addEpoch + 1
        BY <2>1, AddAssumption DEF StartAdd, AddInv, AddTypeOK, Adds
      <3>2. Add!Ask(addEpoch + 1)
        BY <3>1 DEF Add!Ask
      <3> QED
        BY <3>1, <3>2 DEF Add!Next
    <2>2. ASSUME NEW g \in Adds, NEW i \in Indices, AddWork(g, i)
          PROVE  UNCHANGED <<addEpoch, applied>>
      BY <2>2 DEF AddWork, Push, CountDown, PostProgress, PostAddFinalize
    <2>3. ASSUME DropStaleAdd \/ DeliverProgress PROVE UNCHANGED <<addEpoch, applied>>
      BY <2>3 DEF DropStaleAdd, DeliverProgress
    <2>4. ASSUME DeliverFinalize PROVE Add!Land
      <3>1. /\ addEpoch \in Adds /\ applied.epoch < addEpoch
        BY <2>4, FinalizeFacts
      <3>2. addEpoch' = addEpoch /\ applied'.epoch = addEpoch
        BY <2>4 DEF DeliverFinalize
      <3>3. addEpoch \in Nat \ {0} /\ applied.epoch # addEpoch
        BY <3>1, IndexFacts DEF AddInv, AddTypeOK
      <3> QED
        BY <3>2, <3>3 DEF Add!Land
    <2>5. UNCHANGED <<addEpoch, applied>> => UNCHANGED Add!vars
      BY DEF Add!vars
    <2> QED
      BY <2>1, <2>2, <2>3, <2>4, <2>5 DEF AddNext, AddDeliver, Add!Next, addVars
  <1> QED
    BY <1>1, <1>2, AddInitInv, AddStepInv, StepOfEach, PTL DEF Spec, Init, Add!SafeSpec
=============================================================================
