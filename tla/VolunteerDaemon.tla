-------------------------- MODULE VolunteerDaemon --------------------------
(***************************************************************************)
(* The volunteer daemon's custody of the work units it was handed: the     *)
(* fetcher and its prefetch buffer, the execution slots, the coordinator   *)
(* loop that starts units and submits results, the retry of results the    *)
(* head did not answer for, the files that survive the process, and the    *)
(* ways the process ends - Stop, SuspendAndQuit, a crash - and starts      *)
(* again.                                                                  *)
(*                                                                         *)
(* The head is the environment: one copy per unit, closed the way          *)
(* WorkUnit and DispatchCache close it.  A call is delivered and answered, *)
(* delivered and not answered, or not delivered.  Whether a unit fits the  *)
(* machine is left open; a work directory stands for everything a run      *)
(* leaves on disk, checkpoints included.                                   *)
(***************************************************************************)
EXTENDS Naturals, FiniteSets, Sequences

CONSTANTS
    Units, Slots,
    QueueDepth,         \* maxDepth of the prefetch queue
    Rare,               \* the kinds of rare event that occur
    MaxRare             \* bound: rare events in a behaviour

RareEvents == {"crash", "quit", "stop", "pause", "restart", "abort", "lost", "final",
               "again", "unfit", "failure", "late", "detached"}

ASSUME DaemonAssumption ==
    /\ QueueDepth \in Nat \ {0} /\ MaxRare \in Nat
    /\ Rare \subseteq RareEvents
    /\ IsFiniteSet(Slots) /\ "none" \notin Units

VARIABLES
    copy,       \* the head's record of this machine's copy of each unit
    final,      \* units the head has finalized without this machine
    missing,    \* live copies the machine's last held report leaves out
    queue,      \* prefetch buffer: <<unit, again>>, again for a restarted unit
    starting,   \* units popped by fillSlots whose slot is not active yet
    slot,       \* each slot's step and unit
    results,    \* the results channel
    main,       \* the coordinator: where it is and what it has in hand
    retry,      \* the pending-result retry
    fetch,      \* the fetcher
    stopping,   \* Stop was called: the run context is cancelled
    shutting,   \* shuttingDown
    preserved,  \* units whose slot kept its work directory for the next launch
    activeFile, bufferFile, pending, dirs,      \* what is on disk
    owed,       \* finished runs whose result the head has not answered for
    rerun,      \* units a restart has sent through the results channel
    twins,      \* units both files of a launch named: in a slot and in the buffer
    overtaken,  \* units run again to the end before the file of an answered result was removed
    used        \* rare events so far

head == <<copy, final, missing>>
disk == <<activeFile, bufferFile, pending, dirs>>
history == <<owed, rerun, twins, overtaken>>
vars == <<copy, final, missing, queue, starting, slot, results, main, retry, fetch, stopping,
          shutting, preserved, activeFile, bufferFile, pending, dirs, owed, rerun,
          twins, overtaken, used>>

None == "none"
Free == [step |-> "free", unit |-> None, restart |-> FALSE]
At(place) == [at |-> place, unit |-> None, answer |-> None]
With(place, u, ans) == [at |-> place, unit |-> u, answer |-> ans]
AtFetch(place) == [at |-> place, held |-> {}, batch |-> {}]

\* A rare event may still happen.
May(kind) == kind \in Rare /\ used < MaxRare /\ used' = used + 1
Up == main.at # "down"

Init ==
    /\ copy = [u \in Units |-> None] /\ final = {} /\ missing = {}
    /\ queue = {} /\ starting = {} /\ slot = [s \in Slots |-> Free] /\ results = <<>>
    /\ main = At("resumeTasks") /\ retry = At("idle") /\ fetch = AtFetch("off")
    /\ stopping = FALSE /\ shutting = FALSE /\ preserved = {}
    /\ activeFile = {} /\ bufferFile = {} /\ pending = {} /\ dirs = {}
    /\ owed = {} /\ rerun = {} /\ twins = {} /\ overtaken = {}
    /\ used = 0

-----------------------------------------------------------------------------
(* What the daemon holds.                                                  *)

Live(u) == copy[u] \in {"reserved", "running"}
Queued(q) == {it[1] : it \in q}
ActiveIn(sl) == {sl[s].unit : s \in {t \in Slots : sl[t].step \in {"starting", "running"}}}
HeldIn(q, st, sl) == Queued(q) \cup st \cup ActiveIn(sl)
heldWorkUnits == HeldIn(queue, starting, slot)

\* GetActivePersistableTasks: the active slots.
persistable == ActiveIn(slot)

\* Where a finished result is while nobody has answered for it.
Carried ==
    pending
    \cup {results[i][1] : i \in {j \in DOMAIN results : results[j][2] = "done"}}
    \cup {slot[s].unit : s \in {t \in Slots : slot[t].step = "done"}}
    \cup (IF main.at \in {"submit", "answer"} THEN {main.unit} ELSE {})

-----------------------------------------------------------------------------
(* The head, from the daemon's side.                                       *)

\* StartWork's answer: whatever live copy there is counts as started.
StartWorkAccepts(u) == Live(u) /\ u \notin final

\* SubmitResult: a live copy, or one the head expired or abandoned, takes the
\* result unless the unit is final; anything else is refused for good.
SubmitAccepts(u) == u \notin final /\ copy[u] \in {"reserved", "running", "abandoned"}

SubmitAt(u) ==
    copy' = [copy EXCEPT ![u] = IF SubmitAccepts(u) THEN "completed"
                                ELSE IF Live(u) THEN "superseded" ELSE @]

\* classifySubmitError: terminal codes end it, all else is retried.
SubmitAnswer(u) == IF SubmitAccepts(u) THEN "accepted" ELSE "refused"

\* AbandonWorkUnit: a copy given back un-run is returned, any other abandoned.
AbandonAt(u, unrun) ==
    copy' = [copy EXCEPT ![u] = IF ~Live(u) THEN @
                                ELSE IF unrun /\ @ = "reserved" THEN "returned" ELSE "abandoned"]

\* A call the daemon does not wait for: it arrives, or is lost.
Abandon(u, unrun) ==
    \/ AbandonAt(u, unrun) /\ UNCHANGED used
    \/ May("lost") /\ UNCHANGED copy

\* reconcileHeldCopies acts on the last report.
ReleaseStale(u) ==
    /\ u \in missing /\ Live(u)
    /\ copy' = [copy EXCEPT ![u] = IF @ = "running" THEN "abandoned" ELSE "returned"]
    /\ missing' = missing \ {u}
    /\ UNCHANGED <<final, queue, starting, slot, results, main, retry, fetch, stopping, shutting,
                   preserved, disk, history, used>>

\* The copy's deadline passes, or its reservation lapses.
ExpireCopy(u) ==
    /\ Live(u) /\ May("late")
    /\ copy' = [copy EXCEPT ![u] = "abandoned"]
    /\ UNCHANGED <<final, missing, queue, starting, slot, results, main, retry, fetch, stopping,
                   shutting, preserved, disk, history>>

\* Other machines' results finalize the unit.
Finalize(u) ==
    /\ u \notin final /\ copy[u] # "completed" /\ May("final")
    /\ final' = final \cup {u}
    /\ UNCHANGED <<copy, missing, queue, starting, slot, results, main, retry, fetch, stopping,
                   shutting, preserved, disk, history>>

-----------------------------------------------------------------------------
(* The fetcher.                                                            *)

\* Mutant of ReadBuffer: a unit between the queue and its slot is not reported.
ReadQueueOnly ==
    /\ Up /\ fetch.at = "idle" /\ ~stopping
    /\ Cardinality(queue) < QueueDepth
    /\ fetch' = [fetch EXCEPT !.at = "slots", !.held = Queued(queue)]
    /\ UNCHANGED <<head, queue, starting, slot, results, main, retry, stopping, shutting,
                   preserved, disk, history, used>>

\* ask, first half of heldWorkUnits: the buffer and the hand-offs under its mutex.
ReadBuffer ==
    /\ Up /\ fetch.at = "idle" /\ ~stopping
    /\ Cardinality(queue) < QueueDepth
    /\ fetch' = [fetch EXCEPT !.at = "slots", !.held = Queued(queue) \cup starting]
    /\ UNCHANGED <<head, queue, starting, slot, results, main, retry, stopping, shutting,
                   preserved, disk, history, used>>

\* Second half: the slots, each under its own mutex.
ReadSlots ==
    /\ Up /\ fetch.at = "slots"
    /\ fetch' = [fetch EXCEPT !.at = "ask", !.held = @ \cup ActiveIn(slot)]
    /\ UNCHANGED <<head, queue, starting, slot, results, main, retry, stopping, shutting,
                   preserved, disk, history, used>>

\* Units the head may hand this machine.
Offered == {u \in Units \ final : copy[u] = None}
OfferedAgain == {u \in Units \ final : copy[u] \in {"returned", "abandoned"}}

\* RequestWorkUnit is delivered: the head notes the report and hands out us.
RequestWorkUnit(us) ==
    /\ Up /\ fetch.at = "ask" /\ ~stopping
    /\ \/ us \subseteq Offered /\ UNCHANGED used
       \/ us # {} /\ us \subseteq OfferedAgain /\ May("again")
    /\ Cardinality(us) <= QueueDepth - Cardinality(queue)
    /\ missing' = {u \in Units : Live(u) /\ u \notin fetch.held}
    /\ copy' = [u \in Units |-> IF u \in us THEN "reserved" ELSE copy[u]]
    /\ fetch' = [at |-> IF us = {} THEN "idle" ELSE "batch", held |-> {}, batch |-> us]
    /\ UNCHANGED <<final, queue, starting, slot, results, main, retry, stopping, shutting,
                   preserved, disk, history>>

\* The request arrives and its reply is lost.
RequestLost(us) ==
    /\ Up /\ fetch.at = "ask" /\ ~stopping /\ May("lost")
    /\ us \subseteq Offered
    /\ missing' = {u \in Units : Live(u) /\ u \notin fetch.held}
    /\ copy' = [u \in Units |-> IF u \in us THEN "reserved" ELSE copy[u]]
    /\ fetch' = AtFetch("idle")
    /\ UNCHANGED <<final, queue, starting, slot, results, main, retry, stopping, shutting,
                   preserved, disk, history>>

\* The fetcher's context has ended: a call not yet made is not sent.
FetchStops ==
    /\ Up /\ stopping /\ fetch.at \in {"idle", "slots", "ask"}
    /\ fetch' = AtFetch("off")
    /\ UNCHANGED <<head, queue, starting, slot, results, main, retry, stopping, shutting,
                   preserved, disk, history, used>>

\* bufferBatch takes its own snapshot of what is held.
BatchBegins ==
    /\ Up /\ fetch.at = "batch" /\ fetch.batch # {}
    /\ fetch' = [fetch EXCEPT !.at = "buffer", !.held = heldWorkUnits]
    /\ UNCHANGED <<head, queue, starting, slot, results, main, retry, stopping, shutting,
                   preserved, disk, history, used>>

\* A unit the machine already holds is skipped.
SkipDuplicate(u) ==
    /\ Up /\ fetch.at = "buffer" /\ u \in fetch.batch \cap fetch.held
    /\ fetch' = [fetch EXCEPT !.batch = @ \ {u}]
    /\ UNCHANGED <<head, queue, starting, slot, results, main, retry, stopping, shutting,
                   preserved, disk, history, used>>

\* Mutant of NewToUs: the batch is not compared with what is held.
AnyOfBatch(u) == u \in fetch.batch

NewToUs(u) == u \in fetch.batch /\ u \notin fetch.held

\* Prepare made the work directory and the unit is buffered.
BufferUnit(u) ==
    /\ Up /\ fetch.at = "buffer" /\ NewToUs(u)
    /\ Cardinality(queue) < QueueDepth
    /\ fetch' = [fetch EXCEPT !.batch = @ \ {u}, !.held = @ \cup {u}]
    /\ queue' = queue \cup {<<u, FALSE>>}
    /\ dirs' = dirs \cup {u}
    /\ UNCHANGED <<head, starting, slot, results, main, retry, stopping, shutting, preserved,
                   activeFile, bufferFile, pending, history, used>>

\* The buffer cannot use it, its queue is full, or its runtime is missing, not
\* trusted or fails to prepare it: it goes back to the head.
ReturnUnit(u, unrun) ==
    /\ Up /\ fetch.at = "buffer" /\ NewToUs(u)
    /\ Cardinality(queue) >= QueueDepth \/ "unfit" \in Rare
    /\ fetch' = [fetch EXCEPT !.batch = @ \ {u}]
    /\ \/ /\ Cardinality(queue) >= QueueDepth /\ unrun
          /\ Abandon(u, unrun)
       \/ May("unfit") /\ AbandonAt(u, unrun)
    /\ UNCHANGED <<final, missing, queue, starting, slot, results, main, retry, stopping,
                   shutting, preserved, disk, history>>

BatchDone ==
    /\ fetch.at \in {"buffer", "batch"} /\ fetch.batch = {}
    /\ fetch' = AtFetch("idle")
    /\ UNCHANGED <<head, queue, starting, slot, results, main, retry, stopping, shutting,
                   preserved, disk, history, used>>

\* sweepBuffer: an item too close to its deadline or to the end of its
\* reservation is dropped without a word to the head.
SweepBuffer(it) ==
    /\ Up /\ it \in queue /\ May("unfit")
    /\ queue' = queue \ {it} /\ dirs' = dirs \ {it[1]}
    /\ UNCHANGED <<head, starting, slot, results, main, retry, fetch, stopping, shutting,
                   preserved, activeFile, bufferFile, pending, history>>

-----------------------------------------------------------------------------
(* The execution slots.                                                    *)

\* The head has answered the retry for a result of u whose file is still there.
Answered(u) == retry.at = "answer" /\ retry.answer # "error" /\ retry.unit = u

\* runSlot's deferred block, for a run that ended: the work directory is kept
\* for the next launch or for a restart, or cleaned up; the slot is inactive
\* before its result is on the channel.
EndSlot(s, kind) ==
    LET u == slot[s].unit
        restarted == slot[s].restart /\ kind \in {"cancelled", "failed"}
        keep == shutting /\ kind \in {"cancelled", "failed"}
    IN  /\ slot' = [slot EXCEPT ![s] =
             [Free EXCEPT !.step = IF restarted /\ ~shutting THEN "again" ELSE kind, !.unit = u]]
        /\ preserved' = IF keep THEN preserved \cup {u} ELSE preserved
        /\ dirs' = IF keep \/ restarted THEN dirs ELSE dirs \ {u}
        /\ owed' = IF kind = "done" THEN owed \cup {u} ELSE owed
        /\ rerun' = IF restarted THEN rerun \cup {u} ELSE rerun
        /\ overtaken' = IF kind = "done" /\ Answered(u) THEN overtaken \cup {u} ELSE overtaken
        /\ UNCHANGED twins

\* StartWork at run-start: any answer but Ok drops the unit, and so does a call
\* that was not answered, delivered or not.
StartWork(s) ==
    /\ Up /\ slot[s].step = "starting"
    /\ LET u == slot[s].unit
       IN  \/ /\ ~stopping /\ StartWorkAccepts(u)
              /\ copy' = [copy EXCEPT ![u] = "running"]
              /\ slot' = [slot EXCEPT ![s].step = "running"]
              /\ UNCHANGED <<preserved, dirs, history, used>>
           \/ /\ ~StartWorkAccepts(u) \/ stopping
              /\ EndSlot(s, "dropped") /\ UNCHANGED <<copy, used>>
           \/ /\ StartWorkAccepts(u) /\ May("lost")
              /\ copy' = [copy EXCEPT ![u] = "running"] \/ UNCHANGED copy
              /\ EndSlot(s, "dropped")
    /\ UNCHANGED <<final, missing, queue, starting, results, main, retry, fetch, stopping,
                   shutting, activeFile, bufferFile, pending>>

\* The run ends by itself: done, with an error, or with a non-zero exit code, which
\* is neither restarted nor preserved.  A suspended process does not end.
EndRun(s, kind) ==
    /\ Up /\ slot[s].step = "running" /\ main.at # "paused"
    /\ \/ kind = "done" /\ UNCHANGED used
       \/ kind \in {"failed", "exited"} /\ May("failure")
    /\ EndSlot(s, kind)
    /\ UNCHANGED <<head, queue, starting, results, main, retry, fetch, stopping, shutting,
                   activeFile, bufferFile, pending>>

\* The run is cancelled: by Stop, AbortTask or RestartTask.
CancelRun(s) ==
    /\ Up /\ slot[s].step = "running"
    /\ \/ stopping /\ UNCHANGED used
       \/ slot[s].restart /\ UNCHANGED used
       \/ ~stopping /\ ~slot[s].restart /\ May("abort")
    /\ EndSlot(s, "cancelled")
    /\ UNCHANGED <<head, queue, starting, results, main, retry, fetch, stopping, shutting,
                   activeFile, bufferFile, pending>>

\* RestartTask marks the slot and cancels its run.
RestartTask(s) ==
    /\ Up /\ slot[s].step = "running" /\ ~slot[s].restart /\ May("restart")
    /\ slot' = [slot EXCEPT ![s].restart = TRUE]
    /\ UNCHANGED <<head, queue, starting, results, main, retry, fetch, stopping, shutting,
                   preserved, disk, history>>

\* Mutant of SendResult: the slot is handed on with the finished unit in it.
SendKeepsUnit(s) ==
    /\ Up /\ slot[s].step \in {"done", "failed", "exited", "cancelled", "dropped", "again"}
    /\ Len(results) < Cardinality(Slots)
    /\ results' = Append(results, <<slot[s].unit, slot[s].step>>)
    /\ slot' = [slot EXCEPT ![s].step = "free"]
    /\ UNCHANGED <<head, queue, starting, main, retry, fetch, stopping, shutting, preserved,
                   disk, history, used>>

\* The result goes on the channel, then the slot is free.
SendResult(s) ==
    /\ Up /\ slot[s].step \in {"done", "failed", "exited", "cancelled", "dropped", "again"}
    /\ Len(results) < Cardinality(Slots)
    /\ results' = Append(results, <<slot[s].unit, slot[s].step>>)
    /\ slot' = [slot EXCEPT ![s] = Free]
    /\ UNCHANGED <<head, queue, starting, main, retry, fetch, stopping, shutting, preserved,
                   disk, history, used>>

-----------------------------------------------------------------------------
(* The coordinator loop.                                                   *)

\* Everything but the coordinator, its queue and its calls is left alone.
OthersIdle == UNCHANGED <<final, missing, slot, retry, fetch, stopping, preserved>>

\* Where handleSlotResult returns to.
Onward == IF shutting THEN At("drain") ELSE At("saveActive")

\* handleSlotResult up to its call to the head.
TakeResult ==
    /\ main.at \in {"top", "drain"} /\ results # <<>>
    /\ LET u == Head(results)[1]
           kind == Head(results)[2]
       IN  /\ main' = CASE kind = "done" -> With("submit", u, None)
                        [] kind \in {"failed", "exited"} -> With("abandon", u, None)
                        [] OTHER -> Onward
           /\ queue' = IF kind = "again" THEN queue \cup {<<u, TRUE>>} ELSE queue
    /\ results' = Tail(results)
    /\ OthersIdle /\ UNCHANGED <<copy, starting, shutting, disk, history, used>>

\* The call to SubmitResult.  Its context ends with the run, except at shutdown.
Submit ==
    /\ main.at = "submit"
    /\ LET u == main.unit
       IN  \/ /\ ~stopping \/ shutting
              /\ SubmitAt(u) /\ owed' = owed \ {u}
              /\ main' = With("answer", u, SubmitAnswer(u)) /\ UNCHANGED used
           \/ /\ stopping /\ ~shutting
              /\ main' = With("answer", u, "error") /\ UNCHANGED <<copy, owed, used>>
           \/ /\ May("lost")
              /\ SubmitAt(u) \/ UNCHANGED copy
              /\ main' = With("answer", u, "error") /\ UNCHANGED owed
    /\ OthersIdle /\ UNCHANGED <<queue, starting, results, shutting, disk, rerun, twins, overtaken>>

\* Mutant of Persists: only a result the head refused is kept.
PersistsRefused(answer) == answer = "refused"

\* Only a submission that may still succeed is kept for the retry.
Persists(answer) == answer = "error"

SubmitAnswered ==
    /\ main.at = "answer"
    /\ pending' = IF Persists(main.answer) THEN pending \cup {main.unit} ELSE pending
    /\ main' = Onward
    /\ OthersIdle /\ UNCHANGED <<copy, queue, starting, results, shutting, activeFile, bufferFile,
                                 dirs, history, used>>

\* abandonUnit, after a run that failed.
AbandonFailed ==
    /\ main.at = "abandon"
    /\ Abandon(main.unit, FALSE)
    /\ main' = Onward
    /\ OthersIdle /\ UNCHANGED <<queue, starting, results, shutting, disk, history>>

\* persistActiveTasks.
SaveActive ==
    /\ main.at = "saveActive"
    /\ activeFile' = persistable
    /\ main' = At("top")
    /\ OthersIdle /\ UNCHANGED <<copy, queue, starting, results, shutting, bufferFile, pending,
                                 dirs, history, used>>

FillSlots ==
    /\ main.at = "top" /\ results = <<>> /\ ~stopping
    /\ main' = At("fill")
    /\ OthersIdle /\ UNCHANGED <<copy, queue, starting, results, shutting, disk, history,
                                 used>>

\* PopFit: some buffered unit fits and a slot is free.
PopFit(it) ==
    /\ main.at = "fill" /\ it \in queue
    /\ \E s \in Slots : slot[s].step = "free"
    /\ queue' = queue \ {it} /\ starting' = starting \cup {it[1]}
    /\ main' = With("popped", it[1], IF it[2] THEN "again" ELSE None)
    /\ OthersIdle /\ UNCHANGED <<copy, results, shutting, disk, history, used>>

\* It cannot finish before its deadline any more: returned un-run.
ReturnPopped ==
    /\ main.at = "popped" /\ main.answer # "again" /\ May("unfit")
    /\ AbandonAt(main.unit, TRUE)
    /\ starting' = starting \ {main.unit} /\ dirs' = dirs \ {main.unit}
    /\ main' = At("fill")
    /\ OthersIdle /\ UNCHANGED <<queue, results, shutting, activeFile, bufferFile, pending,
                                 history>>

StartSlot(s) ==
    /\ main.at = "popped" /\ slot[s].step = "free"
    /\ slot' = [slot EXCEPT ![s] = [step |-> "starting", unit |-> main.unit, restart |-> FALSE]]
    /\ main' = [main EXCEPT !.at = "started"]
    /\ UNCHANGED <<head, queue, starting, results, retry, fetch, stopping, shutting, preserved,
                   disk, history, used>>

\* Mutant of SlotStarted: FinishStart is not called.
StartNotFinished ==
    /\ main.at = "started"
    /\ activeFile' = persistable
    /\ main' = At("fill")
    /\ OthersIdle /\ UNCHANGED <<copy, queue, starting, results, shutting, bufferFile, pending,
                                 dirs, history, used>>

\* persistActiveTasks and FinishStart.
SlotStarted ==
    /\ main.at = "started"
    /\ activeFile' = persistable
    /\ starting' = starting \ {main.unit}
    /\ main' = At("fill")
    /\ OthersIdle /\ UNCHANGED <<copy, queue, results, shutting, bufferFile, pending, dirs,
                                 history, used>>

\* The buffer is saved after the loop's own fill, not after the one a
\* finished slot or an arrival triggers.
FillDone ==
    /\ main.at = "fill" /\ main' \in {At("save"), At("top")}
    /\ OthersIdle /\ UNCHANGED <<copy, queue, starting, results, shutting, disk, history,
                                 used>>

\* persistPrefetchBuffer.
SaveBuffer ==
    /\ main.at = "save"
    /\ bufferFile' = Queued(queue)
    /\ main' = At("top")
    /\ OthersIdle /\ UNCHANGED <<copy, queue, starting, results, shutting, activeFile, pending,
                                 dirs, history, used>>

\* A user pause: the slots are suspended and the loop waits.
Pause ==
    /\ main.at = "top" /\ ~stopping /\ May("pause")
    /\ main' = At("paused")
    /\ OthersIdle /\ UNCHANGED <<copy, queue, starting, results, shutting, disk, history>>

Resume ==
    /\ main.at = "paused" /\ ~stopping
    /\ main' = At("top")
    /\ OthersIdle /\ UNCHANGED <<copy, queue, starting, results, shutting, disk, history,
                                 used>>

-----------------------------------------------------------------------------
(* retryPendingResults.                                                    *)

RetryIdle == UNCHANGED <<final, missing, queue, starting, slot, results, main, fetch, stopping,
                         shutting, preserved>>

RetryPending(u) ==
    /\ Up /\ ~stopping /\ retry.at = "idle" /\ u \in pending
    /\ main.at \notin {"resumeTasks", "resumeBuffer"}
    /\ retry' = With("send", u, None)
    /\ RetryIdle /\ UNCHANGED <<copy, disk, history, used>>

Resubmit ==
    /\ Up /\ retry.at = "send"
    /\ LET u == retry.unit
       IN  \/ /\ ~stopping
              /\ SubmitAt(u) /\ owed' = owed \ {u}
              /\ retry' = With("answer", u, SubmitAnswer(u)) /\ UNCHANGED used
           \/ /\ stopping
              /\ retry' = With("answer", u, "error") /\ UNCHANGED <<copy, owed, used>>
           \/ /\ May("lost")
              /\ SubmitAt(u) \/ UNCHANGED copy
              /\ retry' = With("answer", u, "error") /\ UNCHANGED owed
    /\ RetryIdle /\ UNCHANGED <<disk, rerun, twins, overtaken>>

\* The file goes only when the head accepted or refused the result.
Resubmitted ==
    /\ Up /\ retry.at = "answer"
    /\ pending' = IF retry.answer = "error" THEN pending ELSE pending \ {retry.unit}
    /\ retry' = At("idle")
    /\ RetryIdle /\ UNCHANGED <<copy, activeFile, bufferFile, dirs, history, used>>

-----------------------------------------------------------------------------
(* The process ends and starts again.                                      *)

\* Stop sets the flag and cancels the run context.
Stop ==
    /\ Up /\ ~stopping /\ main.at \notin {"resumeTasks", "resumeBuffer"} /\ May("stop")
    /\ stopping' = TRUE
    /\ UNCHANGED <<head, queue, starting, slot, results, main, retry, fetch, shutting, preserved,
                   disk, history>>

\* The loop notices: slots that end from now on keep their work directories.
BeginShutdown ==
    /\ main.at \in {"top", "paused"} /\ stopping
    /\ shutting' = TRUE /\ main' = At("stopAll")
    /\ OthersIdle /\ UNCHANGED <<copy, queue, starting, results, disk, history, used>>

\* StopAll waits until no slot is active, not until every result is in.
StopAll ==
    /\ main.at = "stopAll" /\ persistable = {}
    /\ main' = At("drain")
    /\ OthersIdle /\ UNCHANGED <<copy, queue, starting, results, shutting, disk, history,
                                 used>>

\* Nothing left on the channel: the buffered units go back to the head.
ReturnBuffer ==
    /\ main.at = "drain" /\ results = <<>>
    /\ \/ copy' = [u \in Units |-> IF u \in Queued(queue) /\ Live(u)
                                     THEN IF copy[u] = "reserved" THEN "returned" ELSE "abandoned"
                                     ELSE copy[u]] /\ UNCHANGED used
       \/ queue # {} /\ May("lost") /\ UNCHANGED copy
    /\ dirs' = dirs \ Queued(queue) /\ queue' = {}
    /\ main' = At("exit")
    /\ OthersIdle /\ UNCHANGED <<starting, results, shutting, activeFile, bufferFile, pending,
                                 history>>

\* All that is not on disk is gone.
Down ==
    /\ main' = At("down") /\ retry' = At("idle") /\ fetch' = AtFetch("off")
    /\ queue' = {} /\ starting' = {} /\ slot' = [s \in Slots |-> Free] /\ results' = <<>>
    /\ stopping' = FALSE /\ shutting' = FALSE /\ preserved' = {}
    /\ owed' = owed \cap pending
    /\ UNCHANGED <<head, pending, dirs>>

Exit ==
    /\ main.at = "exit"
    /\ activeFile' = preserved /\ bufferFile' = {}
    /\ Down /\ UNCHANGED <<rerun, twins, overtaken, used>>

\* SuspendAndQuit: the processes are frozen, the active slots saved, and the
\* process is gone, whatever the loop was doing.
SuspendAndQuit ==
    /\ Up /\ ~stopping /\ main.at \notin {"resumeTasks", "resumeBuffer"} /\ May("quit")
    /\ activeFile' = persistable
    /\ Down /\ UNCHANGED <<bufferFile, rerun, twins, overtaken>>

Crash ==
    /\ Up /\ May("crash")
    /\ Down /\ UNCHANGED <<activeFile, bufferFile, rerun, twins, overtaken>>

Launch ==
    /\ main.at = "down"
    /\ main' = At("resumeTasks")
    /\ OthersIdle /\ UNCHANGED <<copy, queue, starting, results, shutting, disk, history,
                                 used>>

\* As many of us as there is room for.
Fills(rs, us, room) ==
    /\ rs \subseteq us
    /\ Cardinality(rs) = IF Cardinality(us) < room THEN Cardinality(us) ELSE room

\* Of the units us whose work directory is there, those in gone are dropped with
\* it: their server is no longer configured, or their runtime is not available.
Detached(gone, us) ==
    \/ gone = {} /\ UNCHANGED used
    \/ gone # {} /\ gone \subseteq us /\ May("detached")

\* resumePersistedTasks: tasks whose work directory is there take the slots;
\* those past the last slot are forgotten with the file.
ResumeTasks(gone, rs) ==
    /\ main.at = "resumeTasks"
    /\ Detached(gone, activeFile \cap dirs)
    /\ Fills(rs, (activeFile \cap dirs) \ gone, Cardinality(Slots))
    /\ \E f \in [rs -> Slots] :
         /\ \A u, v \in rs : f[u] = f[v] => u = v
         /\ slot' = [s \in Slots |->
              IF \E u \in rs : f[u] = s
                THEN [step |-> "starting", unit |-> CHOOSE u \in rs : f[u] = s, restart |-> FALSE]
                ELSE Free]
    /\ activeFile' = {} /\ dirs' = dirs \ gone
    /\ twins' = twins \cup (rs \cap bufferFile)
    /\ main' = At("resumeBuffer")
    /\ UNCHANGED <<head, queue, starting, results, retry, fetch, stopping, shutting, preserved,
                   bufferFile, pending, owed, rerun, overtaken>>

\* resumePrefetchBuffer, then gcOrphanedWorkDirs.  A unit that took a slot has its
\* server and its runtime.
ResumeBuffer(gone, rs) ==
    /\ main.at = "resumeBuffer"
    /\ Detached(gone, (bufferFile \cap dirs) \ ActiveIn(slot))
    /\ Fills(rs, (bufferFile \cap dirs) \ gone, QueueDepth)
    /\ queue' = {<<u, FALSE>> : u \in rs}
    /\ dirs' = dirs \cap (rs \cup ActiveIn(slot))
    /\ bufferFile' = {}
    /\ main' = At("top") /\ fetch' = AtFetch("idle")
    /\ UNCHANGED <<head, starting, slot, results, retry, stopping, shutting, preserved,
                   activeFile, pending, history>>

-----------------------------------------------------------------------------

Slot == \E s \in Slots :
    \/ StartWork(s) \/ CancelRun(s) \/ RestartTask(s) \/ SendResult(s)
    \/ \E kind \in {"done", "failed", "exited"} : EndRun(s, kind)

Fetcher ==
    \/ ReadBuffer \/ ReadSlots \/ FetchStops \/ BatchBegins \/ BatchDone
    \/ \E us \in SUBSET Units : RequestWorkUnit(us) \/ RequestLost(us)
    \/ \E u \in Units : SkipDuplicate(u) \/ BufferUnit(u) \/ \E b \in BOOLEAN : ReturnUnit(u, b)

Coordinator ==
    \/ TakeResult \/ Submit \/ SubmitAnswered \/ AbandonFailed \/ SaveActive \/ FillSlots
    \/ (\E it \in queue : PopFit(it))
    \/ ReturnPopped \/ (\E s \in Slots : StartSlot(s)) \/ SlotStarted \/ FillDone \/ SaveBuffer
    \/ Pause \/ Resume
    \/ BeginShutdown \/ StopAll \/ ReturnBuffer \/ Exit \/ Launch
    \/ \E gone, rs \in SUBSET Units : ResumeTasks(gone, rs) \/ ResumeBuffer(gone, rs)

Retry == Resubmit \/ Resubmitted \/ \E u \in Units : RetryPending(u)

Environment ==
    \/ Stop \/ SuspendAndQuit \/ Crash
    \/ \E it \in queue : SweepBuffer(it)
    \/ \E u \in Units : ReleaseStale(u) \/ ExpireCopy(u) \/ Finalize(u)

Next == Slot \/ Fetcher \/ Coordinator \/ Retry \/ Environment

Spec == Init /\ [][Next]_vars

\* Every goroutine keeps running, a run ends, a pause is lifted, the process is
\* launched again, a fitting unit is not passed over for ever, and the head acts
\* on the reports it gets.
Fairness ==
    /\ WF_vars(Coordinator)
    /\ \A s \in Slots : WF_vars(StartWork(s)) /\ WF_vars(EndRun(s, "done"))
                        /\ WF_vars(SendResult(s)) /\ WF_vars(slot[s].restart /\ CancelRun(s))
                        /\ WF_vars(stopping /\ CancelRun(s))
    /\ WF_vars(Fetcher) /\ WF_vars(Retry)
    /\ SF_vars(\E it \in queue : PopFit(it))
    /\ WF_vars(\E u \in Units : ReleaseStale(u))
FairSpec == Spec /\ Fairness

-----------------------------------------------------------------------------

\* The type invariant of the daemon, its files and the head's copies.
TypeOK ==
    /\ copy \in [Units -> {None, "reserved", "running", "returned", "abandoned", "completed",
                           "superseded"}]
    /\ final \subseteq Units /\ missing \subseteq Units
    /\ queue \subseteq Units \X BOOLEAN /\ starting \subseteq Units
    /\ slot \in [Slots -> [step : {"free", "starting", "running", "done", "failed", "exited",
                                   "cancelled", "dropped", "again"},
                           unit : Units \cup {None}, restart : BOOLEAN]]
    /\ \A s \in Slots : slot[s].step = "free" <=> slot[s].unit = None
    /\ Len(results) <= Cardinality(Slots)
    /\ {activeFile, bufferFile, pending, dirs, preserved, owed} \subseteq SUBSET Units
    /\ used \in 0..MaxRare

\* Once a run has finished (runSlot), its result is on its way to the head, on
\* disk, or answered for, as long as the process lives; what retryPendingResults
\* has on disk survives the process too.  A unit whose result the head already
\* took from an earlier run of it owes nothing more.  One way out remains: the
\* file is named after the unit, so a second run that ends after the head has
\* answered for the first, and before its file is removed, may lose its own.
FinishedSurvives == {u \in owed \ overtaken : copy[u] # "completed"} \subseteq Carried

\* bufferBatch and fillSlots never put one unit in two places: it is in one
\* slot, or waits once in the buffer.  Two ways out remain, each its own set: a
\* launch whose files both name the unit (resumePrefetchBuffer does not ask the
\* slots), and a restarted unit on the results channel, where no report sees it.
HeldOnce ==
    \A u \in Units \ (twins \cup rerun) :
      /\ \A s, t \in Slots : s # t /\ u \in ActiveIn([slot EXCEPT ![t] = Free])
                                => ~(slot[t].step \in {"starting", "running"} /\ slot[t].unit = u)
      /\ u \in Queued(queue) => u \notin ActiveIn(slot) \cup starting

\* heldWorkUnits reads the buffer and then the slots while units move between
\* them, and the head acts on the report later: it still never takes away the
\* copy of a unit the daemon holds, except for the two ways out of HeldOnce.
HeldNotReaped ==
    [][\A u \in Units : ReleaseStale(u) => u \notin heldWorkUnits \/ u \in twins \cup rerun]_vars

\* Every copy handed to this machine ends: a result, a return, an abandonment
\* or the head's own release - no lost answer, crash or pause strands it.
CopiesConclude == \A u \in Units : Live(u) ~> ~Live(u)
=============================================================================
