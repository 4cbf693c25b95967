----------------------- MODULE VolunteerDaemonProofs -----------------------
(***************************************************************************)
(* What is proved of VolunteerDaemon, for any number of units and slots,   *)
(* any depth of the queue and any number of rare events: its type          *)
(* invariant; that a finished result is carried until the head has         *)
(* answered for it; that a unit is held in one place; and that the head    *)
(* never takes away the copy of a unit the daemon holds.                   *)
(*                                                                         *)
(* The inductive invariant is the conjunction of                           *)
(*   Types   TypeOK with the program counters and what they hold;          *)
(*   Boot    what is empty while the process is down or starting, and who  *)
(*           has the unit between the buffer and a slot;                   *)
(*   Kept    for each unit: what carries a result the head has not         *)
(*           answered for, and that the retry has no answer in hand that   *)
(*           would remove it;                                              *)
(*   Places  for each unit that neither a restart nor a launch has put in  *)
(*           two places: where it may be at once, what a report that is    *)
(*           being collected has seen of it, and that a unit the report    *)
(*           left out is nowhere, not even in a work directory.            *)
(***************************************************************************)
EXTENDS VolunteerDaemon, SequenceTheorems, FiniteSetTheorems, TLAPS

-----------------------------------------------------------------------------
(* Types.                                                                  *)

CopyStates == {None, "reserved", "running", "returned", "abandoned", "completed", "superseded"}

Steps == {"free", "starting", "running", "done", "failed", "exited", "cancelled", "dropped",
          "again"}

SlotRow == [step : Steps, unit : Units \cup {None}, restart : BOOLEAN]

Filled(r) == r.step = "free" <=> r.unit = None

Message == Units \X Steps

\* Where the coordinator has a unit in hand, and where it has none.
Busy == {"submit", "answer", "abandon", "popped", "started"}
Rest == {"down", "resumeTasks", "resumeBuffer", "top", "fill", "save", "saveActive", "paused",
         "stopAll", "drain", "exit"}

Answers == {None, "accepted", "refused", "error", "again"}

MainRow == [at : Busy, unit : Units, answer : Answers] \cup [at : Rest, unit : {None}, answer : {None}]

RetryRow == [at : {"send", "answer"}, unit : Units, answer : Answers]
              \cup [at : {"idle"}, unit : {None}, answer : {None}]

FetchRow == [at : {"off", "idle", "slots", "ask", "batch", "buffer"}, held : SUBSET Units,
             batch : SUBSET Units]

HeadTyped == copy \in [Units -> CopyStates] /\ final \subseteq Units /\ missing \subseteq Units

SlotTyped == slot \in [Slots -> SlotRow] /\ \A s \in Slots : Filled(slot[s])

ChannelTyped == results \in Seq(Message) /\ Len(results) <= Cardinality(Slots)

BufferTyped == queue \subseteq Units \X BOOLEAN /\ starting \subseteq Units

FilesTyped == /\ activeFile \subseteq Units /\ bufferFile \subseteq Units
              /\ pending \subseteq Units /\ dirs \subseteq Units

PastTyped == owed \subseteq Units /\ rerun \subseteq Units /\ twins \subseteq Units /\ overtaken \subseteq Units

FlagsTyped == /\ stopping \in BOOLEAN /\ shutting \in BOOLEAN /\ preserved \subseteq Units
              /\ used \in 0..MaxRare

Types ==
    /\ HeadTyped /\ SlotTyped /\ ChannelTyped /\ BufferTyped /\ FilesTyped /\ PastTyped /\ FlagsTyped
    /\ main \in MainRow /\ retry \in RetryRow /\ fetch \in FetchRow

\* Types says what TypeOK says, and more.
LEMMA TypesImply == Types => TypeOK
  BY DEF Types, TypeOK, HeadTyped, SlotTyped, ChannelTyped, BufferTyped, FilesTyped, PastTyped,
         FlagsTyped, CopyStates, Steps, SlotRow, Filled

\* The records with no unit in hand.
LEMMA Empties ==
    /\ Free \in SlotRow /\ Filled(Free)
    /\ \A place \in Rest : At(place) \in MainRow
    /\ At("idle") \in RetryRow
    /\ \A place \in {"off", "idle"} : AtFetch(place) \in FetchRow
  BY DaemonAssumption DEF Free, SlotRow, Filled, Steps, At, Rest, MainRow, RetryRow, AtFetch, FetchRow, None

\* The records with a unit in hand.
LEMMA Withs ==
    ASSUME NEW u \in Units
    PROVE  /\ \A place \in Busy, ans \in Answers : With(place, u, ans) \in MainRow
           /\ \A place \in {"send", "answer"}, ans \in Answers : With(place, u, ans) \in RetryRow
  BY DEF With, Busy, MainRow, RetryRow

\* A unit in hand is a unit.
LEMMA InHand ==
    /\ main \in MainRow /\ main.at \in Busy => main.unit \in Units /\ main.answer \in Answers
    /\ retry \in RetryRow /\ retry.at \in {"send", "answer"} => retry.unit \in Units
  BY DEF MainRow, RetryRow, Busy, Rest

\* A fresh daemon is well typed.
LEMMA TypesInit == Init => Types
  <1> SUFFICES ASSUME Init PROVE Types
    OBVIOUS
  <1>1. ChannelTyped
    <2>1. Cardinality(Slots) \in Nat
      BY DaemonAssumption, FS_CardinalityType
    <2> QED BY <2>1 DEF Init, ChannelTyped
  <1>2. HeadTyped /\ SlotTyped /\ BufferTyped /\ FilesTyped /\ PastTyped
    BY Empties DEF Init, HeadTyped, SlotTyped, BufferTyped, FilesTyped, PastTyped, CopyStates
  <1>3. FlagsTyped
    <2>1. 0 \in 0..MaxRare
      BY DaemonAssumption
    <2> QED BY <2>1 DEF Init, FlagsTyped
  <1>4. main \in MainRow /\ retry \in RetryRow /\ fetch \in FetchRow
    BY Empties DEF Init, Rest
  <1> QED BY <1>1, <1>2, <1>3, <1>4 DEF Types

\* A rare event is counted within its bound.
LEMMA MayTyped ==
    ASSUME FlagsTyped, NEW kind, May(kind)
    PROVE  used' \in 0..MaxRare
  BY DaemonAssumption DEF FlagsTyped, May

\* Closing or changing one copy keeps the table typed.
LEMMA CopyTyped ==
    ASSUME HeadTyped, NEW u \in Units
    PROVE  /\ SubmitAt(u) => copy' \in [Units -> CopyStates]
           /\ \A b \in BOOLEAN : AbandonAt(u, b) => copy' \in [Units -> CopyStates]
           /\ \A c \in CopyStates : copy' = [copy EXCEPT ![u] = c] => copy' \in [Units -> CopyStates]
  BY DEF HeadTyped, SubmitAt, AbandonAt, CopyStates

\* One slot's row is replaced.
LEMMA SlotSet ==
    ASSUME SlotTyped, NEW s \in Slots, NEW r \in SlotRow, Filled(r), slot' = [slot EXCEPT ![s] = r]
    PROVE  SlotTyped'
  BY DEF SlotTyped

\* A slot that is not free holds a unit.
LEMMA SlotHolds ==
    ASSUME SlotTyped, NEW s \in Slots
    PROVE  /\ slot[s] \in SlotRow /\ Filled(slot[s])
           /\ slot[s].step # "free" => slot[s].unit \in Units
  BY DEF SlotTyped, SlotRow, Filled

\* One field of a row is changed.
LEMMA Marks ==
    ASSUME NEW r \in SlotRow, r.step = "running" \/ r.step = "starting", Filled(r)
    PROVE  /\ [r EXCEPT !.step = "running"] \in SlotRow /\ Filled([r EXCEPT !.step = "running"])
           /\ [r EXCEPT !.restart = TRUE] \in SlotRow /\ Filled([r EXCEPT !.restart = TRUE])
  <1>1. [r EXCEPT !.step = "running"] \in SlotRow /\ Filled([r EXCEPT !.step = "running"])
    BY DEF SlotRow, Filled, Steps
  <1>2. [r EXCEPT !.restart = TRUE] \in SlotRow /\ Filled([r EXCEPT !.restart = TRUE])
    BY DEF SlotRow, Filled
  <1> QED BY <1>1, <1>2

\* Ending a slot's run keeps everything it touches typed.
LEMMA EndTyped ==
    ASSUME SlotTyped, FlagsTyped, FilesTyped, PastTyped, NEW s \in Slots, slot[s].step # "free",
           NEW kind \in Steps \ {"free"}, EndSlot(s, kind)
    PROVE  SlotTyped' /\ preserved' \subseteq Units /\ dirs' \subseteq Units
           /\ owed' \subseteq Units /\ rerun' \subseteq Units /\ twins' \subseteq Units
           /\ overtaken' \subseteq Units
  <1> DEFINE u == slot[s].unit
             restarted == slot[s].restart /\ kind \in {"cancelled", "failed"}
             k == IF restarted /\ ~shutting THEN "again" ELSE kind
             r == [Free EXCEPT !.step = k, !.unit = u]
  <1>1. u \in Units
    BY SlotHolds
  <1>2. r \in SlotRow /\ Filled(r)
    <2>1. k \in Steps \ {"free"}
      BY DEF Steps
    <2>3. u # None
      BY <1>1, DaemonAssumption DEF None
    <2> HIDE DEF k, u
    <2> QED BY <1>1, <2>1, <2>3 DEF SlotRow, Filled, Free
  <1>3. slot' = [slot EXCEPT ![s] = r]
    BY DEF EndSlot
  <1>4. SlotTyped'
    <2> HIDE DEF r
    <2> QED BY <1>2, <1>3, SlotSet
  <1>5. preserved' \subseteq Units /\ dirs' \subseteq Units
    BY <1>1 DEF EndSlot, FlagsTyped, FilesTyped
  <1>6. owed' \subseteq Units /\ rerun' \subseteq Units /\ twins' \subseteq Units /\ overtaken' \subseteq Units
    BY <1>1 DEF EndSlot, PastTyped
  <1> QED BY <1>4, <1>5, <1>6

\* The slots keep the types.
LEMMA SlotTypes == ASSUME Types, Slot PROVE Types'
  <1> USE DEF Types
  <1>0. PICK s \in Slots :
          \/ StartWork(s) \/ CancelRun(s) \/ RestartTask(s) \/ SendResult(s)
          \/ \E kind \in {"done", "failed", "exited"} : EndRun(s, kind)
    BY DEF Slot
  <1>h. slot[s] \in SlotRow /\ Filled(slot[s]) /\ (slot[s].step # "free" => slot[s].unit \in Units)
    BY SlotHolds
  <1>1. CASE StartWork(s)
    <2>1. slot[s].step # "free" /\ slot[s].unit \in Units
      BY <1>1, <1>h DEF StartWork
    <2>2. HeadTyped'
      <3>1. copy' \in [Units -> CopyStates]
        BY <1>1, <2>1 DEF StartWork, HeadTyped, CopyStates
      <3> QED BY <1>1, <3>1 DEF StartWork, HeadTyped
    <2>3. SlotTyped' /\ preserved' \subseteq Units /\ dirs' \subseteq Units

                                   /\ owed' \subseteq Units /\ rerun' \subseteq Units /\ twins' \subseteq Units /\ overtaken' \subseteq Units
      <3>1. CASE EndSlot(s, "dropped")
        <4>1. "dropped" \in Steps \ {"free"}
          BY DEF Steps
        <4> QED BY <3>1, <4>1, <2>1, EndTyped
      <3>2. CASE slot' = [slot EXCEPT ![s].step = "running"] /\ UNCHANGED <<preserved, dirs, history>>
        <4>0. slot' = [slot EXCEPT ![s] = [slot[s] EXCEPT !.step = "running"]]
          BY <3>2
        <4>2. [slot[s] EXCEPT !.step = "running"] \in SlotRow /\ Filled([slot[s] EXCEPT !.step = "running"])
          BY <1>1, <1>h, Marks DEF StartWork
        <4>3. SlotTyped'
          BY <4>0, <4>2, SlotSet
        <4> QED BY <3>2, <4>3 DEF history, FlagsTyped, FilesTyped, PastTyped
      <3> QED BY <1>1, <3>1, <3>2 DEF StartWork
    <2>4. used' \in 0..MaxRare
      BY <1>1, MayTyped DEF StartWork, FlagsTyped
    <2> QED BY <1>1, <2>2, <2>3, <2>4 DEF StartWork, ChannelTyped, BufferTyped, FilesTyped, PastTyped,
                         FlagsTyped
  <1>2. CASE CancelRun(s) \/ \E kind \in {"done", "failed", "exited"} : EndRun(s, kind)
    <2>1. PICK kind \in Steps \ {"free"} : EndSlot(s, kind)
      BY <1>2 DEF CancelRun, EndRun, Steps
    <2>2. slot[s].step # "free"
      BY <1>2 DEF CancelRun, EndRun
    <2>3. SlotTyped' /\ preserved' \subseteq Units /\ dirs' \subseteq Units

                                   /\ owed' \subseteq Units /\ rerun' \subseteq Units /\ twins' \subseteq Units /\ overtaken' \subseteq Units
      BY <2>1, <2>2, EndTyped
    <2>4. used' \in 0..MaxRare
      BY <1>2, MayTyped DEF CancelRun, EndRun, FlagsTyped
    <2> QED BY <1>2, <2>3, <2>4 DEF CancelRun, EndRun, head, HeadTyped, ChannelTyped, BufferTyped, FilesTyped,
                                   PastTyped, FlagsTyped
  <1>3. CASE RestartTask(s)
    <2>0. slot' = [slot EXCEPT ![s] = [slot[s] EXCEPT !.restart = TRUE]]
      BY <1>3 DEF RestartTask
    <2>2. [slot[s] EXCEPT !.restart = TRUE] \in SlotRow /\ Filled([slot[s] EXCEPT !.restart = TRUE])
      BY <1>3, <1>h, Marks DEF RestartTask
    <2>3. SlotTyped'
      BY <2>0, <2>2, SlotSet
    <2>4. used' \in 0..MaxRare
      BY <1>3, MayTyped DEF RestartTask
    <2> QED BY <1>3, <2>3, <2>4 DEF RestartTask, head, disk, history, HeadTyped, ChannelTyped, BufferTyped,
                         FilesTyped,
                                   PastTyped, FlagsTyped
  <1>4. CASE SendResult(s)
    <2>1. SlotTyped'
      BY <1>4, Empties, SlotSet DEF SendResult
    <2>2. ChannelTyped'
      <3>1. Cardinality(Slots) \in Nat
        BY DaemonAssumption, FS_CardinalityType
      <3>2. <<slot[s].unit, slot[s].step>> \in Message
        BY <1>4, <1>h DEF SendResult, SlotRow, Message
      <3>3. Append(results, <<slot[s].unit, slot[s].step>>) \in Seq(Message)
            /\ Len(Append(results, <<slot[s].unit, slot[s].step>>)) = Len(results) + 1
        BY <3>2, AppendProperties DEF ChannelTyped
      <3>4. Len(results) \in Nat
        BY LenProperties DEF ChannelTyped
      <3> QED BY <1>4, <3>1, <3>3, <3>4 DEF SendResult, ChannelTyped
    <2> QED BY <1>4, <2>1, <2>2 DEF SendResult, head, disk, history, HeadTyped, BufferTyped, FilesTyped,
                                   PastTyped, FlagsTyped
  <1> QED BY <1>0, <1>1, <1>2, <1>3, <1>4

\* The fetcher's record, with some of its fields replaced.
LEMMA FetchSet ==
    ASSUME NEW f \in FetchRow, NEW h \in SUBSET Units, NEW b \in SUBSET Units,
           NEW a \in {"off", "idle", "slots", "ask", "batch", "buffer"}
    PROVE  /\ f.at \in {"off", "idle", "slots", "ask", "batch", "buffer"}
           /\ f.held \subseteq Units /\ f.batch \subseteq Units
           /\ [f EXCEPT !.at = a, !.held = h] \in FetchRow
           /\ [f EXCEPT !.batch = b] \in FetchRow
           /\ [f EXCEPT !.batch = b, !.held = h] \in FetchRow
           /\ [at |-> a, held |-> h, batch |-> b] \in FetchRow
  BY DEF FetchRow

\* What is held are units.
LEMMA HeldTyped ==
    ASSUME BufferTyped, SlotTyped
    PROVE  Queued(queue) \subseteq Units /\ ActiveIn(slot) \subseteq Units /\ heldWorkUnits \subseteq Units
  <1>1. Queued(queue) \subseteq Units
    BY DEF BufferTyped, Queued
  <1>2. ActiveIn(slot) \subseteq Units
    BY SlotHolds DEF ActiveIn
  <1> QED BY <1>1, <1>2 DEF heldWorkUnits, HeldIn, BufferTyped

\* The fetcher keeps the types.
LEMMA FetcherTypes == ASSUME Types, Fetcher PROVE Types'
  <1> USE DEF Types
  <1>h. Queued(queue) \subseteq Units /\ ActiveIn(slot) \subseteq Units /\ heldWorkUnits \subseteq Units
    BY HeldTyped
  <1>f. /\ fetch.held \subseteq Units /\ fetch.batch \subseteq Units
        /\ \A a \in {"off", "idle", "slots", "ask", "batch", "buffer"}, hh, bb \in SUBSET Units :
             /\ [fetch EXCEPT !.at = a, !.held = hh] \in FetchRow
             /\ [fetch EXCEPT !.batch = bb] \in FetchRow
             /\ [fetch EXCEPT !.batch = bb, !.held = hh] \in FetchRow
             /\ [at |-> a, held |-> hh, batch |-> bb] \in FetchRow
    BY FetchSet
  <1>1. ASSUME NEW u \in Units, SkipDuplicate(u) \/ BufferUnit(u) \/ \E b \in BOOLEAN : ReturnUnit(u, b)
        PROVE  Types'
    <2>1. CASE SkipDuplicate(u)
      <3>1. fetch' \in FetchRow
        <4>1. fetch.batch \ {u} \in SUBSET Units
          BY <1>f
        <4> QED BY <2>1, <4>1, <1>f DEF SkipDuplicate
      <3> QED BY <2>1, <3>1 DEF SkipDuplicate, head, disk, history, HeadTyped, SlotTyped, ChannelTyped,
                         BufferTyped, FilesTyped,
                         PastTyped, FlagsTyped
    <2>2. CASE BufferUnit(u)
      <3>1. fetch' \in FetchRow
        <4>1. fetch.batch \ {u} \in SUBSET Units /\ fetch.held \cup {u} \in SUBSET Units
          BY <1>f
        <4>2. fetch' = [fetch EXCEPT !.batch = fetch.batch \ {u}, !.held = fetch.held \cup {u}]
          BY <2>2 DEF BufferUnit
        <4> QED BY <4>1, <4>2, <1>f
      <3>2. queue' \subseteq Units \X BOOLEAN /\ dirs' \subseteq Units
        <4>1. <<u, FALSE>> \in Units \X BOOLEAN
          OBVIOUS
        <4>2. queue' \subseteq Units \X BOOLEAN
          BY <2>2, <4>1 DEF BufferUnit, BufferTyped
        <4>3. dirs' \subseteq Units
          BY <2>2 DEF BufferUnit, FilesTyped
        <4> QED BY <4>2, <4>3
      <3> QED BY <2>2, <3>1, <3>2 DEF BufferUnit, head, history, HeadTyped, SlotTyped, ChannelTyped,
                         BufferTyped,
                         FilesTyped, PastTyped, FlagsTyped
    <2>3. ASSUME NEW b \in BOOLEAN, ReturnUnit(u, b) PROVE Types'
      <3>1. fetch' \in FetchRow
        <4>1. fetch.batch \ {u} \in SUBSET Units
          BY <1>f
        <4> QED BY <2>3, <4>1, <1>f DEF ReturnUnit
      <3>2. copy' \in [Units -> CopyStates]
        BY <2>3, CopyTyped DEF ReturnUnit, Abandon, HeadTyped
      <3>3. used' \in 0..MaxRare
        BY <2>3, MayTyped DEF ReturnUnit, Abandon, FlagsTyped
      <3> QED BY <2>3, <3>1, <3>2, <3>3 DEF ReturnUnit, disk, history, HeadTyped, SlotTyped, ChannelTyped,
                         BufferTyped,
                         FilesTyped, PastTyped, FlagsTyped
    <2> QED BY <1>1, <2>1, <2>2, <2>3
  <1>2. ASSUME NEW us \in SUBSET Units, RequestWorkUnit(us) \/ RequestLost(us)
        PROVE  Types'
    <2>1. HeadTyped'
      <3>1. copy' \in [Units -> CopyStates]
        BY <1>2 DEF RequestWorkUnit, RequestLost, HeadTyped, CopyStates
      <3> QED BY <1>2, <3>1 DEF RequestWorkUnit, RequestLost, HeadTyped
    <2>2. fetch' \in FetchRow
      <3>1. (IF us = {} THEN "idle" ELSE "batch") \in {"off", "idle", "slots", "ask", "batch", "buffer"}
        OBVIOUS
      <3>2. {} \in SUBSET Units
        OBVIOUS
      <3>3. CASE RequestWorkUnit(us)
        BY <3>3, <3>1, <3>2, <1>f DEF RequestWorkUnit
      <3>4. CASE RequestLost(us)
        BY <3>4, Empties DEF RequestLost
      <3> QED BY <1>2, <3>3, <3>4
    <2>3. used' \in 0..MaxRare
      BY <1>2, MayTyped DEF RequestWorkUnit, RequestLost, FlagsTyped
    <2> QED BY <1>2, <2>1, <2>2, <2>3 DEF RequestWorkUnit, RequestLost, disk, history, SlotTyped, ChannelTyped,
                         BufferTyped, FilesTyped, PastTyped, FlagsTyped
  <1>3. CASE ReadBuffer \/ ReadSlots \/ FetchStops \/ BatchBegins \/ BatchDone
    <2>1. fetch' \in FetchRow
      <3>1. Queued(queue) \cup starting \in SUBSET Units /\ fetch.held \cup ActiveIn(slot) \in SUBSET Units
        BY <1>h, <1>f DEF BufferTyped
      <3>2. CASE ReadBuffer
        BY <3>2, <1>f, <3>1 DEF ReadBuffer
      <3>3. CASE ReadSlots
        BY <3>3, <1>f, <3>1 DEF ReadSlots
      <3>4. CASE FetchStops \/ BatchDone
        BY <3>4, Empties DEF FetchStops, BatchDone
      <3>5. CASE BatchBegins
        BY <3>5, <1>f, <1>h DEF BatchBegins
      <3> QED BY <1>3, <3>2, <3>3, <3>4, <3>5
    <2> QED BY <1>3, <2>1 DEF ReadBuffer, ReadSlots, FetchStops, BatchBegins, BatchDone, head, disk, history,
                         HeadTyped,
                         SlotTyped, ChannelTyped, BufferTyped, FilesTyped, PastTyped, FlagsTyped
  <1> QED BY <1>1, <1>2, <1>3 DEF Fetcher

\* The retry keeps the types.
LEMMA RetryTypes == ASSUME Types, Retry PROVE Types'
  <1> USE DEF Types
  <1>1. ASSUME NEW u \in Units, RetryPending(u) PROVE Types'
    <2>1. retry' \in RetryRow
      BY <1>1, Withs DEF RetryPending, Answers
    <2> QED BY <1>1, <2>1 DEF RetryPending, RetryIdle, disk, history, HeadTyped, SlotTyped, ChannelTyped,
                         BufferTyped,
                         FilesTyped, PastTyped, FlagsTyped
  <1>2. CASE Resubmit
    <2>1. retry.unit \in Units
      BY <1>2, InHand DEF Resubmit
    <2>2. retry' \in RetryRow
      BY <1>2, <2>1, Withs DEF Resubmit, Answers, SubmitAnswer
    <2>3. copy' \in [Units -> CopyStates]
      BY <1>2, <2>1, CopyTyped DEF Resubmit, HeadTyped
    <2>4. used' \in 0..MaxRare
      BY <1>2, MayTyped DEF Resubmit, FlagsTyped
    <2>5. owed' \subseteq Units
      BY <1>2 DEF Resubmit, PastTyped
    <2> QED BY <1>2, <2>2, <2>3, <2>4, <2>5 DEF Resubmit, RetryIdle, disk, HeadTyped, SlotTyped,
                         ChannelTyped, BufferTyped,
                         FilesTyped, PastTyped, FlagsTyped
  <1>3. CASE Resubmitted
    BY <1>3, Empties DEF Resubmitted, RetryIdle, history, HeadTyped, SlotTyped, ChannelTyped, BufferTyped,
                         FilesTyped, PastTyped, FlagsTyped
  <1> QED BY <1>1, <1>2, <1>3 DEF Retry

\* The process going down keeps the types.
LEMMA DownTyped ==
    ASSUME Types, Down, activeFile' \subseteq Units, bufferFile' \subseteq Units, UNCHANGED <<rerun, twins,
           overtaken>>,
           used' \in 0..MaxRare
    PROVE  Types'
  <1> USE DEF Types
  <1>1. ChannelTyped'
    <2>1. Cardinality(Slots) \in Nat
      BY DaemonAssumption, FS_CardinalityType
    <2> QED BY <2>1 DEF Down, ChannelTyped
  <1>2. SlotTyped'
    BY Empties DEF Down, SlotTyped
  <1>3. main' \in MainRow /\ retry' \in RetryRow /\ fetch' \in FetchRow
    BY Empties DEF Down, Rest
  <1>4. HeadTyped' /\ BufferTyped' /\ FilesTyped' /\ PastTyped' /\ FlagsTyped'
    BY DEF Down, head, HeadTyped, BufferTyped, FilesTyped, PastTyped, FlagsTyped
  <1> QED BY <1>1, <1>2, <1>3, <1>4

\* The user, the clock and the head keep the types.
LEMMA EnvironmentTypes == ASSUME Types, Environment PROVE Types'
  <1> USE DEF Types
  <1>1. CASE Stop
    BY <1>1, MayTyped DEF Stop, head, disk, history, HeadTyped, SlotTyped, ChannelTyped, BufferTyped,
                         FilesTyped, PastTyped, FlagsTyped
  <1>2. CASE SuspendAndQuit \/ Crash
    <2>1. activeFile' \subseteq Units /\ bufferFile' \subseteq Units
      BY <1>2, HeldTyped DEF SuspendAndQuit, Crash, persistable, FilesTyped
    <2> QED BY <1>2, <2>1, DownTyped, MayTyped DEF SuspendAndQuit, Crash
  <1>3. ASSUME NEW it \in queue, SweepBuffer(it) PROVE Types'
    BY <1>3, MayTyped DEF SweepBuffer, head, history, HeadTyped, SlotTyped, ChannelTyped, BufferTyped,
                         FilesTyped, PastTyped, FlagsTyped
  <1>4. ASSUME NEW u \in Units, ReleaseStale(u) \/ ExpireCopy(u) \/ Finalize(u) PROVE Types'
    <2>1. copy' \in [Units -> CopyStates]
      BY <1>4, CopyTyped DEF ReleaseStale, ExpireCopy, Finalize, HeadTyped, CopyStates
    <2>2. used' \in 0..MaxRare
      BY <1>4, MayTyped DEF ReleaseStale, ExpireCopy, Finalize, FlagsTyped
    <2> QED BY <1>4, <2>1, <2>2 DEF ReleaseStale, ExpireCopy, Finalize, disk, history, HeadTyped, SlotTyped,
                         ChannelTyped,
                         BufferTyped, FilesTyped, PastTyped, FlagsTyped
  <1> QED BY <1>1, <1>2, <1>3, <1>4 DEF Environment

\* The head of the results channel is a message; the rest is shorter.
LEMMA Received ==
    ASSUME ChannelTyped, results # <<>>
    PROVE  /\ Head(results)[1] \in Units /\ Head(results)[2] \in Steps
           /\ Tail(results) \in Seq(Message) /\ Len(Tail(results)) <= Cardinality(Slots)
  <1>1. results \in Seq(Message) /\ Len(results) \in Nat /\ Cardinality(Slots) \in Nat
    BY LenProperties, DaemonAssumption, FS_CardinalityType DEF ChannelTyped
  <1>2. Head(results) \in Message /\ Tail(results) \in Seq(Message) /\ Len(Tail(results)) = Len(results) - 1
    BY <1>1, HeadTailProperties
  <1>3. Head(results)[1] \in Units /\ Head(results)[2] \in Steps
    BY <1>2 DEF Message
  <1> QED BY <1>1, <1>2, <1>3 DEF ChannelTyped

\* Where handleSlotResult returns to has nothing in hand.
LEMMA OnwardTyped == Onward \in MainRow
  BY Empties DEF Onward, Rest

\* What the coordinator takes, submits, saves and starts keeps the types.
LEMMA LoopTypes ==
    ASSUME Types,
           \/ TakeResult \/ Submit \/ SubmitAnswered \/ AbandonFailed \/ SaveActive \/ FillSlots
           \/ (\E it \in queue : PopFit(it))
           \/ ReturnPopped \/ (\E s \in Slots : StartSlot(s)) \/ SlotStarted \/ FillDone \/ SaveBuffer
           \/ Pause \/ Resume
    PROVE  Types'
  <1> USE DEF Types
  <1>h. Queued(queue) \subseteq Units /\ persistable \subseteq Units
    BY HeldTyped DEF persistable
  <1>1. CASE TakeResult
    <2> DEFINE u == Head(results)[1]
               kind == Head(results)[2]
    <2>1. u \in Units /\ kind \in Steps /\ Tail(results) \in Seq(Message) /\ Len(Tail(results)) <= Cardinality(Slots)
      BY <1>1, Received DEF TakeResult
    <2> HIDE DEF u, kind
    <2>2. /\ main' = CASE kind = "done" -> With("submit", u, None)
                        [] kind \in {"failed", "exited"} -> With("abandon", u, None)
                        [] OTHER -> Onward
          /\ queue' = IF kind = "again" THEN queue \cup {<<u, TRUE>>} ELSE queue
      BY <1>1 DEF TakeResult, u, kind
    <2>3. main' \in MainRow
      BY <2>1, <2>2, Withs, OnwardTyped DEF Busy, Answers
    <2>4. queue' \subseteq Units \X BOOLEAN
      <3>1. <<u, TRUE>> \in Units \X BOOLEAN
        BY <2>1
      <3> QED BY <3>1, <2>2 DEF BufferTyped
    <2>5. ChannelTyped'
      BY <1>1, <2>1 DEF TakeResult, ChannelTyped
    <2> QED BY <1>1, <2>3, <2>4, <2>5 DEF TakeResult, OthersIdle, disk, history, HeadTyped, SlotTyped,
                         BufferTyped,
                         FilesTyped, PastTyped, FlagsTyped
  <1>2. CASE Submit
    <2>1. main.unit \in Units
      BY <1>2, InHand DEF Submit, Busy
    <2>2. main' \in MainRow
      BY <1>2, <2>1, Withs DEF Submit, Answers, SubmitAnswer, Busy
    <2>3. copy' \in [Units -> CopyStates]
      BY <1>2, <2>1, CopyTyped DEF Submit, HeadTyped
    <2>4. used' \in 0..MaxRare
      BY <1>2, MayTyped DEF Submit, FlagsTyped
    <2>5. owed' \subseteq Units
      BY <1>2 DEF Submit, PastTyped
    <2> QED BY <1>2, <2>2, <2>3, <2>4, <2>5 DEF Submit, OthersIdle, disk, HeadTyped, SlotTyped, ChannelTyped,
                         BufferTyped,
                         FilesTyped, PastTyped, FlagsTyped
  <1>3. CASE SubmitAnswered
    <2>1. main.unit \in Units
      BY <1>3, InHand DEF SubmitAnswered, Busy
    <2> QED BY <1>3, <2>1, OnwardTyped DEF SubmitAnswered, OthersIdle, history, HeadTyped, SlotTyped,
                         ChannelTyped,
                         BufferTyped, FilesTyped, PastTyped, FlagsTyped
  <1>4. CASE AbandonFailed
    <2>1. main.unit \in Units
      BY <1>4, InHand DEF AbandonFailed, Busy
    <2>2. copy' \in [Units -> CopyStates]
      BY <1>4, <2>1, CopyTyped DEF AbandonFailed, Abandon, HeadTyped
    <2>3. used' \in 0..MaxRare
      BY <1>4, MayTyped DEF AbandonFailed, Abandon, FlagsTyped
    <2> QED BY <1>4, <2>2, <2>3, OnwardTyped DEF AbandonFailed, OthersIdle, disk, history, HeadTyped, SlotTyped,
                         ChannelTyped, BufferTyped, FilesTyped, PastTyped, FlagsTyped
  <1>5. CASE SaveActive \/ FillSlots \/ FillDone \/ SaveBuffer \/ Pause \/ Resume
    <2>1. main' \in MainRow
      BY <1>5, Empties DEF SaveActive, FillSlots, FillDone, SaveBuffer, Pause, Resume, Rest
    <2>2. used' \in 0..MaxRare
      BY <1>5, MayTyped DEF SaveActive, FillSlots, FillDone, SaveBuffer, Pause, Resume, FlagsTyped
    <2>3. FilesTyped'
      BY <1>5, <1>h DEF SaveActive, FillSlots, FillDone, SaveBuffer, Pause, Resume, disk, FilesTyped
    <2>4. HeadTyped' /\ SlotTyped' /\ ChannelTyped' /\ BufferTyped' /\ PastTyped'
      BY <1>5 DEF SaveActive, FillSlots, FillDone, SaveBuffer, Pause, Resume, OthersIdle, history, HeadTyped,
                  SlotTyped, ChannelTyped, BufferTyped, PastTyped
    <2>5. UNCHANGED <<retry, fetch, stopping, shutting, preserved>>
      BY <1>5 DEF SaveActive, FillSlots, FillDone, SaveBuffer, Pause, Resume, OthersIdle
    <2> QED BY <2>1, <2>2, <2>3, <2>4, <2>5 DEF FlagsTyped
  <1>6. ASSUME NEW it \in queue, PopFit(it) PROVE Types'
    <2>1. it[1] \in Units
      BY DEF BufferTyped
    <2>2. main' \in MainRow
      BY <1>6, <2>1, Withs DEF PopFit, Busy, Answers
    <2> QED BY <1>6, <2>1, <2>2 DEF PopFit, OthersIdle, disk, history, HeadTyped, SlotTyped, ChannelTyped,
                         BufferTyped,
                         FilesTyped, PastTyped, FlagsTyped
  <1>7. CASE ReturnPopped
    <2>1. main.unit \in Units
      BY <1>7, InHand DEF ReturnPopped, Busy
    <2>2. copy' \in [Units -> CopyStates]
      BY <1>7, <2>1, CopyTyped DEF ReturnPopped, HeadTyped
    <2>3. used' \in 0..MaxRare
      BY <1>7, MayTyped DEF ReturnPopped
    <2>4. main' \in MainRow
      BY <1>7, Empties DEF ReturnPopped, Rest
    <2> QED BY <1>7, <2>2, <2>3, <2>4 DEF ReturnPopped, OthersIdle, history, HeadTyped, SlotTyped, ChannelTyped,
                         BufferTyped, FilesTyped, PastTyped, FlagsTyped
  <1>8. ASSUME NEW s \in Slots, StartSlot(s) PROVE Types'
    <2>1. main.unit \in Units
      BY <1>8, InHand DEF StartSlot, Busy
    <2>2. [step |-> "starting", unit |-> main.unit, restart |-> FALSE] \in SlotRow
          /\ Filled([step |-> "starting", unit |-> main.unit, restart |-> FALSE])
      BY <2>1, DaemonAssumption DEF SlotRow, Filled, Steps, None
    <2>3. SlotTyped'
      BY <1>8, <2>2, SlotSet DEF StartSlot
    <2>4. main' \in MainRow
      <3>1. main' = [main EXCEPT !.at = "started"]
        BY <1>8 DEF StartSlot
      <3>2. main \in [at : Busy, unit : Units, answer : Answers]
        BY <1>8 DEF StartSlot, MainRow, Rest
      <3>3. main' \in [at : Busy, unit : Units, answer : Answers]
        BY <3>1, <3>2 DEF Busy
      <3> QED BY <3>3 DEF MainRow
    <2> QED BY <1>8, <2>3, <2>4 DEF StartSlot, head, disk, history, HeadTyped, ChannelTyped,
                         BufferTyped, FilesTyped, PastTyped, FlagsTyped
  <1>9. CASE SlotStarted
    <2>1. main' \in MainRow
      BY <1>9, Empties DEF SlotStarted, Rest
    <2> QED BY <1>9, <1>h, <2>1 DEF SlotStarted, OthersIdle, history, HeadTyped, SlotTyped, ChannelTyped,
                         BufferTyped, FilesTyped, PastTyped, FlagsTyped
  <1> QED BY <1>1, <1>2, <1>3, <1>4, <1>5, <1>6, <1>7, <1>8, <1>9

\* Shutting down and starting up keep the types.
LEMMA CycleTypes ==
    ASSUME Types,
           \/ BeginShutdown \/ StopAll \/ ReturnBuffer \/ Exit \/ Launch
           \/ \E gone, rs \in SUBSET Units : ResumeTasks(gone, rs) \/ ResumeBuffer(gone, rs)
    PROVE  Types'
  <1> USE DEF Types
  <1>h. Queued(queue) \subseteq Units /\ ActiveIn(slot) \subseteq Units
    BY HeldTyped
  <1>1. CASE BeginShutdown \/ StopAll \/ Launch
    <2>1. main' \in MainRow
      BY <1>1, Empties DEF BeginShutdown, StopAll, Launch, Rest
    <2>2. HeadTyped' /\ SlotTyped' /\ ChannelTyped' /\ BufferTyped' /\ PastTyped' /\ FilesTyped' /\ FlagsTyped'
      BY <1>1 DEF BeginShutdown, StopAll, Launch, OthersIdle, disk, history, HeadTyped,
                  SlotTyped, ChannelTyped, BufferTyped, PastTyped, FilesTyped, FlagsTyped
    <2> QED BY <1>1, <2>1, <2>2 DEF BeginShutdown, StopAll, Launch, OthersIdle
  <1>2. CASE ReturnBuffer
    <2>1. copy' \in [Units -> CopyStates]
      BY <1>2 DEF ReturnBuffer, HeadTyped, CopyStates
    <2>2. used' \in 0..MaxRare
      BY <1>2, MayTyped DEF ReturnBuffer, FlagsTyped
    <2>3. main' \in MainRow
      BY <1>2, Empties DEF ReturnBuffer, Rest
    <2> QED BY <1>2, <2>1, <2>2, <2>3 DEF ReturnBuffer, OthersIdle, history, HeadTyped, SlotTyped, ChannelTyped,
                         BufferTyped, FilesTyped, PastTyped, FlagsTyped
  <1>3. CASE Exit
    BY <1>3, DownTyped DEF Exit, FlagsTyped
  <1>4. ASSUME NEW gone \in SUBSET Units, NEW rs \in SUBSET Units, ResumeTasks(gone, rs) PROVE Types'
    <2>1. SlotTyped'
      <3>1. PICK f \in [rs -> Slots] :
              /\ \A u, v \in rs : f[u] = f[v] => u = v
              /\ slot' = [s \in Slots |->
                   IF \E u \in rs : f[u] = s
                     THEN [step |-> "starting", unit |-> CHOOSE u \in rs : f[u] = s, restart |-> FALSE]
                     ELSE Free]
        BY <1>4 DEF ResumeTasks
      <3>2. ASSUME NEW s \in Slots PROVE slot'[s] \in SlotRow /\ Filled(slot'[s])
        <4>1. CASE \E u \in rs : f[u] = s
          <5> DEFINE c == CHOOSE u \in rs : f[u] = s
          <5>1. c \in Units
            BY <4>1
          <5>2. slot'[s] = [step |-> "starting", unit |-> c, restart |-> FALSE]
            BY <3>1, <4>1
          <5> HIDE DEF c
          <5> QED BY <5>1, <5>2, DaemonAssumption DEF SlotRow, Filled, Steps, None
        <4>2. CASE ~ \E u \in rs : f[u] = s
          BY <3>1, <4>2, Empties
        <4> QED BY <4>1, <4>2
      <3>3. slot' = [s \in Slots |-> slot'[s]]
        BY <3>1
      <3> QED BY <3>2, <3>3 DEF SlotTyped
    <2>2. main' \in MainRow
      BY <1>4, Empties DEF ResumeTasks, Rest
    <2>3. PastTyped' /\ FilesTyped'
      BY <1>4 DEF ResumeTasks, PastTyped, FilesTyped
    <2>4. used' \in 0..MaxRare
      BY <1>4, MayTyped DEF ResumeTasks, Detached, FlagsTyped
    <2> QED BY <1>4, <2>1, <2>2, <2>3, <2>4 DEF ResumeTasks, head, HeadTyped, ChannelTyped, BufferTyped,
                         FlagsTyped
  <1>5. ASSUME NEW gone \in SUBSET Units, NEW rs \in SUBSET Units, ResumeBuffer(gone, rs) PROVE Types'
    <2>1. main' \in MainRow /\ fetch' \in FetchRow
      BY <1>5, Empties DEF ResumeBuffer, Rest
    <2>2. queue' \subseteq Units \X BOOLEAN
      <3>1. \A u \in rs : <<u, FALSE>> \in Units \X BOOLEAN
        OBVIOUS
      <3> QED BY <1>5, <3>1 DEF ResumeBuffer
    <2>3. used' \in 0..MaxRare
      BY <1>5, MayTyped DEF ResumeBuffer, Detached, FlagsTyped
    <2> QED BY <1>5, <1>h, <2>1, <2>2, <2>3 DEF ResumeBuffer, head, history, HeadTyped, SlotTyped, ChannelTyped,
                         BufferTyped,
                         FilesTyped, PastTyped, FlagsTyped
  <1> QED BY <1>1, <1>2, <1>3, <1>4, <1>5

\* Every step keeps the types.
LEMMA TypesStep == ASSUME Types, [Next]_vars PROVE Types'
  <1>1. CASE UNCHANGED vars
    BY <1>1 DEF vars, Types, HeadTyped, SlotTyped, ChannelTyped, BufferTyped, FilesTyped, PastTyped, FlagsTyped
  <1>2. CASE Coordinator
    BY <1>2, LoopTypes, CycleTypes DEF Coordinator
  <1> QED BY <1>1, <1>2, SlotTypes, FetcherTypes, RetryTypes, EnvironmentTypes DEF Next

-----------------------------------------------------------------------------
(* Boot: what is empty while the process is down or starting, and who has  *)
(* the units between the buffer and a slot.                                *)

Early == {"down", "resumeTasks", "resumeBuffer"}

HandedOver == starting = IF main.at \in {"popped", "started"} THEN {main.unit} ELSE {}

NothingYet ==
    /\ main.at \in Early => /\ queue = {} /\ starting = {} /\ fetch.at = "off"
                            /\ ~stopping /\ ~shutting /\ preserved = {}
    /\ main.at \in {"down", "resumeTasks"} => results = <<>> /\ \A s \in Slots : slot[s] = Free

Closing == (preserved # {} => shutting) /\ (shutting => stopping)

Boot == HandedOver /\ NothingYet /\ Closing

\* A step that leaves the coordinator where it is, and the buffer with it.
LEMMA BootFrame ==
    ASSUME Boot, UNCHANGED <<starting, main, stopping, shutting, preserved>>,
           main.at \in Early => queue' = {} /\ fetch'.at = "off",
           main.at \in {"down", "resumeTasks"} => UNCHANGED <<results, slot>>
    PROVE  Boot'
  BY DEF Boot, HandedOver, NothingYet, Closing

\* A fresh daemon has nothing.
LEMMA BootInit == Init => Boot
  BY DEF Init, Boot, HandedOver, NothingYet, Closing, At, AtFetch

\* A process that went down has nothing.
LEMMA BootDown == ASSUME Types, Down PROVE Boot'
  BY DEF Down, Boot, HandedOver, NothingYet, Closing, At, AtFetch, Free

\* Every step keeps Boot.
LEMMA BootStep == ASSUME Types, Boot, [Next]_vars PROVE Boot'
  <1>1. CASE UNCHANGED vars
    BY <1>1 DEF vars, Boot, HandedOver, NothingYet, Closing
  <1>2. CASE Slot
    <2>0. PICK s \in Slots :
            \/ StartWork(s) \/ CancelRun(s) \/ RestartTask(s) \/ SendResult(s)
            \/ \E kind \in {"done", "failed", "exited"} : EndRun(s, kind)
      BY <1>2 DEF Slot
    <2>1. slot[s].step # "free" /\ main.at # "down"
      BY <2>0 DEF StartWork, CancelRun, RestartTask, SendResult, EndRun, Up
    <2>2. main.at \notin {"down", "resumeTasks"}
      BY <2>1 DEF Boot, NothingYet, Free
    <2>3. UNCHANGED <<queue, starting, main, fetch, stopping, shutting>>
      BY <2>0 DEF StartWork, CancelRun, RestartTask, SendResult, EndRun
    <2>4. preserved' = preserved \/ shutting
      BY <2>0 DEF StartWork, CancelRun, RestartTask, SendResult, EndRun, EndSlot
    <2> QED BY <2>2, <2>3, <2>4 DEF Boot, HandedOver, NothingYet, Closing
  <1>3. CASE Fetcher
    <2>1. fetch.at # "off" /\ UNCHANGED <<starting, slot, results, main, stopping, shutting, preserved>>
      BY <1>3 DEF Fetcher, ReadBuffer, ReadSlots, FetchStops, BatchBegins, BatchDone, RequestWorkUnit,
                         RequestLost,
           SkipDuplicate, BufferUnit, ReturnUnit
    <2>2. main.at \notin Early
      BY <2>1 DEF Boot, NothingYet
    <2> QED BY <2>1, <2>2, BootFrame DEF Early
  <1>4. CASE Retry
    <2>1. UNCHANGED <<queue, starting, slot, results, main, fetch, stopping, shutting, preserved>>
      BY <1>4 DEF Retry, Resubmit, Resubmitted, RetryPending, RetryIdle
    <2> QED BY <2>1, BootFrame DEF Boot, NothingYet
  <1>5. CASE Environment
    <2>1. CASE SuspendAndQuit \/ Crash
      BY <2>1, BootDown DEF SuspendAndQuit, Crash
    <2>2. CASE Stop
      <3>1. main.at \notin Early
        BY <2>2 DEF Stop, Up, Early
      <3> QED BY <2>2, <3>1 DEF Stop, Boot, HandedOver, NothingYet, Closing, Early
    <2>3. ASSUME NEW it \in queue, SweepBuffer(it) PROVE Boot'
      <3>1. UNCHANGED <<starting, slot, results, main, fetch, stopping, shutting, preserved>>
            /\ (queue = {} => queue' = {})
        BY <2>3 DEF SweepBuffer
      <3> QED BY <3>1, BootFrame DEF Boot, NothingYet
    <2>4. ASSUME NEW v \in Units, ReleaseStale(v) \/ ExpireCopy(v) \/ Finalize(v) PROVE Boot'
      <3>1. UNCHANGED <<queue, starting, slot, results, main, fetch, stopping, shutting, preserved>>
        BY <2>4 DEF ReleaseStale, ExpireCopy, Finalize
      <3> QED BY <3>1, BootFrame DEF Boot, NothingYet
    <2> QED BY <1>5, <2>1, <2>2, <2>3, <2>4 DEF Environment
  <1>6. CASE Coordinator
    <2>o. Onward.at \in {"drain", "saveActive"}
      BY DEF Onward, At
    <2>1. CASE \/ TakeResult \/ Submit \/ SubmitAnswered \/ AbandonFailed \/ SaveActive \/ FillSlots \/ FillDone
               \/ SaveBuffer \/ Pause \/ Resume \/ StopAll \/ ReturnBuffer
      <3>1. main'.at \notin Early \cup {"popped", "started"}
        <4>1. CASE TakeResult
          <5>1. \/ main' = With("submit", Head(results)[1], None) \/ main' = With("abandon", Head(results)[1], None)
                \/ main' = Onward
            BY <4>1 DEF TakeResult
          <5> QED BY <5>1, <2>o DEF With, Early
        <4>2. CASE Submit
          BY <4>2 DEF Submit, With, Early
        <4>3. CASE SubmitAnswered \/ AbandonFailed
          BY <4>3, <2>o DEF SubmitAnswered, AbandonFailed, Early
        <4> QED BY <2>1, <4>1, <4>2, <4>3 DEF SaveActive, FillSlots, FillDone, SaveBuffer, Pause, Resume,
                         StopAll,
                    ReturnBuffer, At, Early
      <3>2. main.at \notin {"popped", "started"} /\ UNCHANGED <<starting, stopping, shutting, preserved>>
        BY <2>1 DEF TakeResult, Submit, SubmitAnswered, AbandonFailed, SaveActive, FillSlots, FillDone,
                         SaveBuffer,
                    Pause, Resume, StopAll, ReturnBuffer, OthersIdle
      <3> QED BY <3>1, <3>2 DEF Boot, HandedOver, NothingYet, Closing, Early
    <2>2. CASE BeginShutdown
      BY <2>2 DEF BeginShutdown, OthersIdle, Boot, HandedOver, NothingYet, Closing, Early, At
    <2>3. CASE Exit
      BY <2>3, BootDown DEF Exit
    <2>4. CASE Launch
      BY <2>4 DEF Launch, OthersIdle, Boot, HandedOver, NothingYet, Closing, Early, At
    <2>5. ASSUME NEW gone \in SUBSET Units, NEW rs \in SUBSET Units, ResumeTasks(gone, rs) \/ ResumeBuffer(gone, rs) PROVE Boot'
      <3>1. starting = {} /\ UNCHANGED <<starting, stopping, shutting, preserved>> /\ main.at \in Early
        BY <2>5 DEF ResumeTasks, ResumeBuffer, Boot, NothingYet, Early
      <3>2. \/ main'.at = "resumeBuffer" /\ UNCHANGED <<queue, fetch>>
            \/ main'.at = "top"
        <4>1. CASE ResumeTasks(gone, rs)
          BY <4>1 DEF ResumeTasks, At
        <4>2. CASE ResumeBuffer(gone, rs)
          BY <4>2 DEF ResumeBuffer, At
        <4> QED BY <2>5, <4>1, <4>2
      <3> QED BY <3>1, <3>2 DEF Boot, HandedOver, NothingYet, Closing, Early
    <2>6. ASSUME NEW it \in queue, PopFit(it) PROVE Boot'
      <3>1. starting = {} /\ starting' = starting \cup {it[1]} /\ main'.at = "popped" /\ main'.unit = it[1]
            /\ UNCHANGED <<stopping, shutting, preserved>>
        BY <2>6 DEF PopFit, OthersIdle, Boot, HandedOver, With
      <3> QED BY <3>1 DEF Boot, HandedOver, NothingYet, Closing, Early
    <2>7. CASE ReturnPopped \/ SlotStarted
      <3>1. starting' = {} /\ main'.at = "fill" /\ UNCHANGED <<stopping, shutting, preserved>>
        <4>1. starting' = starting \ {main.unit} /\ main' = At("fill") /\ UNCHANGED <<stopping, shutting, preserved>>
          BY <2>7 DEF ReturnPopped, SlotStarted, OthersIdle
        <4>2. starting \subseteq {main.unit}
          BY DEF Boot, HandedOver
        <4> QED BY <4>1, <4>2 DEF At
      <3> QED BY <3>1 DEF Boot, HandedOver, NothingYet, Closing, Early
    <2>8. ASSUME NEW s \in Slots, StartSlot(s) PROVE Boot'
      <3>1. main'.at = "started" /\ main'.unit = main.unit
        BY <2>8 DEF StartSlot, Types, MainRow
      <3> QED BY <2>8, <3>1 DEF StartSlot, Boot, HandedOver, NothingYet, Closing, Early
    <2> QED BY <1>6, <2>1, <2>2, <2>3, <2>4, <2>5, <2>6, <2>7, <2>8 DEF Coordinator
  <1> QED BY <1>1, <1>2, <1>3, <1>4, <1>5, <1>6 DEF Next

-----------------------------------------------------------------------------
(* Kept: what carries a result the head has not answered for.              *)

OnChannel(u, kind) == \E i \in 1..Len(results) : results[i][1] = u /\ results[i][2] = kind

EndedIn(u, kind) == \E s \in Slots : slot[s].step = kind /\ slot[s].unit = u

InSubmission(u) ==
    /\ main.at = "submit" \/ (main.at = "answer" /\ main.answer = "error")
    /\ main.unit = u

Secure(u) == u \in pending \/ OnChannel(u, "done") \/ EndedIn(u, "done") \/ InSubmission(u)

Outstanding(u) == u \in owed \ overtaken /\ copy[u] # "completed"

Kept(u) ==
    /\ Outstanding(u) => Secure(u)
    /\ Answered(u) => u \notin owed \ overtaken

\* What is kept is carried.
LEMMA KeptImplies == ASSUME Types, \A u \in Units : Kept(u) PROVE FinishedSurvives
  <1> SUFFICES ASSUME NEW u \in owed \ overtaken, copy[u] # "completed" PROVE u \in Carried
    BY DEF FinishedSurvives
  <1>1. Secure(u)
    BY DEF Kept, Outstanding, Types, PastTyped
  <1>2. DOMAIN results = 1..Len(results)
    BY LenProperties DEF Types, ChannelTyped
  <1>3. CASE u \in pending
    BY <1>3 DEF Carried
  <1>4. CASE OnChannel(u, "done")
    BY <1>4, <1>2 DEF Carried, OnChannel
  <1>5. CASE EndedIn(u, "done")
    BY <1>5 DEF Carried, EndedIn
  <1>6. CASE InSubmission(u)
    BY <1>6 DEF Carried, InSubmission
  <1> QED BY <1>1, <1>3, <1>4, <1>5, <1>6 DEF Secure

\* A step that ends no run, answers no retry and leaves what carries u keeps it.
LEMMA KeptBy ==
    ASSUME NEW u \in Units, Kept(u),
           u \in owed' => u \in owed, u \in overtaken => u \in overtaken',
           copy[u] = "completed" => copy'[u] = "completed",
           Outstanding(u) /\ Secure(u) => Secure(u)',
           retry' = retry \/ retry'.at # "answer" \/ retry'.answer = "error"
    PROVE  Kept(u)'
  <1>1. Outstanding(u)' => Secure(u)'
    BY DEF Kept, Outstanding
  <1>2. Answered(u)' => ~(u \in owed' /\ u \notin overtaken')
    BY DEF Kept, Answered
  <1> QED BY <1>1, <1>2 DEF Kept

\* What carries u when the coordinator has no submission in hand.
LEMMA SecureFrame ==
    ASSUME NEW u \in Units, main.at \notin {"submit", "answer"} \/ main' = main,
           u \in pending => u \in pending', UNCHANGED <<results, slot>>, Secure(u)
    PROVE  Secure(u)'
  BY DEF Secure, OnChannel, EndedIn, InSubmission

\* The head never takes a completed copy back.
LEMMA CompletedStays ==
    ASSUME Types, NEW u \in Units, [Next]_vars, copy[u] = "completed"
    PROVE  copy'[u] = "completed"
  <1> USE DEF Types, HeadTyped
  <1>1. CASE UNCHANGED copy
    BY <1>1
  <1>2. ASSUME NEW v \in Units, SubmitAt(v) PROVE copy'[u] = "completed"
    BY <1>2 DEF SubmitAt, SubmitAccepts, Live
  <1>3. ASSUME NEW v \in Units, NEW b \in BOOLEAN, AbandonAt(v, b) PROVE copy'[u] = "completed"
    BY <1>3 DEF AbandonAt, Live
  <1>4. CASE Slot
    BY <1>4, <1>1 DEF Slot, StartWork, StartWorkAccepts, Live, CancelRun, RestartTask, SendResult, EndRun, head
  <1>5. CASE Fetcher
    <2>1. ASSUME NEW us \in SUBSET Units, RequestWorkUnit(us) \/ RequestLost(us) PROVE copy'[u] = "completed"
      BY <2>1 DEF RequestWorkUnit, RequestLost, Offered, OfferedAgain, None
    <2>2. ASSUME NEW v \in Units, NEW b \in BOOLEAN, ReturnUnit(v, b) PROVE copy'[u] = "completed"
      BY <2>2, <1>1, <1>3 DEF ReturnUnit, Abandon
    <2> QED BY <1>5, <2>1, <2>2, <1>1 DEF Fetcher, ReadBuffer, ReadSlots, FetchStops, BatchBegins, BatchDone,
                                       SkipDuplicate, BufferUnit, head
  <1>6. CASE Retry
    <2>1. CASE Resubmit
      <3>1. retry.unit \in Units
        BY <2>1, InHand DEF Resubmit
      <3> QED BY <2>1, <3>1, <1>1, <1>2 DEF Resubmit
    <2> QED BY <1>6, <2>1, <1>1 DEF Retry, Resubmitted, RetryPending
  <1>7. CASE Environment
    BY <1>7, <1>1 DEF Environment, Stop, SuspendAndQuit, Crash, Down, SweepBuffer, ReleaseStale, ExpireCopy,
                      Finalize, Live, head
  <1>8. CASE Coordinator
    <2>1. CASE Submit
      <3>1. main.unit \in Units
        BY <2>1, InHand DEF Submit, Busy
      <3> QED BY <2>1, <3>1, <1>1, <1>2 DEF Submit
    <2>2. CASE AbandonFailed \/ ReturnPopped
      <3>1. main.unit \in Units
        BY <2>2, InHand DEF AbandonFailed, ReturnPopped, Busy
      <3> QED BY <2>2, <3>1, <1>1, <1>3 DEF AbandonFailed, ReturnPopped, Abandon
    <2>3. CASE ReturnBuffer
      BY <2>3, <1>1 DEF ReturnBuffer, Live
    <2>4. CASE Exit
      BY <2>4, <1>1 DEF Exit, Down, head
    <2>5. ASSUME NEW gone \in SUBSET Units, NEW rs \in SUBSET Units, ResumeTasks(gone, rs) \/ ResumeBuffer(gone, rs) PROVE copy'[u] = "completed"
      BY <2>5, <1>1 DEF ResumeTasks, ResumeBuffer, head
    <2>6. ASSUME NEW s \in Slots, StartSlot(s) PROVE copy'[u] = "completed"
      BY <2>6, <1>1 DEF StartSlot, head
    <2>7. CASE \/ TakeResult \/ SubmitAnswered \/ SaveActive \/ FillSlots \/ (\E it \in queue : PopFit(it))
               \/ SlotStarted \/ FillDone \/ SaveBuffer \/ Pause \/ Resume \/ BeginShutdown \/ StopAll \/ Launch
      BY <2>7, <1>1 DEF TakeResult, SubmitAnswered, SaveActive, FillSlots, PopFit, SlotStarted, FillDone,
                         SaveBuffer,
                  Pause, Resume, BeginShutdown, StopAll, Launch
    <2> QED BY <1>8, <2>1, <2>2, <2>3, <2>4, <2>5, <2>6, <2>7 DEF Coordinator
  <1>9. CASE UNCHANGED vars
    BY <1>9, <1>1 DEF vars
  <1> QED BY <1>4, <1>5, <1>6, <1>7, <1>8, <1>9 DEF Next

\* What EndSlot leaves in the slots.
LEMMA EndLeaves ==
    ASSUME SlotTyped, NEW s \in Slots, NEW kind \in Steps, EndSlot(s, kind)
    PROVE  /\ slot'[s].unit = slot[s].unit
           /\ slot'[s].step = (IF slot[s].restart /\ kind \in {"cancelled", "failed"} /\ ~shutting
                                 THEN "again" ELSE kind)
           /\ \A t \in Slots \ {s} : slot'[t] = slot[t]
  <1> DEFINE k == IF slot[s].restart /\ kind \in {"cancelled", "failed"} /\ ~shutting THEN "again" ELSE kind
             r == [Free EXCEPT !.step = k, !.unit = slot[s].unit]
  <1>1. slot' = [slot EXCEPT ![s] = r]
    BY DEF EndSlot
  <1>2. r.step = k /\ r.unit = slot[s].unit
    <2> HIDE DEF k
    <2> QED BY DEF Free
  <1> HIDE DEF r
  <1>3. slot'[s] = r /\ \A t \in Slots \ {s} : slot'[t] = slot[t]
    BY <1>1 DEF SlotTyped
  <1> QED BY <1>2, <1>3

\* A run that ends is kept, and so are the others.
LEMMA EndKept ==
    ASSUME Types, NEW u \in Units, Kept(u), NEW s \in Slots, slot[s].step \in {"starting", "running"},
           NEW kind \in Steps, EndSlot(s, kind), UNCHANGED <<results, main, retry, pending>>,
           copy[u] = "completed" => copy'[u] = "completed"
    PROVE  Kept(u)'
  <1>1. /\ slot'[s].unit = slot[s].unit
        /\ kind = "done" => slot'[s].step = "done"
        /\ \A t \in Slots \ {s} : slot'[t] = slot[t]
    BY EndLeaves DEF Types
  <1>2. Secure(u) => Secure(u)'
    <2>1. EndedIn(u, "done") => EndedIn(u, "done")'
      BY <1>1 DEF EndedIn
    <2> QED BY <2>1 DEF Secure, OnChannel, InSubmission
  <1>3. CASE kind = "done" /\ slot[s].unit = u
    <2>1. EndedIn(u, "done")'
      BY <1>1, <1>3 DEF EndedIn
    <2>2. Answered(u)' => u \in overtaken'
      BY <1>3 DEF EndSlot, Answered
    <2> QED BY <2>1, <2>2 DEF Kept, Secure
  <1>4. CASE ~(kind = "done" /\ slot[s].unit = u)
    <2>1. (u \in owed' => u \in owed) /\ (u \in overtaken => u \in overtaken')
      BY <1>4 DEF EndSlot
    <2> QED BY <2>1, <1>2, KeptBy
  <1> QED BY <1>3, <1>4

\* The slots keep results.
LEMMA SlotKept == ASSUME Types, Slot, NEW u \in Units, Kept(u) PROVE Kept(u)'
  <1>c. copy[u] = "completed" => copy'[u] = "completed"
    BY CompletedStays DEF Next
  <1>0. PICK s \in Slots :
          \/ StartWork(s) \/ CancelRun(s) \/ RestartTask(s) \/ SendResult(s)
          \/ \E kind \in {"done", "failed", "exited"} : EndRun(s, kind)
    BY DEF Slot
  <1>t. slot \in [Slots -> SlotRow] /\ slot[s] \in SlotRow
    BY DEF Types, SlotTyped
  <1>1. CASE StartWork(s)
    <2>1. CASE EndSlot(s, "dropped")
      <3>1. "dropped" \in Steps
        BY DEF Steps
      <3> QED BY <1>1, <2>1, <3>1, <1>c, EndKept DEF StartWork
    <2>2. CASE slot' = [slot EXCEPT ![s].step = "running"] /\ UNCHANGED history
      <3>1. slot[s].step = "starting" /\ \A t \in Slots \ {s} : slot'[t] = slot[t]
        BY <1>1, <2>2, <1>t DEF StartWork
      <3>2. Secure(u) => Secure(u)'
        BY <1>1, <3>1 DEF StartWork, Secure, OnChannel, EndedIn, InSubmission
      <3> QED BY <1>1, <2>2, <3>2, <1>c, KeptBy DEF StartWork, history
    <2> QED BY <1>1, <2>1, <2>2 DEF StartWork
  <1>2. CASE CancelRun(s) \/ \E kind \in {"done", "failed", "exited"} : EndRun(s, kind)
    <2>1. PICK kind \in Steps : EndSlot(s, kind)
      BY <1>2 DEF CancelRun, EndRun, Steps
    <2> QED BY <1>2, <2>1, <1>c, EndKept DEF CancelRun, EndRun
  <1>3. CASE RestartTask(s)
    <2>1. slot[s].step = "running" /\ \A t \in Slots \ {s} : slot'[t] = slot[t]
      BY <1>3, <1>t DEF RestartTask
    <2>2. Secure(u) => Secure(u)'
      BY <1>3, <2>1 DEF RestartTask, Secure, OnChannel, EndedIn, InSubmission, disk
    <2> QED BY <1>3, <2>2, <1>c, KeptBy DEF RestartTask, history
  <1>4. CASE SendResult(s)
    <2> DEFINE m == <<slot[s].unit, slot[s].step>>
    <2>1. m \in Message
      BY <1>4, <1>t, SlotHolds DEF Types, SendResult, SlotRow, Message
    <2>2. /\ Len(results) \in Nat /\ Len(results') = Len(results) + 1
          /\ \A i \in 1..Len(results) : results'[i] = results[i]
          /\ results'[Len(results) + 1] = m
      BY <1>4, <2>1, AppendProperties, LenProperties DEF Types, ChannelTyped, SendResult
    <2>3. OnChannel(u, "done") => OnChannel(u, "done")'
      BY <2>2 DEF OnChannel
    <2>4. EndedIn(u, "done") => EndedIn(u, "done")' \/ OnChannel(u, "done")'
      <3> SUFFICES ASSUME NEW t \in Slots, slot[t].step = "done", slot[t].unit = u
                   PROVE  EndedIn(u, "done")' \/ OnChannel(u, "done")'
        BY DEF EndedIn
      <3>1. CASE t = s
        <4>1. m[1] = u /\ m[2] = "done" /\ Len(results) + 1 \in 1..Len(results')
          BY <3>1, <2>2
        <4> HIDE DEF m
        <4> QED BY <2>2, <4>1 DEF OnChannel
      <3>2. CASE t # s
        BY <1>4, <1>t, <3>2 DEF SendResult, EndedIn
      <3> QED BY <3>1, <3>2
    <2>5. Secure(u) => Secure(u)'
      BY <1>4, <2>3, <2>4 DEF SendResult, Secure, InSubmission, disk
    <2> QED BY <1>4, <2>5, <1>c, KeptBy DEF SendResult, history
  <1> QED BY <1>0, <1>1, <1>2, <1>3, <1>4

\* The fetcher has no results in hand.
LEMMA FetcherKept == ASSUME Types, Fetcher, NEW u \in Units, Kept(u) PROVE Kept(u)'
  <1>c. copy[u] = "completed" => copy'[u] = "completed"
    BY CompletedStays DEF Next
  <1>1. UNCHANGED <<results, slot, main, retry, pending, owed, overtaken>>
    BY DEF Fetcher, ReadBuffer, ReadSlots, FetchStops, BatchBegins, BatchDone, RequestWorkUnit, RequestLost,
           SkipDuplicate, BufferUnit, ReturnUnit, disk, history
  <1>2. Secure(u) => Secure(u)'
    BY <1>1, SecureFrame
  <1> QED BY <1>1, <1>2, <1>c, KeptBy

\* The retry gives up a result only for an answer.
LEMMA RetryKept == ASSUME Types, Retry, NEW u \in Units, Kept(u) PROVE Kept(u)'
  <1>c. copy[u] = "completed" => copy'[u] = "completed"
    BY CompletedStays DEF Next
  <1>f. UNCHANGED <<results, slot, main, overtaken>>
    BY DEF Retry, Resubmit, Resubmitted, RetryPending, RetryIdle, history
  <1>1. ASSUME NEW v \in Units, RetryPending(v) PROVE Kept(u)'
    <2>1. UNCHANGED <<pending, owed>> /\ retry'.at = "send"
      BY <1>1 DEF RetryPending, disk, history, With
    <2>2. Secure(u) => Secure(u)'
      BY <2>1, <1>f, SecureFrame
    <2> QED BY <2>1, <2>2, <1>f, <1>c, KeptBy
  <1>2. CASE Resubmit
    <2>1. UNCHANGED pending
      BY <1>2 DEF Resubmit, disk
    <2>2. Secure(u) => Secure(u)'
      BY <2>1, <1>f, SecureFrame
    <2>3. CASE owed' = owed \ {retry.unit} /\ retry'.unit = retry.unit
      <3>1. u \in owed' => u \in owed
        BY <2>3
      <3>2. Outstanding(u)' => Secure(u)'
        BY <3>1, <2>2, <1>f, <1>c DEF Kept, Outstanding
      <3> QED BY <2>3, <3>2 DEF Kept, Answered
    <2>4. CASE owed' = owed /\ retry'.answer = "error"
      BY <2>4, <2>2, <1>f, <1>c, KeptBy
    <2> QED BY <1>2, <2>3, <2>4 DEF Resubmit, With
  <1>3. CASE Resubmitted
    <2>1. UNCHANGED owed /\ retry'.at = "idle"
      BY <1>3 DEF Resubmitted, history, At
    <2>2. Outstanding(u) /\ Secure(u) => Secure(u)'
      <3>1. Outstanding(u) /\ u \in pending => u \in pending'
        BY <1>3 DEF Resubmitted, Kept, Outstanding, Answered
      <3> QED BY <3>1, <1>f, SecureFrame
    <2> QED BY <2>1, <2>2, <1>f, <1>c, KeptBy
  <1> QED BY <1>1, <1>2, <1>3 DEF Retry

\* A process that goes down owes what it has on disk.
LEMMA DownKept == ASSUME Down, UNCHANGED overtaken, NEW u \in Units, Kept(u) PROVE Kept(u)'
  <1>1. (u \in owed' => u \in owed /\ u \in pending') /\ retry'.at = "idle" /\ UNCHANGED copy
    BY DEF Down, At, head
  <1> QED BY <1>1 DEF Kept, Outstanding, Secure, Answered

\* The user, the clock and the head keep results.
LEMMA EnvironmentKept == ASSUME Types, Environment, NEW u \in Units, Kept(u) PROVE Kept(u)'
  <1>c. copy[u] = "completed" => copy'[u] = "completed"
    BY CompletedStays DEF Next
  <1>1. CASE SuspendAndQuit \/ Crash
    BY <1>1, DownKept DEF SuspendAndQuit, Crash
  <1>2. CASE \/ Stop \/ (\E it \in queue : SweepBuffer(it))
             \/ \E v \in Units : ReleaseStale(v) \/ ExpireCopy(v) \/ Finalize(v)
    <2>1. UNCHANGED <<results, slot, main, retry, pending, owed, overtaken>>
      BY <1>2 DEF Stop, SweepBuffer, ReleaseStale, ExpireCopy, Finalize, disk, history
    <2>2. Secure(u) => Secure(u)'
      BY <2>1, SecureFrame
    <2> QED BY <2>1, <2>2, <1>c, KeptBy
  <1> QED BY <1>1, <1>2 DEF Environment

\* The coordinator keeps results.
LEMMA CoordinatorKept == ASSUME Types, Boot, Coordinator, NEW u \in Units, Kept(u) PROVE Kept(u)'
  <1>c. copy[u] = "completed" => copy'[u] = "completed"
    BY CompletedStays DEF Next
  <1>1. CASE TakeResult
    <2>1. /\ UNCHANGED <<slot, retry, pending, owed, overtaken>> /\ results' = Tail(results) /\ results # <<>>
          /\ main.at \in {"top", "drain"}
      BY <1>1 DEF TakeResult, OthersIdle, disk, history
    <2>2. OnChannel(u, "done") => OnChannel(u, "done")' \/ InSubmission(u)'
      <3> SUFFICES ASSUME NEW i \in 1..Len(results), results[i][1] = u, results[i][2] = "done"
                   PROVE  OnChannel(u, "done")' \/ InSubmission(u)'
        BY DEF OnChannel
      <3>1. CASE i = 1
        <4>1. Head(results)[1] = u /\ Head(results)[2] = "done"
          BY <3>1, <2>1, HeadTailProperties DEF Types, ChannelTyped
        <4>2. main' = With("submit", u, None)
          BY <1>1, <4>1 DEF TakeResult
        <4> QED BY <4>2 DEF InSubmission, With
      <3>2. CASE i # 1
        <4>1. /\ Len(results) \in Nat /\ Len(results') = Len(results) - 1
              /\ \A j \in 1..Len(results') : results'[j] = results[j + 1]
          BY <2>1, HeadTailProperties, LenProperties DEF Types, ChannelTyped
        <4>2. i - 1 \in 1..Len(results') /\ results'[i - 1] = results[i]
          BY <4>1, <3>2
        <4> QED BY <4>2 DEF OnChannel
      <3> QED BY <3>1, <3>2
    <2>3. Secure(u) => Secure(u)'
      BY <2>1, <2>2 DEF Secure, EndedIn, InSubmission
    <2> QED BY <2>1, <2>3, <1>c, KeptBy
  <1>2. CASE Submit
    <2>1. UNCHANGED <<slot, results, retry, pending, overtaken>> /\ main.at = "submit" /\ main'.unit = main.unit
          /\ main'.at = "answer"
      BY <1>2 DEF Submit, OthersIdle, disk, With
    <2>2. \/ owed' = owed \ {main.unit}
          \/ owed' = owed /\ main'.answer = "error"
      BY <1>2 DEF Submit, With
    <2>3. Outstanding(u)' => Outstanding(u)
      BY <2>1, <2>2, <1>c DEF Outstanding
    <2>4. Outstanding(u)' /\ Secure(u) => Secure(u)'
      BY <2>1, <2>2 DEF Secure, OnChannel, EndedIn, InSubmission, Outstanding
    <2>5. Outstanding(u)' => Secure(u)'
      BY <2>3, <2>4 DEF Kept
    <2> QED BY <2>1, <2>2, <2>5 DEF Kept, Answered
  <1>3. CASE SubmitAnswered
    <2>1. UNCHANGED <<slot, results, retry, owed, overtaken>> /\ main.at = "answer"
      BY <1>3 DEF SubmitAnswered, OthersIdle, history
    <2>2. InSubmission(u) => u \in pending'
      BY <1>3 DEF SubmitAnswered, InSubmission, Persists
    <2>3. u \in pending => u \in pending'
      BY <1>3 DEF SubmitAnswered
    <2>4. Secure(u) => Secure(u)'
      BY <2>1, <2>2, <2>3 DEF Secure, OnChannel, EndedIn
    <2> QED BY <2>1, <2>4, <1>c, KeptBy
  <1>4. ASSUME NEW s \in Slots, StartSlot(s) PROVE Kept(u)'
    <2>1. UNCHANGED <<results, retry, pending, owed, overtaken>> /\ main.at = "popped" /\ slot[s].step = "free"
          /\ \A t \in Slots \ {s} : slot'[t] = slot[t]
      BY <1>4 DEF StartSlot, disk, history, Types, SlotTyped
    <2>2. Secure(u) => Secure(u)'
      BY <2>1 DEF Secure, OnChannel, EndedIn, InSubmission
    <2> QED BY <2>1, <2>2, <1>c, KeptBy
  <1>5. CASE Exit
    BY <1>5, DownKept DEF Exit
  <1>6. CASE \/ AbandonFailed \/ SaveActive \/ FillSlots \/ (\E it \in queue : PopFit(it)) \/ ReturnPopped

                                     \/ SlotStarted \/ FillDone \/ SaveBuffer \/ Pause \/ Resume \/ BeginShutdown \/ StopAll \/ ReturnBuffer
             \/ Launch
    <2>1. /\ UNCHANGED <<results, slot, retry, pending, owed, overtaken>>
          /\ main.at \notin {"submit", "answer"}
      BY <1>6 DEF AbandonFailed, SaveActive, FillSlots, PopFit, ReturnPopped, SlotStarted, FillDone,
                         SaveBuffer, Pause,
                  Resume, BeginShutdown, StopAll, ReturnBuffer, Launch, OthersIdle, disk, history
    <2>2. Secure(u) => Secure(u)'
      BY <2>1, SecureFrame
    <2> QED BY <2>1, <2>2, <1>c, KeptBy
  <1>7. ASSUME NEW gone \in SUBSET Units, NEW rs \in SUBSET Units, ResumeBuffer(gone, rs) PROVE Kept(u)'
    <2>1. /\ UNCHANGED <<results, slot, retry, pending, owed, overtaken>>
          /\ main.at \notin {"submit", "answer"}
      BY <1>7 DEF ResumeBuffer, history
    <2>2. Secure(u) => Secure(u)'
      BY <2>1, SecureFrame
    <2> QED BY <2>1, <2>2, <1>c, KeptBy
  <1>8. ASSUME NEW gone \in SUBSET Units, NEW rs \in SUBSET Units, ResumeTasks(gone, rs) PROVE Kept(u)'
    <2>1. UNCHANGED <<results, retry, pending, owed, overtaken>> /\ main.at = "resumeTasks"
      BY <1>8 DEF ResumeTasks
    <2>2. \A s \in Slots : slot[s].step = "free"
      BY <2>1 DEF Boot, NothingYet, Free
    <2>3. Secure(u) => Secure(u)'
      BY <2>1, <2>2 DEF Secure, OnChannel, EndedIn, InSubmission
    <2> QED BY <2>1, <2>3, <1>c, KeptBy
  <1> QED BY <1>1, <1>2, <1>3, <1>4, <1>5, <1>6, <1>7, <1>8 DEF Coordinator

\* Every step keeps results.
LEMMA KeptStep == ASSUME Types, Boot, [Next]_vars, NEW u \in Units, Kept(u) PROVE Kept(u)'
  <1>1. CASE UNCHANGED vars
    BY <1>1 DEF vars, Kept, Answered, Outstanding, Secure, OnChannel, EndedIn, InSubmission
  <1> QED BY <1>1, SlotKept, FetcherKept, CoordinatorKept, RetryKept, EnvironmentKept DEF Next
-----------------------------------------------------------------------------
(* Places: where a unit is that neither a restart nor a launch has put in  *)
(* two places.                                                             *)

On(s, u) == slot[s].step \in {"starting", "running"} /\ slot[s].unit = u
InSlot(u) == \E s \in Slots : On(s, u)
InQueue(u) == <<u, FALSE>> \in queue \/ <<u, TRUE>> \in queue
Popped(u) == main.at = "popped" /\ main.unit = u

\* No restart is on its way.
NoRestart(u) ==
    /\ <<u, TRUE>> \notin queue
    /\ ~EndedIn(u, "again") /\ ~OnChannel(u, "again")

\* One place at a time.
Once(u) ==
    /\ \A s, t \in Slots : On(s, u) /\ On(t, u) => s = t
    /\ InQueue(u) => ~InSlot(u) /\ u \notin starting
    /\ Popped(u) => ~InSlot(u)
    /\ main.at = "resumeBuffer" => ~(InSlot(u) /\ u \in bufferFile)

\* What a report being collected has seen.
Seen(u) ==
    /\ fetch.at = "slots" /\ (InQueue(u) \/ u \in starting) => u \in fetch.held
    /\ fetch.at \in {"ask", "buffer"} /\ (InQueue(u) \/ u \in starting \/ InSlot(u)) => u \in fetch.held

\* A work directory belongs to someone; a unit left out of the report has none.
Owned(u) == u \in dirs /\ main.at \notin Early => InQueue(u) \/ Popped(u) \/ InSlot(u) \/ u \in preserved

Gone(u) ==
    u \in missing =>
      u \notin dirs /\ u \notin fetch.batch /\ ~InQueue(u) /\ u \notin starting /\ ~InSlot(u)

Place(u) == NoRestart(u) /\ Once(u) /\ Seen(u) /\ Owned(u) /\ Gone(u)

Places == \A u \in Units \ (twins \cup rerun) : Place(u)

\* What is held, unit by unit.
LEMMA HeldIs ==
    ASSUME Types, NEW u \in Units
    PROVE  /\ u \in Queued(queue) <=> InQueue(u)
           /\ u \in ActiveIn(slot) <=> InSlot(u)
           /\ u \in heldWorkUnits <=> InQueue(u) \/ u \in starting \/ InSlot(u)
  <1>1. u \in Queued(queue) <=> InQueue(u)
    <2>1. \A it \in queue : it \in Units \X BOOLEAN
      BY DEF Types, BufferTyped
    <2>2. \A it \in queue : it = <<it[1], TRUE>> \/ it = <<it[1], FALSE>>
      <3> SUFFICES ASSUME NEW it \in queue PROVE it = <<it[1], TRUE>> \/ it = <<it[1], FALSE>>
        OBVIOUS
      <3>1. it = <<it[1], it[2]>> /\ it[2] \in BOOLEAN
        BY <2>1
      <3>2. it[2] = TRUE \/ it[2] = FALSE
        BY <3>1
      <3> QED BY <3>1, <3>2
    <2>3. u \in Queued(queue) => InQueue(u)
      BY <2>2 DEF Queued, InQueue
    <2>4. InQueue(u) => u \in Queued(queue)
      BY DEF Queued, InQueue
    <2> QED BY <2>3, <2>4
  <1>2. u \in ActiveIn(slot) <=> InSlot(u)
    BY DEF ActiveIn, InSlot, On
  <1> QED BY <1>1, <1>2 DEF heldWorkUnits, HeldIn

\* Places is what HeldOnce asks for.
LEMMA PlacesImply == ASSUME Types, Places PROVE HeldOnce
  <1> SUFFICES ASSUME NEW u \in Units \ (twins \cup rerun)
               PROVE  /\ \A s, t \in Slots : s # t /\ u \in ActiveIn([slot EXCEPT ![t] = Free])
                                => ~(slot[t].step \in {"starting", "running"} /\ slot[t].unit = u)
                      /\ u \in Queued(queue) => u \notin ActiveIn(slot) \cup starting
    BY DEF HeldOnce
  <1>1. Once(u)
    BY DEF Places, Place
  <1>2. u \in Queued(queue) => u \notin ActiveIn(slot) \cup starting
    BY <1>1, HeldIs DEF Once
  <1>3. ASSUME NEW s \in Slots, NEW t \in Slots, u \in ActiveIn([slot EXCEPT ![t] = Free]), On(t, u)
        PROVE  FALSE
    <2> DEFINE sl == [slot EXCEPT ![t] = Free]
    <2>1. PICK r \in Slots : sl[r].step \in {"starting", "running"} /\ sl[r].unit = u
      BY <1>3 DEF ActiveIn
    <2>2. sl[t] = Free /\ \A q \in Slots \ {t} : sl[q] = slot[q]
      BY DEF Types, SlotTyped
    <2>3. r # t
      BY <2>1, <2>2 DEF Free
    <2>4. On(r, u)
      BY <2>1, <2>2, <2>3 DEF On
    <2> QED BY <1>1, <1>3, <2>3, <2>4 DEF Once
  <1> QED BY <1>2, <1>3 DEF On

\* A step that moves no unit.
LEMMA PlaceFrame ==
    ASSUME NEW u \in Units, Place(u), UNCHANGED <<queue, starting, slot, results, dirs, preserved, fetch>>,
           \/ UNCHANGED <<main, bufferFile>>
           \/ main.at \notin Early \cup {"popped"} /\ main'.at \notin Early \cup {"popped"},
           u \in missing' => u \in missing
    PROVE  Place(u)'
  <1>1. NoRestart(u)'
    BY DEF Place, NoRestart, EndedIn, OnChannel
  <1>2. Once(u)'
    BY DEF Place, Once, On, InSlot, InQueue, Popped, Early
  <1>3. Seen(u)'
    BY DEF Place, Seen, On, InSlot, InQueue
  <1>4. Owned(u)'
    BY DEF Place, Owned, On, InSlot, InQueue, Popped, Early
  <1>5. Gone(u)'
    BY DEF Place, Gone, On, InSlot, InQueue
  <1> QED BY <1>1, <1>2, <1>3, <1>4, <1>5 DEF Place

\* A fresh daemon has no unit anywhere.
LEMMA PlaceInit == ASSUME Init, NEW u \in Units PROVE Place(u)
  <1>1. \A s \in Slots : slot[s] = Free
    BY DEF Init
  <1>2. ~InSlot(u) /\ ~EndedIn(u, "again")
    BY <1>1 DEF InSlot, On, EndedIn, Free
  <1>3. ~OnChannel(u, "again")
    BY DEF Init, OnChannel
  <1>4. ~InQueue(u) /\ ~Popped(u) /\ u \notin missing /\ u \notin dirs
        /\ <<u, TRUE>> \notin queue /\ u \notin starting
    BY DEF Init, InQueue, Popped, At
  <1>5. Once(u)
    BY <1>2, <1>4 DEF Once, InSlot
  <1> QED BY <1>2, <1>3, <1>4, <1>5 DEF Place, NoRestart, Seen, Owned, Gone

\* A slot's run ends: its unit leaves the slots, and its work directory with it
\* or into the next launch.
LEMMA EndPlace ==
    ASSUME Types, Boot, NEW u \in Units, Place(u), u \notin rerun', NEW s \in Slots,
           slot[s].step \in {"starting", "running"},
           NEW kind \in Steps \ {"again"}, EndSlot(s, kind), kind \notin {"starting", "running"},
           UNCHANGED <<queue, starting, results, main, fetch, missing, bufferFile>>
    PROVE  Place(u)'
  <1> USE DEF Place
  <1>1. /\ slot'[s].unit = slot[s].unit
        /\ slot'[s].step = (IF slot[s].restart /\ kind \in {"cancelled", "failed"} /\ ~shutting
                              THEN "again" ELSE kind)
        /\ \A t \in Slots \ {s} : slot'[t] = slot[t]
    BY EndLeaves DEF Types
  <1>2. slot'[s].step = "again" => slot[s].unit # u
    BY <1>1 DEF EndSlot
  <1>3. \A t \in Slots : On(t, u)' <=> t # s /\ On(t, u)
    BY <1>1 DEF On
  <1>4. InSlot(u)' => InSlot(u)
    BY <1>3 DEF InSlot
  <1>5. u \in dirs' => u \in dirs /\ (slot[s].unit # u \/ u \in preserved')
    BY DEF EndSlot
  <1>6. u \in preserved => u \in preserved'
    BY DEF EndSlot
  <1>7. InSlot(u) /\ slot[s].unit # u => InSlot(u)'
    BY <1>3 DEF InSlot, On
  <1>8. NoRestart(u)'
    <2>1. ~EndedIn(u, "again")'
      BY <1>1, <1>2 DEF NoRestart, EndedIn
    <2> QED BY <2>1 DEF NoRestart, OnChannel
  <1>9. Once(u)'
    BY <1>3, <1>4 DEF Once, InQueue, Popped
  <1>10. Seen(u)'
    BY <1>4 DEF Seen, InQueue
  <1>11. Owned(u)'
    BY <1>5, <1>6, <1>7 DEF Owned, InQueue, Popped
  <1>12. Gone(u)'
    BY <1>4, <1>5 DEF Gone, InQueue
  <1> QED BY <1>8, <1>9, <1>10, <1>11, <1>12

\* A step in one slot that keeps its unit, and whether it is active.
LEMMA SameSlots ==
    ASSUME NEW u \in Units, Place(u), \A t \in Slots : On(t, u)' <=> On(t, u), EndedIn(u,
           "again")' => EndedIn(u, "again"),
           OnChannel(u, "again")' => OnChannel(u, "again"),
           UNCHANGED <<queue, starting, main, fetch, missing, bufferFile, dirs, preserved>>
    PROVE  Place(u)'
  <1> USE DEF Place
  <1>1. InSlot(u)' <=> InSlot(u)
    BY DEF InSlot
  <1>2. NoRestart(u)'
    BY DEF NoRestart
  <1>3. Once(u)'
    BY <1>1 DEF Once, InQueue, Popped
  <1>4. Seen(u)' /\ Owned(u)' /\ Gone(u)'
    BY <1>1 DEF Seen, Owned, Gone, InQueue, Popped
  <1> QED BY <1>2, <1>3, <1>4

\* The slots keep a unit in its place.
LEMMA SlotPlace ==
    ASSUME Types, Boot, Slot, NEW u \in Units, u \notin twins' \cup rerun', Place(u)
    PROVE  Place(u)'
  <1>0. PICK s \in Slots :
          \/ StartWork(s) \/ CancelRun(s) \/ RestartTask(s) \/ SendResult(s)
          \/ \E kind \in {"done", "failed", "exited"} : EndRun(s, kind)
    BY DEF Slot
  <1>t. slot \in [Slots -> SlotRow] /\ slot[s] \in SlotRow
    BY DEF Types, SlotTyped
  <1>1. CASE StartWork(s)
    <2>1. CASE EndSlot(s, "dropped")
      <3>1. "dropped" \in Steps \ {"again"}
        BY DEF Steps
      <3> QED BY <1>1, <2>1, <3>1, EndPlace DEF StartWork
    <2>2. CASE slot' = [slot EXCEPT ![s].step = "running"] /\ UNCHANGED <<preserved, dirs>>
      <3>1. /\ slot[s].step = "starting" /\ slot'[s].unit = slot[s].unit /\ slot'[s].step = "running"
            /\ \A t \in Slots \ {s} : slot'[t] = slot[t]
        BY <1>1, <2>2, <1>t DEF StartWork, SlotRow
      <3>2. (\A t \in Slots : On(t, u)' <=> On(t, u)) /\ (EndedIn(u, "again")' => EndedIn(u, "again"))
        BY <3>1 DEF On, EndedIn
      <3> QED BY <1>1, <2>2, <3>2, SameSlots DEF StartWork, OnChannel
    <2> QED BY <1>1, <2>1, <2>2 DEF StartWork
  <1>2. CASE CancelRun(s) \/ \E kind \in {"done", "failed", "exited"} : EndRun(s, kind)
    <2>1. PICK kind \in Steps \ {"again"} : EndSlot(s, kind) /\ kind \notin {"starting", "running"}
      BY <1>2 DEF CancelRun, EndRun, Steps
    <2> QED BY <1>2, <2>1, EndPlace DEF CancelRun, EndRun, head
  <1>3. CASE RestartTask(s)
    <2>1. /\ slot'[s].unit = slot[s].unit /\ slot'[s].step = slot[s].step
          /\ \A t \in Slots \ {s} : slot'[t] = slot[t]
      BY <1>3, <1>t DEF RestartTask, SlotRow
    <2>2. (\A t \in Slots : On(t, u)' <=> On(t, u)) /\ (EndedIn(u, "again")' => EndedIn(u, "again"))
      BY <2>1 DEF On, EndedIn
    <2> QED BY <1>3, <2>2, SameSlots DEF RestartTask, OnChannel, head, disk
  <1>4. CASE SendResult(s)
    <2> DEFINE m == <<slot[s].unit, slot[s].step>>
    <2>1. m \in Message
      BY <1>4, <1>t, SlotHolds DEF Types, SendResult, SlotRow, Message
    <2>2. /\ Len(results) \in Nat /\ Len(results') = Len(results) + 1
          /\ \A i \in 1..Len(results) : results'[i] = results[i]
          /\ results'[Len(results) + 1] = m
      BY <1>4, <2>1, AppendProperties, LenProperties DEF Types, ChannelTyped, SendResult
    <2>3. slot'[s] = Free /\ \A t \in Slots \ {s} : slot'[t] = slot[t]
      BY <1>4, <1>t DEF SendResult
    <2>4. (\A t \in Slots : On(t, u)' <=> On(t, u)) /\ (EndedIn(u, "again")' => EndedIn(u, "again"))
      BY <1>4, <2>3 DEF SendResult, On, EndedIn, Free
    <2>5. OnChannel(u, "again")' => OnChannel(u, "again")
      <3>1. ~(m[1] = u /\ m[2] = "again")
        BY DEF Place, NoRestart, EndedIn
      <3> HIDE DEF m
      <3> SUFFICES ASSUME NEW i \in 1..Len(results'), results'[i][1] = u, results'[i][2] = "again"
                   PROVE  OnChannel(u, "again")
        BY DEF OnChannel
      <3>2. i # Len(results) + 1
        BY <2>2, <3>1
      <3>3. i \in 1..Len(results)
        BY <2>2, <3>2
      <3> QED BY <2>2, <3>3 DEF OnChannel
    <2> QED BY <1>4, <2>4, <2>5, SameSlots DEF SendResult, head, disk
  <1> QED BY <1>0, <1>1, <1>2, <1>3, <1>4

\* The fetcher never gives a unit a second place, and its report misses none.
LEMMA FetcherPlace ==
    ASSUME Types, Boot, Fetcher, NEW u \in Units, u \notin twins' \cup rerun', Place(u)
    PROVE  Place(u)'
  <1> USE DEF Place
  <1>f. UNCHANGED <<starting, slot, results, main, preserved, bufferFile>> /\ fetch.at # "off"
    BY DEF Fetcher, ReadBuffer, ReadSlots, FetchStops, BatchBegins, BatchDone, RequestWorkUnit, RequestLost,
           SkipDuplicate, BufferUnit, ReturnUnit, disk
  <1>e. main.at \notin Early
    BY <1>f DEF Boot, NothingYet
  <1>s. (InSlot(u)' <=> InSlot(u)) /\ (Popped(u)' <=> Popped(u))
    BY <1>f DEF InSlot, On, Popped
  <1>r. fetch \in FetchRow
    BY DEF Types
  <1>1. CASE \/ ReadBuffer \/ ReadSlots \/ FetchStops \/ BatchBegins \/ BatchDone
             \/ (\E v \in Units : SkipDuplicate(v) \/ \E b \in BOOLEAN : ReturnUnit(v, b))
    <2>f. UNCHANGED <<missing, queue, dirs>>
      BY <1>1 DEF ReadBuffer, ReadSlots, FetchStops, BatchBegins, BatchDone, SkipDuplicate, ReturnUnit, head,
                         disk
    <2>q. InQueue(u)' <=> InQueue(u)
      BY <2>f DEF InQueue
    <2>1. NoRestart(u)' /\ Once(u)' /\ Owned(u)'
      <3>1. NoRestart(u)'
        BY <1>f, <2>f DEF NoRestart, EndedIn, OnChannel
      <3>2. Once(u)'
        BY <1>f, <1>s, <2>q DEF Once, On
      <3>3. Owned(u)'
        BY <1>f, <1>s, <2>f, <2>q DEF Owned
      <3> QED BY <3>1, <3>2, <3>3
    <2>2. Gone(u)'
      <3>1. u \in fetch'.batch => u \in fetch.batch
        <4>1. CASE ReadBuffer \/ ReadSlots \/ BatchBegins
          BY <4>1, <1>r DEF ReadBuffer, ReadSlots, BatchBegins, FetchRow
        <4>2. CASE FetchStops \/ BatchDone
          BY <4>2 DEF FetchStops, BatchDone, AtFetch
        <4>3. ASSUME NEW v \in Units, SkipDuplicate(v) \/ \E b \in BOOLEAN : ReturnUnit(v, b)
              PROVE  u \in fetch'.batch => u \in fetch.batch
          <5>1. fetch' = [fetch EXCEPT !.batch = fetch.batch \ {v}]
            BY <4>3 DEF SkipDuplicate, ReturnUnit
          <5> QED BY <5>1, <1>r DEF FetchRow
        <4> QED BY <1>1, <4>1, <4>2, <4>3
      <3> QED BY <3>1, <1>f, <1>s, <2>f, <2>q DEF Gone
    <2>3. Seen(u)'
      <3>h. /\ u \in Queued(queue) <=> InQueue(u)
            /\ u \in ActiveIn(slot) <=> InSlot(u)
            /\ u \in heldWorkUnits <=> InQueue(u) \/ u \in starting \/ InSlot(u)
        BY HeldIs
      <3>1. CASE ReadBuffer
        <4>1. fetch'.at = "slots" /\ fetch'.held = Queued(queue) \cup starting
          BY <3>1, <1>r DEF ReadBuffer, FetchRow
        <4> QED BY <4>1, <3>h, <1>f, <2>q DEF Seen
      <3>2. CASE ReadSlots
        <4>1. fetch'.at = "ask" /\ fetch'.held = fetch.held \cup ActiveIn(slot) /\ fetch.at = "slots"
          BY <3>2, <1>r DEF ReadSlots, FetchRow
        <4> QED BY <4>1, <3>h, <1>f, <1>s, <2>q DEF Seen
      <3>3. CASE BatchBegins
        <4>1. fetch'.at = "buffer" /\ fetch'.held = heldWorkUnits
          BY <3>3, <1>r DEF BatchBegins, FetchRow
        <4> QED BY <4>1, <3>h, <1>f, <1>s, <2>q DEF Seen
      <3>4. CASE FetchStops \/ BatchDone
        <4>1. fetch'.at \notin {"slots", "ask", "buffer"}
          BY <3>4 DEF FetchStops, BatchDone, AtFetch
        <4> QED BY <4>1 DEF Seen
      <3>5. CASE \E v \in Units : SkipDuplicate(v) \/ \E b \in BOOLEAN : ReturnUnit(v, b)
        <4>1. fetch'.at = fetch.at /\ fetch'.held = fetch.held
          BY <3>5, <1>r DEF SkipDuplicate, ReturnUnit, FetchRow
        <4> QED BY <4>1, <1>f, <1>s, <2>q DEF Seen
      <3> QED BY <1>1, <3>1, <3>2, <3>3, <3>4, <3>5
    <2> QED BY <2>1, <2>2, <2>3
  <1>2. ASSUME NEW us \in SUBSET Units, RequestWorkUnit(us) \/ RequestLost(us) PROVE Place(u)'
    <2>f. /\ UNCHANGED <<queue, dirs>> /\ fetch.at = "ask" /\ ~stopping
          /\ us \subseteq Offered \/ us \subseteq OfferedAgain
          /\ missing' = {v \in Units : Live(v) /\ v \notin fetch.held}
      BY <1>2 DEF RequestWorkUnit, RequestLost, disk
    <2>g. fetch'.at \in {"idle", "batch"} /\ fetch'.batch \subseteq us
      BY <1>2 DEF RequestWorkUnit, RequestLost, AtFetch
    <2>q. InQueue(u)' <=> InQueue(u)
      BY <2>f DEF InQueue
    <2>1. NoRestart(u)'
      BY <1>f, <2>f DEF NoRestart, EndedIn, OnChannel
    <2>2. Once(u)'
      BY <1>f, <1>s, <2>q DEF Once, On
    <2>3. Owned(u)'
      BY <1>f, <1>s, <2>f, <2>q DEF Owned
    <2>4. Seen(u)'
      BY <2>g DEF Seen
    <2>5. Gone(u)'
      <3> SUFFICES ASSUME u \in missing'

                                           PROVE  u \notin dirs' /\ u \notin fetch'.batch /\ ~InQueue(u)' /\ u \notin starting' /\ ~InSlot(u)'
        BY DEF Gone
      <3>1. ~InQueue(u) /\ u \notin starting /\ ~InSlot(u)
        BY <2>f DEF Seen
      <3>2. u \notin us
        BY <2>f DEF Offered, OfferedAgain, Live, None
      <3>3. preserved = {}
        BY <2>f DEF Boot, Closing
      <3>4. ~Popped(u)
        BY <3>1 DEF Boot, HandedOver, Popped
      <3>5. u \notin dirs
        BY <3>1, <3>3, <3>4, <1>e DEF Owned
      <3> QED BY <3>1, <3>2, <3>5, <1>f, <1>s, <2>f, <2>g, <2>q
    <2> QED BY <2>1, <2>2, <2>3, <2>4, <2>5
  <1>3. ASSUME NEW v \in Units, BufferUnit(v) PROVE Place(u)'
    <2>f. /\ UNCHANGED missing /\ fetch.at = "buffer" /\ v \in fetch.batch /\ v \notin fetch.held
          /\ queue' = queue \cup {<<v, FALSE>>} /\ dirs' = dirs \cup {v}
      BY <1>3 DEF BufferUnit, NewToUs, head
    <2>g. fetch'.at = "buffer" /\ fetch'.held = fetch.held \cup {v} /\ fetch'.batch \subseteq fetch.batch
      BY <1>3, <1>r DEF BufferUnit, FetchRow
    <2>q. (InQueue(u)' <=> InQueue(u) \/ u = v) /\ (<<u, TRUE>> \in queue' <=> <<u, TRUE>> \in queue)
      BY <2>f DEF InQueue
    <2>n. u = v => ~InQueue(u) /\ u \notin starting /\ ~InSlot(u) /\ u \notin missing
      BY <2>f DEF Seen, Gone
    <2>p. u = v => ~Popped(u)
      BY <2>n DEF Boot, HandedOver, Popped
    <2>1. NoRestart(u)'
      BY <1>f, <2>q DEF NoRestart, EndedIn, OnChannel
    <2>2. Once(u)'
      BY <1>f, <1>s, <2>q, <2>n, <2>p DEF Once, On
    <2>3. Seen(u)'
      BY <1>f, <1>s, <2>f, <2>g, <2>q DEF Seen
    <2>4. Owned(u)'
      BY <1>f, <1>s, <2>f, <2>q DEF Owned
    <2>5. Gone(u)'
      BY <1>f, <1>s, <2>f, <2>g, <2>q, <2>n DEF Gone
    <2> QED BY <2>1, <2>2, <2>3, <2>4, <2>5
  <1> QED BY <1>1, <1>2, <1>3 DEF Fetcher

\* A process that went down holds nothing.
LEMMA DownPlace ==
    ASSUME Types, Down, NEW u \in Units, Place(u)
    PROVE  Place(u)'
  <1>1. \A s \in Slots : slot'[s].step = "free"
    BY DEF Down, Free
  <1>2. ~InSlot(u)' /\ ~EndedIn(u, "again")' /\ \A s \in Slots : ~On(s, u)'
    BY <1>1 DEF InSlot, On, EndedIn
  <1>3. ~OnChannel(u, "again")'
    BY DEF Down, OnChannel
  <1>4. ~InQueue(u)' /\ ~Popped(u)' /\ <<u, TRUE>> \notin queue' /\ u \notin starting' /\ main'.at = "down"
        /\ fetch'.at = "off" /\ fetch'.batch = {} /\ UNCHANGED <<missing, dirs>>
    BY DEF Down, InQueue, Popped, At, AtFetch, head
  <1>5. NoRestart(u)' /\ Seen(u)' /\ Owned(u)'
    BY <1>2, <1>3, <1>4 DEF NoRestart, Seen, Owned, Early
  <1>6. Once(u)'
    BY <1>2, <1>4 DEF Once
  <1>7. Gone(u)'
    BY <1>2, <1>4 DEF Place, Gone
  <1> QED BY <1>5, <1>6, <1>7 DEF Place

\* The retry moves no unit.
LEMMA RetryPlace == ASSUME Retry, NEW u \in Units, Place(u) PROVE Place(u)'
  <1>1. UNCHANGED <<queue, starting, slot, results, dirs, preserved, fetch, main, bufferFile, missing>>
    BY DEF Retry, Resubmit, Resubmitted, RetryPending, RetryIdle, disk
  <1> QED BY <1>1, PlaceFrame

\* The user, the clock and the head move no unit to a second place.
LEMMA EnvironmentPlace ==
    ASSUME Types, Boot, Environment, NEW u \in Units, Place(u)
    PROVE  Place(u)'
  <1>1. CASE SuspendAndQuit \/ Crash
    BY <1>1, DownPlace DEF SuspendAndQuit, Crash
  <1>2. CASE Stop \/ \E v \in Units : ReleaseStale(v) \/ ExpireCopy(v) \/ Finalize(v)
    <2>1. UNCHANGED <<queue, starting, slot, results, dirs, preserved, fetch, main, bufferFile>>
          /\ (u \in missing' => u \in missing)
      BY <1>2 DEF Stop, ReleaseStale, ExpireCopy, Finalize, disk, head
    <2> QED BY <2>1, PlaceFrame
  <1>3. ASSUME NEW it \in queue, SweepBuffer(it) PROVE Place(u)'
    <2> USE DEF Place
    <2>1. /\ UNCHANGED <<missing, starting, slot, results, main, fetch, preserved, bufferFile>>
          /\ queue' = queue \ {it} /\ dirs' = dirs \ {it[1]}
      BY <1>3 DEF SweepBuffer, head
    <2>2. (InSlot(u)' <=> InSlot(u)) /\ (Popped(u)' <=> Popped(u)) /\ (InQueue(u)' => InQueue(u))
      BY <2>1 DEF InSlot, On, Popped, InQueue
    <2>3. u \in dirs' => u \in dirs /\ (InQueue(u) => InQueue(u)')
      <3>1. it[1] # u => it # <<u, FALSE>> /\ it # <<u, TRUE>>
        BY <<u, FALSE>>[1] = u, <<u, TRUE>>[1] = u
      <3> QED BY <2>1, <3>1 DEF InQueue
    <2>4. NoRestart(u)'
      BY <2>1 DEF NoRestart, EndedIn, OnChannel
    <2>5. Once(u)'
      BY <2>1, <2>2 DEF Once, On
    <2>6. Seen(u)' /\ Owned(u)' /\ Gone(u)'
      BY <2>1, <2>2, <2>3 DEF Seen, Owned, Gone
    <2> QED BY <2>4, <2>5, <2>6
  <1> QED BY <1>1, <1>2, <1>3 DEF Environment

\* The coordinator moves a unit from the buffer to one slot.
LEMMA CoordinatorPlace ==
    ASSUME Types, Boot, Coordinator, NEW u \in Units, u \notin twins' \cup rerun', Place(u)
    PROVE  Place(u)'
  <1> USE DEF Place
  <1>o. Onward.at \in {"drain", "saveActive"}
    BY DEF Onward, At
  <1>1. CASE TakeResult
    <2>1. /\ UNCHANGED <<missing, starting, slot, fetch, preserved, dirs, bufferFile>> /\ results' = Tail(results)
          /\ main.at \in {"top", "drain"} /\ results # <<>>
      BY <1>1 DEF TakeResult, OthersIdle, disk
    <2>2. main'.at \notin Early \cup {"popped"}
      <3>1. \/ main' = With("submit", Head(results)[1], None) \/ main' = With("abandon", Head(results)[1], None)
            \/ main' = Onward
        BY <1>1 DEF TakeResult
      <3> QED BY <3>1, <1>o DEF With, Early
    <2>3. /\ Len(results) \in Nat /\ Len(results) > 0 /\ Head(results) = results[1]
          /\ Len(results') = Len(results) - 1 /\ \A j \in 1..Len(results') : results'[j] = results[j + 1]
      BY <2>1, HeadTailProperties, LenProperties, EmptySeq DEF Types, ChannelTyped
    <2>4. ~(Head(results)[1] = u /\ Head(results)[2] = "again")
      <3>1. 1 \in 1..Len(results)
        BY <2>3
      <3> QED BY <2>3, <3>1 DEF NoRestart, OnChannel
    <2>5. (InQueue(u)' <=> InQueue(u)) /\ (<<u, TRUE>> \in queue' <=> <<u, TRUE>> \in queue)
      <3>1. queue' = queue \/ (Head(results)[1] # u /\ queue' = queue \cup {<<Head(results)[1], TRUE>>})
        BY <1>1, <2>4 DEF TakeResult
      <3> QED BY <3>1 DEF InQueue
    <2>6. NoRestart(u)'
      <3>1. ~OnChannel(u, "again")'
        <4> SUFFICES ASSUME NEW i \in 1..Len(results'), results'[i][1] = u, results'[i][2] = "again" PROVE FALSE
          BY DEF OnChannel
        <4>1. i + 1 \in 1..Len(results) /\ results[i + 1] = results'[i]
          BY <2>3
        <4> QED BY <4>1 DEF NoRestart, OnChannel
      <3> QED BY <3>1, <2>1, <2>5 DEF NoRestart, EndedIn
    <2>7. (InSlot(u)' <=> InSlot(u)) /\ ~Popped(u) /\ ~Popped(u)'
      BY <2>1, <2>2 DEF InSlot, On, Popped
    <2>8. Once(u)'
      BY <2>1, <2>2, <2>5, <2>7 DEF Once, On, Early
    <2>9. Seen(u)' /\ Gone(u)'
      BY <2>1, <2>5, <2>7 DEF Seen, Gone
    <2>10. Owned(u)'
      BY <2>1, <2>2, <2>5, <2>7 DEF Owned, Early
    <2> QED BY <2>6, <2>8, <2>9, <2>10
  <1>2. CASE \/ Submit \/ SubmitAnswered \/ AbandonFailed \/ SaveActive \/ FillSlots \/ FillDone \/ SaveBuffer
             \/ Pause \/ Resume \/ BeginShutdown \/ StopAll
    <2>1. /\ UNCHANGED <<queue, starting, slot, results, dirs, preserved, fetch, missing>>
          /\ main.at \notin Early \cup {"popped"}
      BY <1>2 DEF Submit, SubmitAnswered, AbandonFailed, SaveActive, FillSlots, FillDone, SaveBuffer, Pause,
                         Resume,
                  BeginShutdown, StopAll, OthersIdle, disk, Early
    <2>2. main'.at \notin Early \cup {"popped"}
      <3>1. CASE Submit
        BY <3>1 DEF Submit, With, Early
      <3>2. CASE SubmitAnswered \/ AbandonFailed
        BY <3>2, <1>o DEF SubmitAnswered, AbandonFailed, Early
      <3> QED BY <1>2, <3>1, <3>2 DEF SaveActive, FillSlots, FillDone, SaveBuffer, Pause, Resume,
                         BeginShutdown, StopAll,
                  At, Early
    <2> QED BY <2>1, <2>2, PlaceFrame
  <1>3. ASSUME NEW it \in queue, PopFit(it) PROVE Place(u)'
    <2>1. /\ UNCHANGED <<missing, slot, results, fetch, preserved, dirs, bufferFile>> /\ main.at = "fill"
          /\ queue' = queue \ {it} /\ starting' = starting \cup {it[1]}
          /\ main'.at = "popped" /\ main'.unit = it[1]
      BY <1>3 DEF PopFit, OthersIdle, disk, With
    <2>2. it \in Units \X BOOLEAN
      BY DEF Types, BufferTyped
    <2>3. it[1] # u => it # <<u, FALSE>> /\ it # <<u, TRUE>>
      BY <<u, FALSE>>[1] = u, <<u, TRUE>>[1] = u
    <2>4. it[1] = u => it = <<u, FALSE>>
      <3>1. it = <<it[1], it[2]>> /\ it[2] \in BOOLEAN
        BY <2>2
      <3>2. it[2] = TRUE \/ it[2] = FALSE
        BY <3>1
      <3> QED BY <3>1, <3>2 DEF NoRestart
    <2>5. (InQueue(u)' <=> InQueue(u) /\ it[1] # u) /\ (<<u, TRUE>> \in queue' => <<u, TRUE>> \in queue)
          /\ (it[1] = u => InQueue(u))
      BY <2>1, <2>3, <2>4 DEF InQueue, NoRestart
    <2>6. (InSlot(u)' <=> InSlot(u)) /\ ~Popped(u) /\ (Popped(u)' <=> it[1] = u)
      BY <2>1 DEF InSlot, On, Popped
    <2>7. NoRestart(u)'
      BY <2>1, <2>5 DEF NoRestart, EndedIn, OnChannel
    <2>8. Once(u)'
      BY <2>1, <2>5, <2>6 DEF Once, On
    <2>9. Seen(u)' /\ Gone(u)'
      BY <2>1, <2>5, <2>6 DEF Seen, Gone
    <2>10. Owned(u)'
      BY <2>1, <2>5, <2>6 DEF Owned, Early
    <2> QED BY <2>7, <2>8, <2>9, <2>10
  <1>4. CASE ReturnPopped \/ SlotStarted
    <2>1. /\ UNCHANGED <<missing, queue, slot, results, fetch, preserved, bufferFile>>
          /\ main.at \in {"popped", "started"} /\ main'.at = "fill" /\ starting' = starting \ {main.unit}
          /\ (u \in dirs' => u \in dirs /\ ~Popped(u))
      <3>1. CASE ReturnPopped
        BY <3>1 DEF ReturnPopped, OthersIdle, At, Popped
      <3>2. CASE SlotStarted
        BY <3>2 DEF SlotStarted, OthersIdle, At, Popped
      <3> QED BY <1>4, <3>1, <3>2
    <2>2. (InSlot(u)' <=> InSlot(u)) /\ (InQueue(u)' <=> InQueue(u)) /\ ~Popped(u)'
      BY <2>1 DEF InSlot, On, Popped, InQueue
    <2>3. NoRestart(u)'
      BY <2>1 DEF NoRestart, EndedIn, OnChannel
    <2>4. Once(u)'
      BY <2>1, <2>2 DEF Once, On
    <2>5. Seen(u)' /\ Gone(u)' /\ Owned(u)'
      BY <2>1, <2>2 DEF Seen, Gone, Owned, Early
    <2> QED BY <2>3, <2>4, <2>5
  <1>5. ASSUME NEW s \in Slots, StartSlot(s) PROVE Place(u)'
    <2>1. /\ UNCHANGED <<missing, queue, starting, results, fetch, preserved, bufferFile, dirs>>
          /\ main.at = "popped" /\ slot[s].step = "free" /\ main' = [main EXCEPT !.at = "started"]
      BY <1>5 DEF StartSlot, head, disk
    <2>2. main'.at = "started"
      BY <2>1 DEF Types, MainRow
    <2>3. /\ slot'[s].step = "starting" /\ slot'[s].unit = main.unit
          /\ \A t \in Slots \ {s} : slot'[t] = slot[t]
      BY <1>5 DEF StartSlot, Types, SlotTyped
    <2>4. main.unit \in starting
      BY <2>1 DEF Boot, HandedOver
    <2>5. \A t \in Slots : On(t, u)' <=> On(t, u) \/ (t = s /\ u = main.unit)
      BY <2>1, <2>3 DEF On
    <2>6. InSlot(u)' <=> InSlot(u) \/ u = main.unit
      BY <2>5 DEF InSlot
    <2>7. (InQueue(u)' <=> InQueue(u)) /\ (Popped(u) <=> u = main.unit) /\ ~Popped(u)'
      BY <2>1, <2>2 DEF InQueue, Popped
    <2>8. NoRestart(u)'
      <3>1. EndedIn(u, "again")' => EndedIn(u, "again")
        BY <2>3 DEF EndedIn
      <3> QED BY <3>1, <2>1 DEF NoRestart, OnChannel
    <2>9. Once(u)'
      <3>1. u = main.unit => \A t \in Slots : ~On(t, u)
        BY <2>7 DEF Once, InSlot
      <3>2. \A r, t \in Slots : On(r, u)' /\ On(t, u)' => r = t
        BY <3>1, <2>5 DEF Once
      <3> QED BY <3>2, <2>1, <2>2, <2>4, <2>6, <2>7 DEF Once
    <2>10. Seen(u)' /\ Gone(u)' /\ Owned(u)'
      BY <2>1, <2>2, <2>4, <2>6, <2>7 DEF Seen, Gone, Owned, Early
    <2> QED BY <2>8, <2>9, <2>10
  <1>6. CASE ReturnBuffer
    <2>1. /\ UNCHANGED <<missing, starting, slot, results, fetch, preserved, bufferFile>>
          /\ main.at = "drain" /\ main'.at = "exit" /\ queue' = {} /\ dirs' = dirs \ Queued(queue)
      BY <1>6 DEF ReturnBuffer, OthersIdle, At
    <2>2. (InSlot(u)' <=> InSlot(u)) /\ ~InQueue(u)' /\ ~Popped(u)' /\ ~Popped(u) /\ <<u, TRUE>> \notin queue'
      BY <2>1 DEF InSlot, On, Popped, InQueue
    <2>3. u \in dirs' => u \in dirs /\ ~InQueue(u)
      BY <2>1, HeldIs
    <2>4. NoRestart(u)'
      BY <2>1, <2>2 DEF NoRestart, EndedIn, OnChannel
    <2>5. Once(u)'
      BY <2>1, <2>2 DEF Once, On
    <2>6. Seen(u)' /\ Gone(u)' /\ Owned(u)'
      BY <2>1, <2>2, <2>3 DEF Seen, Gone, Owned, Early
    <2> QED BY <2>4, <2>5, <2>6
  <1>7. CASE Exit
    BY <1>7, DownPlace DEF Exit
  <1>8. CASE Launch
    <2>1. /\ UNCHANGED <<missing, queue, starting, slot, results, fetch, preserved, bufferFile, dirs>>
          /\ main.at = "down" /\ main'.at = "resumeTasks"
      BY <1>8 DEF Launch, OthersIdle, At, disk
    <2>2. (InSlot(u)' <=> InSlot(u)) /\ (InQueue(u)' <=> InQueue(u)) /\ ~Popped(u)'
      BY <2>1 DEF InSlot, On, Popped, InQueue
    <2>3. NoRestart(u)'
      BY <2>1 DEF NoRestart, EndedIn, OnChannel
    <2>4. Once(u)'
      BY <2>1, <2>2 DEF Once, On
    <2>5. Seen(u)' /\ Gone(u)' /\ Owned(u)'
      BY <2>1, <2>2 DEF Seen, Gone, Owned, Early
    <2> QED BY <2>3, <2>4, <2>5
  <1>9. ASSUME NEW gone \in SUBSET Units, NEW rs \in SUBSET Units, ResumeTasks(gone, rs) PROVE Place(u)'
    <2>1. /\ UNCHANGED <<missing, queue, starting, results, fetch, preserved, bufferFile>>
          /\ main.at = "resumeTasks" /\ main'.at = "resumeBuffer" /\ twins' = twins \cup (rs \cap bufferFile)
          /\ rs \subseteq dirs' /\ dirs' \subseteq dirs
      BY <1>9 DEF ResumeTasks, head, At, Fills
    <2>2. PICK f \in [rs -> Slots] :
            /\ \A v, w \in rs : f[v] = f[w] => v = w
            /\ slot' = [s \in Slots |->
                 IF \E v \in rs : f[v] = s
                   THEN [step |-> "starting", unit |-> CHOOSE v \in rs : f[v] = s, restart |-> FALSE]
                   ELSE Free]
      BY <1>9 DEF ResumeTasks
    <2>3. ASSUME NEW s \in Slots
          PROVE  slot'[s].step # "again" /\ (On(s, u)' => u \in rs /\ f[u] = s)
      <3>1. CASE \E v \in rs : f[v] = s
        <4> DEFINE c == CHOOSE v \in rs : f[v] = s
        <4>1. c \in rs /\ f[c] = s
          BY <3>1
        <4>2. slot'[s] = [step |-> "starting", unit |-> c, restart |-> FALSE]
          BY <2>2, <3>1
        <4> HIDE DEF c
        <4> QED BY <4>1, <4>2 DEF On
      <3>2. CASE ~ \E v \in rs : f[v] = s
        BY <2>2, <3>2 DEF On, Free
      <3> QED BY <3>1, <3>2
    <2>4. queue = {} /\ starting = {} /\ fetch.at = "off"
      BY <2>1 DEF Boot, NothingYet, Early
    <2>5. ~InQueue(u)' /\ ~Popped(u)' /\ <<u, TRUE>> \notin queue'
      BY <2>1, <2>4 DEF InQueue, Popped
    <2>6. InSlot(u)' => u \in rs
      BY <2>3 DEF InSlot
    <2>7. NoRestart(u)'
      <3>1. ~EndedIn(u, "again")'
        BY <2>3 DEF EndedIn
      <3> QED BY <3>1, <2>1, <2>5 DEF NoRestart, OnChannel
    <2>8. Once(u)'
      <3>1. \A s, t \in Slots : On(s, u)' /\ On(t, u)' => s = t
        BY <2>3
      <3>2. ~(InSlot(u)' /\ u \in bufferFile')
        BY <2>1, <2>6
      <3> QED BY <3>1, <3>2, <2>5 DEF Once
    <2>9. Seen(u)' /\ Owned(u)'
      BY <2>1, <2>4 DEF Seen, Owned, Early
    <2>10. Gone(u)'
      BY <2>1, <2>4, <2>5, <2>6 DEF Gone
    <2> QED BY <2>7, <2>8, <2>9, <2>10
  <1>10. ASSUME NEW gone \in SUBSET Units, NEW rs \in SUBSET Units, ResumeBuffer(gone, rs) PROVE Place(u)'
    <2>1. /\ UNCHANGED <<missing, starting, slot, results, preserved>>
          /\ main.at = "resumeBuffer" /\ main'.at = "top" /\ queue' = {<<v, FALSE>> : v \in rs}
          /\ dirs' = dirs \cap (rs \cup ActiveIn(slot)) /\ rs \subseteq bufferFile /\ rs \subseteq dirs
          /\ fetch'.at = "idle" /\ fetch'.batch = {}
      BY <1>10 DEF ResumeBuffer, head, At, AtFetch, Fills
    <2>2. starting = {}
      BY <2>1 DEF Boot, NothingYet, Early
    <2>3. (InQueue(u)' <=> u \in rs) /\ <<u, TRUE>> \notin queue'
      <3>1. <<u, TRUE>> \notin queue'
        BY <2>1
      <3>2. <<u, FALSE>> \in queue' <=> u \in rs
        BY <2>1
      <3> QED BY <3>1, <3>2 DEF InQueue
    <2>4. (InSlot(u)' <=> InSlot(u)) /\ ~Popped(u)'
      BY <2>1 DEF InSlot, On, Popped
    <2>5. u \in dirs' => u \in rs \/ InSlot(u)
      BY <2>1, HeldIs
    <2>6. NoRestart(u)'
      BY <2>1, <2>3 DEF NoRestart, EndedIn, OnChannel
    <2>7. Once(u)'
      BY <2>1, <2>2, <2>3, <2>4 DEF Once, On
    <2>8. Seen(u)' /\ Owned(u)'
      BY <2>1, <2>3, <2>4, <2>5 DEF Seen, Owned
    <2>9. Gone(u)'
      BY <2>1, <2>2, <2>3, <2>4 DEF Gone
    <2> QED BY <2>6, <2>7, <2>8, <2>9
  <1> QED BY <1>1, <1>2, <1>3, <1>4, <1>5, <1>6, <1>7, <1>8, <1>9, <1>10 DEF Coordinator

\* Every step keeps the units in their places.
LEMMA PlacesStep == ASSUME Types, Boot, Places, [Next]_vars PROVE Places'
  <1>1. twins \subseteq twins' /\ rerun \subseteq rerun'
    <2>1. CASE Slot
      BY <2>1 DEF Slot, StartWork, CancelRun, RestartTask, SendResult, EndRun, EndSlot, history
    <2>2. CASE Fetcher
      BY <2>2 DEF Fetcher, ReadBuffer, ReadSlots, FetchStops, BatchBegins, BatchDone, RequestWorkUnit,
                  RequestLost, SkipDuplicate, BufferUnit, ReturnUnit, history
    <2>3. CASE Coordinator
      BY <2>3 DEF Coordinator, TakeResult, Submit, SubmitAnswered, AbandonFailed, SaveActive, FillSlots,
                  PopFit, ReturnPopped, StartSlot, SlotStarted, FillDone, SaveBuffer, Pause, Resume,
                  BeginShutdown, StopAll, ReturnBuffer, Exit, Launch, ResumeTasks, ResumeBuffer, history
    <2>4. CASE Retry
      BY <2>4 DEF Retry, Resubmit, Resubmitted, RetryPending, history
    <2>5. CASE Environment
      BY <2>5 DEF Environment, Stop, SuspendAndQuit, Crash, SweepBuffer, ReleaseStale, ExpireCopy,
                  Finalize, history
    <2> QED BY <2>1, <2>2, <2>3, <2>4, <2>5 DEF Next, vars, history
  <1>2. ASSUME NEW u \in Units, u \notin twins' \cup rerun' PROVE Place(u)'
    <2>1. Place(u)
      BY <1>1, <1>2 DEF Places
    <2>2. CASE UNCHANGED vars
      <3>1. UNCHANGED <<queue, starting, slot, results, dirs, preserved, fetch, main, bufferFile, missing>>
        BY <2>2 DEF vars
      <3> QED BY <2>1, <3>1, PlaceFrame
    <2> QED BY <1>2, <2>1, <2>2, SlotPlace, FetcherPlace, CoordinatorPlace, RetryPlace,
                         EnvironmentPlace DEF Next
  <1> QED BY <1>2 DEF Places
-----------------------------------------------------------------------------

\* The type invariant of the daemon, its files and the head's copies holds: every
\* step of the slots, the fetcher, the coordinator loop, the retry and the
\* process itself keeps its variables in their sets.
THEOREM TypeCorrect == Spec => []TypeOK
  BY TypesInit, TypesStep, TypesImply, PTL DEF Spec

\* Once a run has finished (runSlot), its result is in a slot, on the results
\* channel, with the coordinator or on disk until the head has answered for it,
\* whatever is lost, stopped or crashes, except for the one race of
\* retryPendingResults with a second run of the same unit.
THEOREM FinishedSurvivesHolds == Spec => []FinishedSurvives
  <1> DEFINE I == Types /\ Boot /\ \A u \in Units : Kept(u)
  <1>1. Init => I
    BY TypesInit, BootInit DEF Init, Kept, Answered, Outstanding, At
  <1>2. I /\ [Next]_vars => I'
    <2> SUFFICES ASSUME I, [Next]_vars PROVE I'
      OBVIOUS
    <2>1. Types' /\ Boot'
      BY TypesStep, BootStep
    <2>2. \A u \in Units : Kept(u)'
      BY KeptStep
    <2> QED BY <2>1, <2>2
  <1>3. I => FinishedSurvives
    BY KeptImplies
  <1> QED BY <1>1, <1>2, <1>3, PTL DEF Spec

\* bufferBatch and fillSlots never put one unit in two places: it is in one slot,
\* or waits once in the buffer, whatever the interleaving of the fetcher, the
\* coordinator and the slots, unless a restart sent it through the results
\* channel or the files of a launch both named it.
THEOREM HeldOnceHolds == Spec => []HeldOnce
  <1>1. Init => Types /\ Boot /\ Places
    BY TypesInit, BootInit, PlaceInit DEF Places
  <1>2. Types /\ Boot /\ Places /\ [Next]_vars => (Types /\ Boot /\ Places)'
    BY TypesStep, BootStep, PlacesStep
  <1>3. Types /\ Places => HeldOnce
    BY PlacesImply
  <1> QED BY <1>1, <1>2, <1>3, PTL DEF Spec

\* heldWorkUnits reads the buffer and then the slots while units move between
\* them, and reconcileHeldCopies acts on the report later: the head still never
\* takes away the copy of a unit the daemon holds, but for the two ways out of
\* HeldOnce.
THEOREM HeldNotReapedHolds == Spec => HeldNotReaped
  <1> DEFINE Step == \A u \in Units : ReleaseStale(u) => u \notin heldWorkUnits \/ u \in twins \cup rerun
  <1>1. Init => Types /\ Boot /\ Places
    BY TypesInit, BootInit, PlaceInit DEF Places
  <1>2. Types /\ Boot /\ Places /\ [Next]_vars => (Types /\ Boot /\ Places)'
    BY TypesStep, BootStep, PlacesStep
  <1>3. Types /\ Places => Step
    <2> SUFFICES ASSUME Types, Places, NEW u \in Units, ReleaseStale(u), u \notin twins \cup rerun
                 PROVE  u \notin heldWorkUnits
      OBVIOUS
    <2>1. u \in missing /\ Gone(u)
      BY DEF ReleaseStale, Places, Place
    <2> QED BY <2>1, HeldIs DEF Gone
  <1>4. Types /\ Places => [Step]_vars
    BY <1>3
  <1> HIDE DEF Step
  <1>5. Spec => [][Step]_vars
    BY <1>1, <1>2, <1>4, PTL DEF Spec
  <1> QED BY <1>5 DEF HeldNotReaped, Step
=============================================================================
