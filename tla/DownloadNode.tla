---------------------------- MODULE DownloadNode ----------------------------
(***************************************************************************)
(* The downloads of web/src/file-system-node.ts: files streamed from the   *)
(* chosen folder to the phone under an acknowledged window, a send budget  *)
(* shared by all streams and all responses, native reads that cannot be    *)
(* cancelled, idle timers, and disposal up to quiescence.                  *)
(*                                                                         *)
(* An action runs from one await to the next.  Sizes are in units.  A      *)
(* transfer is a file the phone may ask for; it is begun at most once and  *)
(* its identifier, drawn by the node, is known to the phone only from the  *)
(* answer.  Short notices (errors of a download) take no room.             *)
(***************************************************************************)
EXTENDS Integers, Sequences, FiniteSets, Sums

CONSTANTS
    Transfer,
    LockFile,       \* the transfers for which isWriteLockPath holds
    Size,           \* the size of each file
    Requests,       \* bound: what the phone may ask, each once: <<operation, transfer>>
    Rude,           \* the phone acknowledges bytes it did not get
    MaxData,        \* maximumActiveDataDownloads
    MaxControl,     \* maximumActiveControlDownloads
    WindowTotal,    \* maximumUnacknowledgedDownloadBytes
    WindowData,     \* maximumDataUnacknowledgedDownloadBytes
    WindowControl,  \* maximumControlUnacknowledgedDownloadBytes
    BufferTotal,    \* maximumBufferedDownloadBytes
    BufferData,     \* maximumDataBufferedDownloadBytes
    Header,         \* downloadFrameHeaderBytes
    Chunk,          \* the negotiated downloadChunkBytes
    MinFrame,       \* minimumDownloadFramePayloadBytes
    Answer          \* the bytes of a response

ASSUME DownloadAssumption ==
    /\ IsFiniteSet(Transfer) /\ LockFile \subseteq Transfer /\ Size \in [Transfer -> Nat]
    /\ Requests \subseteq {"begin", "start", "finish", "abort"} \X Transfer
    /\ Rude \in BOOLEAN /\ MaxData \in Nat \ {0} /\ MaxControl \in Nat \ {0}
    /\ WindowData \in Nat /\ WindowControl \in Nat /\ WindowTotal = WindowData + WindowControl
    /\ Header \in Nat /\ MinFrame \in Nat \ {0} /\ Chunk \in Nat /\ Chunk >= MinFrame
    /\ BufferData \in Nat /\ BufferData >= Header + Chunk
    /\ Answer \in Nat \ {0} /\ BufferTotal \in Nat /\ BufferTotal >= BufferData + Answer

VARIABLES
    down,      \* per transfer: its DownloadState and whether it is in the map
    stream,    \* per transfer: where streamDownload is, and the bytes it has reserved
    read,      \* per transfer: its native read
    ctl,       \* queue and lockQueue: the control requests, oldest first
    chan,      \* the data channel: open, bufferedAmount
    stage,     \* disposed, and how far quiescence is
    phone      \* the requests it sent and the transfers it was told of

vars == <<down, stream, read, ctl, chan, stage, phone>>

Queue == {"queue", "lockQueue"}

Control(t) == t \in LockFile

DownloadType ==
    [present : BOOLEAN, started : BOOLEAN, sent : Nat, acked : Nat,
     queuedControls : Nat, idle : BOOLEAN]               \* idleTimer is armed

Absent ==
    [present |-> FALSE, started |-> FALSE, sent |-> 0, acked |-> 0,
     queuedControls |-> 0, idle |-> FALSE]

(* capacity: in waitForDownloadSendCapacity; plan: back from it; parked:   *)
(* in the set of waiters; reading: at the race of the read; room: in       *)
(* waitForReservedDownloadSendCapacity.                                    *)
StreamStep == {"none", "capacity", "plan", "parked", "reading", "room", "ended"}

Disposed == stage # "live"

-----------------------------------------------------------------------------
(* Views.                                                                  *)

MinOf(S) == CHOOSE x \in S : \A y \in S : x <= y

Less(n) == IF n > 0 THEN n - 1 ELSE 0

ActiveOf(control) == {t \in Transfer : down[t].present /\ Control(t) = control}

Limit(control) == IF control THEN MaxControl ELSE MaxData

Unacknowledged == [t \in Transfer |-> IF down[t].present THEN down[t].sent - down[t].acked ELSE 0]

Of(control) == {t \in Transfer : Control(t) = control}

ClassWindow(control) == IF control THEN WindowControl ELSE WindowData

AvailableWindowSlip(t) == WindowTotal - Total(Unacknowledged, Transfer)

(* availableDownloadWindowBytes *)
AvailableWindow(t) ==
    MinOf({WindowTotal - Total(Unacknowledged, Transfer),
           ClassWindow(Control(t)) - Total(Unacknowledged, Of(Control(t)))})

(* nextDownloadPayloadLength; 0 stands for null and for a window that is   *)
(* used up.                                                                *)
NextLength(t) ==
    LET left == Size[t] - down[t].sent
        length == MinOf({left, AvailableWindow(t), Chunk})
    IN  IF length <= 0 \/ (length < MinFrame /\ length < left) THEN 0 ELSE length

ReservedBytes == Total([t \in Transfer |-> stream[t].hold], Transfer)

BufferLimit(t) == IF Control(t) THEN BufferTotal ELSE BufferData

FitsSlip(t, n) == chan.buffered + n <= BufferLimit(t)

(* n more bytes of t, with all that is reserved. *)
Fits(t, n) == chan.buffered + ReservedBytes + n <= BufferLimit(t)

Orphaned == {t \in Transfer : read[t] = "orphan"}

(* Bytes of t handed to the channel. *)
OnChannel(t) ==
    down[t].sent - (IF stream[t].hold > 0 THEN stream[t].hold - Header ELSE 0)

-----------------------------------------------------------------------------
(* The helpers, on the states they change.                                 *)

WokenSlip(streams) == streams

(* wakeDownloadFlowWaiters; the loop then goes round. *)
Woken(streams) ==
    [t \in Transfer |-> IF streams[t].at = "parked" THEN [streams[t] EXCEPT !.at = "capacity"]
                        ELSE streams[t]]

Arm(d) == IF d.present /\ d.queuedControls = 0 THEN [d EXCEPT !.idle = TRUE] ELSE d

(* abortDownload and abortAllDownloads, for the downloads in T.            *)
AbortedDown(T) ==
    [t \in Transfer |-> IF t \in T THEN [down[t] EXCEPT !.present = FALSE, !.idle = FALSE]
                        ELSE down[t]]

Abandoned(T) ==
    [t \in Transfer |-> IF t \in T /\ down[t].present /\ read[t] = "live" THEN "orphan"
                        ELSE read[t]]

AbortAll(T) ==
    /\ down' = AbortedDown(T)
    /\ read' = Abandoned(T)
    /\ stream' = Woken(stream)

Abort(t) == IF down[t].present THEN AbortAll({t}) ELSE UNCHANGED <<down, read, stream>>

ReleasedSlip(t, step) == [stream EXCEPT ![t] = [at |-> step, hold |-> 0]]

(* The finally of streamDownload: t goes on at step.                       *)
Released(t, step) == Woken([stream EXCEPT ![t] = [at |-> step, hold |-> 0]])

-----------------------------------------------------------------------------
Init ==
    /\ down = [t \in Transfer |-> Absent]
    /\ stream = [t \in Transfer |-> [at |-> "none", hold |-> 0]]
    /\ read = [t \in Transfer |-> "none"]
    /\ ctl = [q \in Queue |-> << >>]
    /\ chan = [open |-> TRUE, buffered |-> 0]
    /\ stage = "live"
    /\ phone = [sent |-> {}, told |-> {}]

-----------------------------------------------------------------------------
(* onMessage.                                                              *)

Listening == chan.open /\ ~Disposed

Noted(d) == IF d.present THEN [d EXCEPT !.idle = FALSE, !.queuedControls = @ + 1] ELSE d

UsesLockQueue(op, t) == Control(t) /\ (op = "begin" \/ down[t].present)

ReceiveRequest(op, t) ==
    LET q == IF UsesLockQueue(op, t) THEN "lockQueue" ELSE "queue"
    IN  /\ Listening /\ <<op, t>> \notin phone.sent /\ (op # "begin" => t \in phone.told)
        /\ phone' = [phone EXCEPT !.sent = @ \cup {<<op, t>>}]
        /\ ctl' = [ctl EXCEPT ![q] = Append(@, [op |-> op, of |-> t, step |-> "queued"])]
        /\ down' = IF op = "begin" THEN down ELSE [down EXCEPT ![t] = Noted(@)]
        /\ UNCHANGED <<stream, read, chan, stage>>

Dispose(closing) ==
    /\ stage' = IF Disposed THEN stage ELSE "queue"
    /\ chan' = [chan EXCEPT !.open = @ /\ ~closing]

(* acceptDownloadAcknowledgement.  One that goes back or beyond what was   *)
(* sent, or comes before download_start, is a violation.                   *)
Acknowledge(t, size) ==
    LET d == down[t]
        wrong == ~d.started \/ size < d.acked \/ size > d.sent
    IN  /\ Listening /\ t \in phone.told /\ d.present
        /\ Rude \/ size \in d.acked + 1 .. OnChannel(t)
        /\ \/ wrong /\ Dispose(TRUE) /\ UNCHANGED <<down, stream>>
           \/ /\ ~wrong /\ size > d.acked
              /\ down' = [down EXCEPT ![t] = Arm([d EXCEPT !.acked = size])]
              /\ stream' = Woken(stream)
              /\ UNCHANGED <<chan, stage>>
        /\ UNCHANGED <<read, ctl, phone>>

-----------------------------------------------------------------------------
(* The control task at the head of queue q.                                *)

Head1(q) == ctl[q][1]

At(q, step) == ctl[q] # << >> /\ Head1(q).step = step

To(q, step) == ctl' = [ctl EXCEPT ![q][1].step = step]

Starting(q, op) == At(q, "queued") /\ Head1(q).op = op /\ ~Disposed

SkipTask(q) ==
    /\ At(q, "queued") /\ Disposed
    /\ ctl' = [ctl EXCEPT ![q] = Tail(@)]
    /\ UNCHANGED <<down, stream, read, chan, stage, phone>>

BeginDownload(q) ==
    /\ Starting(q, "begin")
    /\ To(q, IF Orphaned # {} THEN "fail" ELSE "file")
    /\ UNCHANGED <<down, stream, read, chan, stage, phone>>

(* The file is there, the slots are counted, and the download is inserted  *)
(* and its timer armed; after dispose() everything is aborted instead.     *)
FileFound(q) ==
    LET t == Head1(q).of
        refused == Cardinality(ActiveOf(Control(t))) >= Limit(Control(t))
    IN  /\ At(q, "file")
        /\ \/ To(q, "fail") /\ UNCHANGED <<down, stream, read>>
           \/ /\ ~refused /\ ~Disposed
              /\ down' = [down EXCEPT ![t] = [Absent EXCEPT !.present = TRUE, !.idle = TRUE]]
              /\ To(q, "respond")
              /\ UNCHANGED <<stream, read>>
           \/ /\ ~refused /\ Disposed
              /\ AbortAll(Transfer)
              /\ ctl' = [ctl EXCEPT ![q] = Tail(@)]
        /\ UNCHANGED <<chan, stage, phone>>

StartRefusedSlip(t) == ~down[t].present \/ down[t].started

StartRefused(t) == Orphaned # {} \/ ~down[t].present \/ down[t].started

StartDownload(q) ==
    LET t == Head1(q).of
    IN  /\ Starting(q, "start")
        /\ To(q, IF StartRefused(t) THEN "fail" ELSE "respond")
        /\ down' = IF StartRefused(t) THEN down ELSE [down EXCEPT ![t].started = TRUE]
        /\ UNCHANGED <<stream, read, chan, stage, phone>>

FinishDownload(q) ==
    LET t == Head1(q).of
        d == down[t]
    IN  /\ Starting(q, "finish")
        /\ \/ /\ d.present /\ d.started /\ d.acked = Size[t]
              /\ AbortAll({t}) /\ To(q, "respond")
           \/ /\ ~(d.present /\ d.started /\ d.acked = Size[t])
              /\ To(q, "fail") /\ UNCHANGED <<down, stream, read>>
        /\ UNCHANGED <<chan, stage, phone>>

AbortRequest(q) ==
    /\ Starting(q, "abort")
    /\ Abort(Head1(q).of)
    /\ To(q, "respond")
    /\ UNCHANGED <<chan, stage, phone>>

CompletedSlip(d) == [d EXCEPT !.queuedControls = Less(@)]

(* completeQueuedDownloadControl *)
Completed(d) ==
    IF d.present THEN Arm([d EXCEPT !.queuedControls = Less(@)]) ELSE d

(* The finally of the task, on the downloads ds.                           *)
EndTask(q, ds) ==
    /\ down' = IF Head1(q).op = "begin" THEN ds ELSE [ds EXCEPT ![Head1(q).of] = Completed(@)]
    /\ ctl' = [ctl EXCEPT ![q] = Tail(@)]

HasRoom == chan.buffered + ReservedBytes + Answer <= BufferTotal

Buffered(n) == chan' = [chan EXCEPT !.buffered = @ + n]

(* sendResponse, and what follows an answer: a begun download gets its     *)
(* timer again, a started one its stream.  On a closed channel either is   *)
(* given up.                                                               *)
Respond(q) ==
    LET h == Head1(q)
        t == h.of
    IN  /\ At(q, "respond")
        /\ \/ /\ chan.open /\ HasRoom
              /\ Buffered(Answer)
              /\ EndTask(q, IF h.op = "begin" THEN [down EXCEPT ![t] = Arm(@)] ELSE down)
              /\ stream' = IF h.op = "start" /\ down[t].present
                             THEN [stream EXCEPT ![t].at = IF Size[t] > 0 THEN "capacity" ELSE "ended"]
                             ELSE stream
              /\ phone' = IF h.op = "begin" THEN [phone EXCEPT !.told = @ \cup {t}] ELSE phone
              /\ UNCHANGED read
           \/ /\ ~chan.open
              /\ \/ /\ h.op \in {"begin", "start"} /\ down[t].present
                    /\ EndTask(q, AbortedDown({t}))
                    /\ read' = Abandoned({t})
                    /\ stream' = Woken(stream)
                 \/ /\ ~(h.op \in {"begin", "start"} /\ down[t].present)
                    /\ EndTask(q, down) /\ UNCHANGED <<read, stream>>
              /\ UNCHANGED <<chan, phone>>
        /\ UNCHANGED stage

Fail(q) ==
    /\ At(q, "fail")
    /\ \/ (Disposed \/ ~chan.open) /\ UNCHANGED chan
       \/ ~Disposed /\ chan.open /\ HasRoom /\ Buffered(Answer)
    /\ EndTask(q, down)
    /\ UNCHANGED <<stream, read, stage, phone>>

-----------------------------------------------------------------------------
(* streamDownload.                                                         *)

StreamAt(t, step) == stream[t].at = step

StreamTo(t, step) == stream' = [stream EXCEPT ![t].at = step]

(* The catch of streamDownload. *)
GiveUp(t) ==
    /\ down' = AbortedDown({t})
    /\ read' = Abandoned({t})
    /\ stream' = Released(t, "ended")

FindCapacity(t) ==
    /\ StreamAt(t, "capacity")
    /\ \/ ~down[t].present /\ StreamTo(t, "ended") /\ UNCHANGED <<down, read>>
       \/ /\ down[t].present /\ chan.buffered <= BufferLimit(t) - Chunk - Header
          /\ StreamTo(t, "plan") /\ UNCHANGED <<down, read>>
       \/ /\ down[t].present /\ chan.buffered > BufferLimit(t) - Chunk - Header /\ ~chan.open
          /\ GiveUp(t)
    /\ UNCHANGED <<ctl, chan, stage, phone>>

Plan(t) ==
    LET length == NextLength(t)
        frame == Header + length
    IN  /\ StreamAt(t, "plan")
        /\ \/ ~down[t].present /\ StreamTo(t, "ended") /\ UNCHANGED <<down, read>>
           \/ /\ down[t].present
              /\ \/ length = 0
                 \/ chan.buffered + frame <= BufferLimit(t) /\ ~Fits(t, frame)
              /\ StreamTo(t, "parked") /\ UNCHANGED <<down, read>>
           \/ /\ down[t].present /\ length > 0 /\ chan.buffered + frame > BufferLimit(t)
              /\ StreamTo(t, "capacity") /\ UNCHANGED <<down, read>>
           \/ /\ down[t].present /\ length > 0 /\ Fits(t, frame)
              /\ down' = [down EXCEPT ![t].sent = @ + length]
              /\ stream' = [stream EXCEPT ![t] = [at |-> "reading", hold |-> frame]]
              /\ read' = [read EXCEPT ![t] = "live"]
        /\ UNCHANGED <<ctl, chan, stage, phone>>

(* The read settles with the bytes, or fails; or cancelRead comes first.   *)
ReadSettles(t) ==
    /\ StreamAt(t, "reading") /\ read[t] = "live"
    /\ \/ /\ StreamTo(t, "room")
          /\ read' = [read EXCEPT ![t] = "none"]
          /\ UNCHANGED down
       \/ /\ down' = AbortedDown({t})
          /\ read' = [read EXCEPT ![t] = "none"]
          /\ stream' = Released(t, "ended")
    /\ UNCHANGED <<ctl, chan, stage, phone>>

ReadCancelled(t) ==
    /\ StreamAt(t, "reading") /\ ~down[t].present
    /\ stream' = Released(t, "ended")
    /\ UNCHANGED <<down, read, ctl, chan, stage, phone>>

SendFrame(t) ==
    /\ StreamAt(t, "room")
    /\ \/ /\ ~down[t].present
          /\ stream' = Released(t, "ended")
          /\ UNCHANGED <<down, read, chan>>
       \/ down[t].present /\ ~chan.open /\ GiveUp(t) /\ UNCHANGED chan
       \/ /\ down[t].present /\ chan.open
          /\ Fits(t, 0)
          /\ Buffered(stream[t].hold)
          /\ down' = [down EXCEPT ![t] = Arm(@)]
          /\ stream' = Released(t, IF down[t].sent < Size[t] THEN "capacity" ELSE "ended")
          /\ UNCHANGED read
    /\ UNCHANGED <<ctl, stage, phone>>

OrphanSettles(t) ==
    /\ read[t] = "orphan"
    /\ read' = [read EXCEPT ![t] = "none"]
    /\ stream' = Woken(stream)
    /\ UNCHANGED <<down, ctl, chan, stage, phone>>

(* The idle timer of armDownloadIdleTimer. *)
Expire(t) ==
    /\ down[t].present /\ down[t].idle
    /\ AbortAll({t})
    /\ UNCHANGED <<ctl, chan, stage, phone>>

-----------------------------------------------------------------------------
(* The channel, dispose and waitForQuiescence.                             *)

Drain ==
    /\ chan.open /\ chan.buffered > 0
    /\ \E left \in 0 .. chan.buffered - 1 : chan' = [chan EXCEPT !.buffered = left]
    /\ UNCHANGED <<down, stream, read, ctl, stage, phone>>

ChannelCloses ==
    /\ chan.open
    /\ chan' = [chan EXCEPT !.open = FALSE]
    /\ UNCHANGED <<down, stream, read, ctl, stage, phone>>

PageDisposes ==
    /\ ~Disposed
    /\ \E closing \in BOOLEAN : Dispose(closing)
    /\ UNCHANGED <<down, stream, read, ctl, phone>>

TasksEnded == \A t \in Transfer : stream[t].at \in {"none", "ended"}

QuiesceQueues ==
    /\ \/ stage = "queue" /\ ctl["queue"] = << >> /\ stage' = "lockQueue"
          /\ UNCHANGED <<down, stream, read>>
       \/ stage = "lockQueue" /\ ctl["lockQueue"] = << >> /\ stage' = "tasks"
          /\ AbortAll(Transfer)
    /\ UNCHANGED <<ctl, chan, phone>>

QuiesceReadsSlip ==
    /\ \/ stage = "tasks" /\ TasksEnded /\ stage' = "reads"
       \/ stage = "reads" /\ stage' = "quiet"
    /\ UNCHANGED <<down, stream, read, ctl, chan, phone>>

QuiesceReads ==
    /\ \/ stage = "tasks" /\ TasksEnded /\ stage' = "reads"
       \/ stage = "reads" /\ Orphaned = {} /\ stage' = "quiet"
    /\ UNCHANGED <<down, stream, read, ctl, chan, phone>>

ControlStep(q) ==
    \/ SkipTask(q) \/ BeginDownload(q) \/ FileFound(q) \/ StartDownload(q)
    \/ FinishDownload(q) \/ AbortRequest(q) \/ Respond(q) \/ Fail(q)

StreamTask(t) ==
    \/ FindCapacity(t) \/ Plan(t) \/ ReadSettles(t) \/ ReadCancelled(t) \/ SendFrame(t)

Receive ==
    \/ \E r \in Requests : ReceiveRequest(r[1], r[2])
    \/ \E t \in Transfer : \E size \in 0 .. Size[t] : Acknowledge(t, size)

Next ==
    \/ Receive
    \/ \E q \in Queue : ControlStep(q)
    \/ \E t \in Transfer : StreamTask(t) \/ OrphanSettles(t) \/ Expire(t)
    \/ Drain \/ ChannelCloses \/ PageDisposes \/ QuiesceQueues \/ QuiesceReads

Spec == Init /\ [][Next]_vars

(* Native reads settle, promises and timers run, and an open channel       *)
(* drains.  Nothing is assumed of the phone or of the page.                *)
FairSpec ==
    /\ Spec
    /\ \A q \in Queue : WF_vars(ControlStep(q))
    /\ \A t \in Transfer :
          WF_vars(StreamTask(t)) /\ WF_vars(OrphanSettles(t)) /\ WF_vars(Expire(t))
    /\ WF_vars(Drain) /\ WF_vars(QuiesceQueues \/ QuiesceReads)

-----------------------------------------------------------------------------
TypeOK ==
    /\ down \in [Transfer -> DownloadType]
    /\ stream \in [Transfer -> [at : StreamStep, hold : Nat]]
    /\ read \in [Transfer -> {"none", "live", "orphan"}]
    /\ ctl \in [Queue -> Seq([op : {"begin", "start", "finish", "abort"}, of : Transfer,
                              step : {"queued", "file", "respond", "fail"}])]
    /\ chan \in [open : BOOLEAN, buffered : Nat]
    /\ stage \in {"live", "queue", "lockQueue", "tasks", "reads", "quiet"}
    /\ phone \in [sent : SUBSET Requests, told : SUBSET Transfer]

(* protocol/README.md: a shared unacknowledged window, "with data          *)
(* transfers capped at 3.5 MiB so canonical lock traffic always retains    *)
(* 512 KiB", whatever streams plan, abort and acknowledge in between.      *)
WindowsKept ==
    /\ \A t \in Transfer : down[t].acked <= down[t].sent /\ down[t].sent <= Size[t]
    /\ \A control \in BOOLEAN :
          Total(Unacknowledged, Of(control)) <= ClassWindow(control)

(* "The native data reservation is limited to one maximum frame", and all  *)
(* reservations together fit the native queue, so that each of them can be *)
(* sent once the channel has drained; a stream holds bytes only while it   *)
(* reads or waits for room.                                                *)
SendBudgetKept ==
    /\ \A t \in Transfer : stream[t].hold > 0 <=> stream[t].at \in {"reading", "room"}
    /\ Total([t \in Transfer |-> stream[t].hold], Of(FALSE)) <= BufferData
    /\ ReservedBytes <= BufferTotal

(* No wake-up is lost: a stream in the set of waiters is there because the *)
(* window has no room for its next frame, which an acknowledgement or an   *)
(* expiry will change, or because others hold bytes, which they release;   *)
(* each of these wakes it.                                                 *)
ParkedForAReason ==
    \A t \in Transfer : StreamAt(t, "parked") /\ down[t].present =>
        NextLength(t) = 0 \/ ReservedBytes > 0

(* Native reads cannot be cancelled, and aborted downloads leave theirs    *)
(* behind; still no class has more of them under way than it may have      *)
(* downloads, although begin looks for them before an await.               *)
NativeReadsBounded ==
    \A control \in BOOLEAN :
        Cardinality({t \in Of(control) : read[t] # "none"}) <= Limit(control)

(* When waitForQuiescence resolves nothing of this node reads the folder   *)
(* or will: no task, no stream, no download, no abandoned read, no timer.  *)
QuietMeansQuiet ==
    stage = "quiet" =>
        /\ \A q \in Queue : ctl[q] = << >>
        /\ TasksEnded
        /\ \A t \in Transfer : ~down[t].present /\ ~down[t].idle /\ read[t] = "none"

(* Every request the node took is answered or dropped, although answers    *)
(* wait for the same budget as the streams and the streams for a phone     *)
(* that may be silent; and every download ends.                            *)
WorkEnds ==
    /\ \A q \in Queue : (ctl[q] # << >>) ~> (ctl[q] = << >>)
    /\ \A t \in Transfer : down[t].present ~> ~down[t].present

(* Disposal always gets to the point where the page may release its lock.  *)
QuiescenceReached == Disposed ~> (stage = "quiet")
=============================================================================
