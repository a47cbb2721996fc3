----------------------------- MODULE UploadNode -----------------------------
(***************************************************************************)
(* The uploads of web/src/file-system-node.ts: a phone that streams files  *)
(* into the chosen folder over the data channel, the two control queues    *)
(* and the frame queue of every transfer, the slots and path reservations, *)
(* the idle timers, the cleanup of abandoned streams, and disposal up to   *)
(* quiescence.                                                             *)
(*                                                                         *)
(* The page's script is single-threaded: an action is what runs between    *)
(* two awaits, and the tasks of different queues, the timers, the events   *)
(* of the channel and the calls of the file system interleave freely.      *)
(*                                                                         *)
(* A transfer has a fixed path and size and identifies its upload: the     *)
(* phone draws a fresh UUID for each.  Sizes are in units of a frame.  A   *)
(* remove stands for delete and for the removal that ends a move; one that *)
(* finds nothing takes the way every other request takes.                  *)
(***************************************************************************)
EXTENDS Integers, Sequences, FiniteSets

CONSTANTS
    Transfer, Path,
    PathOf,         \* the destination of each transfer
    Size,           \* its declared size
    Replace,        \* the transfers begun with mode "replace"
    Related,        \* pairs of paths that are equal or nested
    LockSpace,      \* paths for which mutatesLockNamespace holds
    WriteLock,      \* paths for which isWriteLockPath holds
    Existing,       \* files that are there from the start
    Requests,       \* bound: what the phone may ask, each once: <<operation, subject>>
    MaxData,        \* maximumActiveDataUploads
    MaxControl,     \* maximumActiveControlUploads
    MinFrame,       \* minimumDownloadFramePayloadBytes
    MaxFrame,       \* the negotiated maximum payload
    Batch,          \* uploadWriteBatchBytes
    MaxFrames,      \* bound: frames sent for a transfer
    MaxGap,         \* bound: how far from its place a frame may be
    Polite          \* the transfers for which the phone keeps to the protocol

ASSUME UploadAssumption ==
    /\ IsFiniteSet(Transfer) /\ Transfer \cap {"missing", "empty", "old"} = {}
    /\ PathOf \in [Transfer -> Path] /\ Size \in [Transfer -> Nat]
    /\ Replace \subseteq Transfer
    /\ Related \subseteq Path \X Path /\ \A p \in Path : <<p, p>> \in Related
    /\ WriteLock \subseteq LockSpace /\ LockSpace \subseteq Path
    /\ Existing \subseteq Path
    /\ Requests \subseteq ({"begin", "finish", "abort"} \X Transfer) \cup ({"remove"} \X Path)
    /\ MaxData \in Nat \ {0} /\ MaxControl \in Nat \ {0}
    /\ MinFrame \in Nat \ {0} /\ MaxFrame \in Nat /\ MaxFrame >= MinFrame
    /\ Batch \in Nat /\ Batch >= MaxFrame
    /\ MaxFrames \in Nat /\ MaxGap \in Nat /\ Polite \subseteq Transfer

VARIABLES
    up,        \* per transfer: its UploadState, its stream and its cleanup
    ctl,       \* queue and lockQueue: the control requests, oldest first
    frames,    \* uploadQueues: the frames of each transfer, oldest first
    done,      \* per transfer: how many frame tasks have ended
    file,      \* the folder
    node,      \* disposed, how far quiescence is, whether the channel is open
    phone      \* what the phone sent and was told (see Init)

vars == <<up, ctl, frames, done, file, node, phone>>

Queue == {"queue", "lockQueue"}

Control(t) == PathOf[t] \in WriteLock

Overlaps(p, q) == <<p, q>> \in Related

(* What a path holds: nothing, a file fresh from getFileHandle, a file from *)
(* before, or what a transfer committed.                                   *)
Content == {"missing", "empty", "old"} \cup Transfer

UploadType ==
    [present       : BOOLEAN,                             \* in the map
     stream        : {"none", "open", "closing", "closed", "aborted"},
     received      : Nat,
     pending       : Nat,
     writing       : Nat,                                 \* passed to write()
     written       : Nat,
     queuedFrames  : Nat,
     queuedTerminalControls : Nat,
     activeOperations : Nat,
     idle          : BOOLEAN,                             \* idleTimer is armed
     removeOnAbort : BOOLEAN,
     cleanup       : {"none", "aborting", "removing", "done"}]

Absent ==
    [present |-> FALSE, stream |-> "none", received |-> 0, pending |-> 0, writing |-> 0,
     written |-> 0, queuedFrames |-> 0, queuedTerminalControls |-> 0,
     activeOperations |-> 0, idle |-> FALSE, removeOnAbort |-> FALSE, cleanup |-> "none"]

(* Where a control task is.  reserved: it holds a slot of its class.       *)
Step == {"queued", "barrier", "lookup", "create", "writable", "undo", "closing",
         "cleanup", "find", "remove", "respond", "sweep", "fail"}

Reserving == {"lookup", "create", "writable", "undo"}

FrameStep == {"queued", "early", "last", "cleanup"}

-----------------------------------------------------------------------------
(* Views.                                                                  *)

Head1(q) == ctl[q][1]

Tasks == {ctl[q][1] : q \in {r \in Queue : ctl[r] # << >>}}

Open(t) == up[t].present /\ up[t].cleanup = "none"

ConflictSlip(p) == \E t \in Transfer : Open(t) /\ Overlaps(p, PathOf[t])

Conflict(p) == \E t \in Transfer : up[t].present /\ Overlaps(p, PathOf[t])

ActiveOf(control) == {t \in Transfer : up[t].present /\ Control(t) = control}

ReservationsSlip(control) == {}

Reservations(control) ==
    {q \in Queue : ctl[q] # << >> /\ Head1(q).step \in Reserving /\ Control(Head1(q).of) = control}

Limit(control) == IF control THEN MaxControl ELSE MaxData

QuietSlip(u) == u.activeOperations = 0

Quiet(u) == u.queuedFrames = 0 /\ u.queuedTerminalControls = 0 /\ u.activeOperations = 0

Less(n) == IF n > 0 THEN n - 1 ELSE 0

-----------------------------------------------------------------------------
(* The helpers, as operators on the state u of one upload.                 *)

NoteFrame(u) == [u EXCEPT !.idle = FALSE, !.queuedFrames = @ + 1]

NoteTerminal(u) == [u EXCEPT !.idle = FALSE, !.queuedTerminalControls = @ + 1]

Noted(t, u) == IF Open(t) THEN [up EXCEPT ![t] = u] ELSE up

Rearmed(u) == IF Quiet(u) THEN [u EXCEPT !.idle = TRUE] ELSE u

CompleteTerminal(u) ==
    Rearmed([u EXCEPT !.queuedTerminalControls = Less(@)])

CompleteFrame(u) == [u EXCEPT !.queuedFrames = Less(@)]

BeginOperation(u) == [u EXCEPT !.idle = FALSE, !.activeOperations = @ + 1]

EndOperationSlip(u) == [u EXCEPT !.activeOperations = Less(@)]

EndOperation(u) ==
    LET ended == [u EXCEPT !.activeOperations = Less(@)]
    IN  IF u.present THEN Rearmed(ended) ELSE ended

FlushedSlip(u) == [u EXCEPT !.writing = @ + u.pending]

(* flushUploadBuffer passes everything pending to one write().             *)
Flushed(u) == [u EXCEPT !.writing = @ + u.pending, !.pending = 0]

Landed(u) == [u EXCEPT !.written = @ + u.writing, !.writing = 0]

(* A rejected write leaves the stream errored. *)
Lost(u) == [u EXCEPT !.writing = 0, !.stream = "aborted"]

(* abortUpload up to its first await, for the uploads in T.                *)
Aborting(ups, T) ==
    [t \in Transfer |->
        IF t \in T /\ ups[t].present /\ ups[t].cleanup = "none"
          THEN [ups[t] EXCEPT !.cleanup = "aborting", !.idle = FALSE]
          ELSE ups[t]]

Removed(u) == [u EXCEPT !.cleanup = "done", !.present = FALSE]

CleanedUp(t) == up[t].cleanup \in {"none", "done"}

-----------------------------------------------------------------------------
Init ==
    /\ up = [t \in Transfer |-> Absent]
    /\ ctl = [q \in Queue |-> << >>]
    /\ frames = [t \in Transfer |-> << >>]
    /\ done = [t \in Transfer |-> 0]
    /\ file = [p \in Path |-> IF p \in Existing THEN "old" ELSE "missing"]
    /\ node = [stage |-> "live", open |-> TRUE]
    /\ phone = [sent     |-> {},                        \* requests
                next     |-> [t \in Transfer |-> 0],    \* units sent, without gaps
                frames   |-> [t \in Transfer |-> 0],    \* frames sent
                begun    |-> {},                        \* told that upload_begin worked
                finished |-> {},                        \* told that upload_finish worked
                misfit   |-> {}]                        \* finish found another size, on a live node

Disposed == node.stage # "live"

Dispose(closing) == node' = [stage |-> IF Disposed THEN node.stage ELSE "queue",
                             open  |-> node.open /\ ~closing]

-----------------------------------------------------------------------------
(* onMessage.                                                              *)

Listening == node.open /\ ~Disposed

Told(op, x) == <<op, x>> \in phone.sent

(* A polite phone waits for the answer to upload_begin, sends the bytes in *)
(* order, and says finish after the last one; it may change its mind.      *)
MaySend(op, x) ==
    /\ ~Told(op, x)
    /\ x \in Polite /\ op \in {"finish", "abort"} => x \in phone.begun /\ ~Told("abort", x)
    /\ x \in Polite /\ op = "finish" => phone.next[x] = Size[x]

UsesLockQueue(op, x) ==
    \/ op = "begin" /\ PathOf[x] \in LockSpace
    \/ op = "remove" /\ x \in LockSpace
    \/ op \in {"finish", "abort"} /\ up[x].present /\ PathOf[x] \in LockSpace

Request(op, x) ==
    [op |-> op, of |-> x, step |-> "queued", fresh |-> FALSE,
     barrier |-> IF op \in {"finish", "abort"} THEN done[x] + Len(frames[x]) ELSE 0]

ReceiveRequest(op, x) ==
    LET q == IF UsesLockQueue(op, x) THEN "lockQueue" ELSE "queue"
    IN  /\ Listening /\ MaySend(op, x)
        /\ up' = IF op \in {"finish", "abort"} THEN Noted(x, NoteTerminal(up[x])) ELSE up
        /\ ctl' = [ctl EXCEPT ![q] = Append(@, Request(op, x))]
        /\ phone' = [phone EXCEPT !.sent = @ \cup {<<op, x>>}]
        /\ UNCHANGED <<frames, done, file, node>>

MaySendFrame(t, offset, length) ==
    /\ phone.frames[t] < MaxFrames
    /\ t \in Polite =>
          /\ t \in phone.begun /\ ~Told("finish", t) /\ ~Told("abort", t)
          /\ offset = phone.next[t] /\ length <= Size[t] - offset
          /\ length >= MinFrame \/ offset + length = Size[t]

(* A frame behind a queued finish or abort is a violation of the protocol. *)
ReceiveFrame(t, offset, length) ==
    /\ Listening /\ MaySendFrame(t, offset, length)
    /\ up' = Noted(t, NoteFrame(up[t]))
    /\ phone' = [phone EXCEPT !.frames[t] = @ + 1,
                              !.next[t] = IF offset = @ THEN offset + length ELSE @]
    /\ \/ /\ up[t].present /\ up[t].queuedTerminalControls > 0
          /\ Dispose(TRUE)
          /\ UNCHANGED frames
       \/ /\ ~(up[t].present /\ up[t].queuedTerminalControls > 0)
          /\ frames' = [frames EXCEPT ![t] =
                            Append(@, [offset |-> offset, length |-> length, step |-> "queued"])]
          /\ UNCHANGED node
    /\ UNCHANGED <<ctl, done, file>>

(* Anything else that is too large, malformed or one request too many.     *)
ReceiveViolation ==
    /\ Listening
    /\ Dispose(TRUE)
    /\ UNCHANGED <<up, ctl, frames, done, file, phone>>

-----------------------------------------------------------------------------
(* The file system, and cleanup.                                           *)

RemoveEntry(p) ==
    \/ file' = [file EXCEPT ![p] = "missing"]
    \/ UNCHANGED file

(* writable.abort() waits for a write or a close that is under way; after  *)
(* a close that worked there is nothing left to abort.                     *)
AbortSettles(t) ==
    /\ up[t].cleanup = "aborting" /\ up[t].writing = 0 /\ up[t].stream # "closing"
    /\ LET u == [up[t] EXCEPT !.stream = IF @ = "open" THEN "aborted" ELSE @]
       IN  up' = [up EXCEPT ![t] = IF u.removeOnAbort THEN [u EXCEPT !.cleanup = "removing"]
                                   ELSE Removed(u)]
    /\ UNCHANGED <<ctl, frames, done, file, node, phone>>

CleanupRemoves(t) ==
    /\ up[t].cleanup = "removing"
    /\ RemoveEntry(PathOf[t])
    /\ up' = [up EXCEPT ![t] = Removed(@)]
    /\ UNCHANGED <<ctl, frames, done, node, phone>>

(* expireUpload *)
Expire(t) ==
    /\ up[t].present /\ up[t].idle
    /\ up' = Aborting([up EXCEPT ![t].idle = FALSE], {t})
    /\ UNCHANGED <<ctl, frames, done, file, node, phone>>

-----------------------------------------------------------------------------
(* The control task at the head of queue q.                                *)

At(q, step) == ctl[q] # << >> /\ Head1(q).step = step

To(q, step) == ctl' = [ctl EXCEPT ![q][1].step = step]

BehindSlip(h) == h.barrier > 1 /\ done[h.of] < h.barrier - 1

BehindForeverSlip(h) == h.barrier > 0 /\ done[h.of] <= h.barrier

Behind(h) == h.barrier > 0 /\ done[h.of] < h.barrier

(* if (disposed) return; then the frames that came before finish or abort. *)
Ready(q, op) ==
    /\ ctl[q] # << >> /\ Head1(q).op = op
    /\ (At(q, "queued") /\ ~Disposed) \/ At(q, "barrier")
    /\ ~Behind(Head1(q))

SkipTask(q) ==
    /\ At(q, "queued") /\ Disposed
    /\ ctl' = [ctl EXCEPT ![q] = Tail(@)]
    /\ UNCHANGED <<up, frames, done, file, node, phone>>

AwaitFrames(q) ==
    /\ At(q, "queued") /\ ~Disposed /\ Behind(Head1(q))
    /\ To(q, "barrier")
    /\ UNCHANGED <<up, frames, done, file, node, phone>>

(* performOperation has returned; ups is the state of the uploads.  After  *)
(* dispose() the task aborts every upload instead of answering.            *)
Return(q, ups) ==
    IF Disposed THEN up' = Aborting(ups, Transfer) /\ To(q, "sweep")
    ELSE up' = ups /\ To(q, "respond")

(* upload_begin: the checks, a slot, and four awaits.                      *)
BeginUpload(q) ==
    LET t == Head1(q).of
        refused == \/ up[t].present
                   \/ Cardinality(ActiveOf(Control(t))) + Cardinality(Reservations(Control(t)))
                        >= Limit(Control(t))
                   \/ Conflict(PathOf[t])
    IN  /\ Ready(q, "begin")
        /\ To(q, IF refused THEN "fail" ELSE "lookup")
        /\ UNCHANGED <<up, frames, done, file, node, phone>>

LookUp(q) ==
    LET t == Head1(q).of
        found == file[PathOf[t]] # "missing"
    IN  /\ At(q, "lookup")
        /\ \/ found /\ t \notin Replace /\ To(q, "fail")
           \/ To(q, "fail")
           \/ /\ found => t \in Replace
              /\ ctl' = [ctl EXCEPT ![q][1].step = "create", ![q][1].fresh = ~found]
        /\ UNCHANGED <<up, frames, done, file, node, phone>>

CreateFile(q) ==
    LET p == PathOf[Head1(q).of]
    IN  /\ At(q, "create")
        /\ \/ To(q, "fail") /\ UNCHANGED file
           \/ /\ To(q, "writable")
              /\ file' = [file EXCEPT ![p] = IF @ = "missing" THEN "empty" ELSE @]
        /\ UNCHANGED <<up, frames, done, node, phone>>

Installed(fresh) ==
    [Absent EXCEPT !.present = TRUE, !.stream = "open", !.idle = TRUE, !.removeOnAbort = fresh]

CreateWritable(q) ==
    LET h == Head1(q)
    IN  /\ At(q, "writable")
        /\ \/ Return(q, [up EXCEPT ![h.of] = Installed(h.fresh)])
           \/ To(q, IF h.fresh THEN "undo" ELSE "fail") /\ UNCHANGED up
        /\ UNCHANGED <<frames, done, file, node, phone>>

UndoCreate(q) ==
    /\ At(q, "undo")
    /\ RemoveEntry(PathOf[Head1(q).of])
    /\ To(q, "fail")
    /\ UNCHANGED <<up, frames, done, node, phone>>

(* upload_finish up to close(), with the write before it if one is left.   *)
FinishUpload(q) ==
    LET t == Head1(q).of
    IN  /\ Ready(q, "finish")
        /\ \/ ~Open(t) /\ To(q, "fail") /\ UNCHANGED <<up, phone>>
           \/ /\ Open(t) /\ up[t].received # Size[t]
              /\ up' = Aborting(up, {t})
              /\ To(q, "cleanup")
              /\ phone' = [phone EXCEPT !.misfit = IF Disposed THEN @ ELSE @ \cup {t}]
           \/ /\ Open(t) /\ up[t].received = Size[t]
              /\ up' = [up EXCEPT ![t] = [Flushed(@) EXCEPT !.idle = FALSE, !.stream = "closing"]]
              /\ To(q, "closing")
              /\ UNCHANGED phone
        /\ UNCHANGED <<frames, done, file, node>>

Writing(t) == frames[t] # << >> /\ frames[t][1].step \in {"early", "last"}

CloseSettles(q) ==
    LET t == Head1(q).of
    IN  /\ At(q, "closing") /\ ~Writing(t)
        /\ \/ /\ up[t].stream = "closing"
              /\ file' = [file EXCEPT ![PathOf[t]] = t]
              /\ Return(q, [up EXCEPT ![t] = [Landed(@) EXCEPT !.stream = "closed",
                                                               !.present = FALSE]])
           \/ /\ up' = Aborting([up EXCEPT ![t] = Lost(@)], {t})
              /\ To(q, "cleanup")
              /\ UNCHANGED file
        /\ UNCHANGED <<frames, done, node, phone>>

AbortRequest(q) ==
    LET t == Head1(q).of
    IN  /\ Ready(q, "abort")
        /\ \/ ~up[t].present /\ Return(q, up)
           \/ up[t].present /\ up' = Aborting(up, {t}) /\ To(q, "cleanup")
        /\ UNCHANGED <<frames, done, file, node, phone>>

CleanupAwaited(q) ==
    /\ At(q, "cleanup") /\ CleanedUp(Head1(q).of)
    /\ \/ Head1(q).op = "abort" /\ Return(q, up)
       \/ Head1(q).op # "abort" /\ To(q, "fail") /\ UNCHANGED up
    /\ UNCHANGED <<frames, done, file, node, phone>>

(* delete: the reservation is looked at first, and not again.              *)
Remove(q) ==
    /\ Ready(q, "remove")
    /\ To(q, IF Conflict(Head1(q).of) THEN "fail" ELSE "find")
    /\ UNCHANGED <<up, frames, done, file, node, phone>>

Find(q) ==
    /\ At(q, "find")
    /\ \/ To(q, "remove") /\ UNCHANGED up
       \/ To(q, "fail") /\ UNCHANGED up
       \/ Return(q, up)
    /\ UNCHANGED <<frames, done, file, node, phone>>

(* removeEntry takes everything below the path with it.                    *)
RemoveSettles(q) ==
    LET p == Head1(q).of
    IN  /\ At(q, "remove")
        /\ \/ /\ file' = [f \in Path |-> IF Overlaps(f, p) THEN "missing" ELSE file[f]]
              /\ Return(q, up)
           \/ To(q, "fail") /\ UNCHANGED <<up, file>>
        /\ UNCHANGED <<frames, done, node, phone>>

(* The finally of the task.                                                *)
EndTask(q) ==
    LET h == Head1(q)
    IN  /\ up' = IF h.op \in {"finish", "abort"} THEN Noted(h.of, CompleteTerminal(up[h.of])) ELSE up
        /\ ctl' = [ctl EXCEPT ![q] = Tail(@)]

(* sendResponse waits for room in the channel's buffer; it throws when the *)
(* channel has closed or refuses, and then a begun upload is given up.     *)
Respond(q) ==
    LET h == Head1(q)
    IN  /\ At(q, "respond")
        /\ \/ /\ node.open
              /\ EndTask(q)
              /\ phone' = [phone EXCEPT
                     !.begun    = IF h.op = "begin" THEN @ \cup {h.of} ELSE @,
                     !.finished = IF h.op = "finish" THEN @ \cup {h.of} ELSE @]
           \/ /\ h.op = "begin"
              /\ up' = Aborting(up, {h.of})
              /\ To(q, "cleanup")
              /\ UNCHANGED phone
           \/ h.op # "begin" /\ EndTask(q) /\ UNCHANGED phone
        /\ UNCHANGED <<frames, done, file, node>>

Fail(q) ==
    /\ At(q, "fail")
    /\ EndTask(q)
    /\ UNCHANGED <<frames, done, file, node, phone>>

NoCleanupSlip == \A t \in Transfer : up[t].cleanup # "aborting"

NoCleanup == \A t \in Transfer : CleanedUp(t)

Swept(q) ==
    /\ At(q, "sweep") /\ NoCleanup
    /\ EndTask(q)
    /\ UNCHANGED <<frames, done, file, node, phone>>

-----------------------------------------------------------------------------
(* The frame task at the head of transfer t's queue.                       *)

FrameAt(t, step) == frames[t] # << >> /\ frames[t][1].step = step

FrameTo(t, step) == frames' = [frames EXCEPT ![t][1].step = step] /\ UNCHANGED done

EndFrame(t) ==
    /\ frames' = [frames EXCEPT ![t] = Tail(@)]
    /\ done' = [done EXCEPT ![t] = @ + 1]

Invalid(t, f) ==
    LET left == Size[t] - up[t].received
    IN  \/ f.length > MaxFrame \/ f.offset # up[t].received \/ f.length > left
        \/ f.length < MinFrame /\ f.length < left

(* acceptUploadFrame after its first flush: u is the upload.               *)
Taken(u, f) == [u EXCEPT !.pending = @ + f.length, !.received = @ + f.length]

Full(t, u) == u.pending >= Batch \/ u.received = Size[t]

Take(t, u) ==
    \/ ~Full(t, u) /\ up' = [up EXCEPT ![t] = EndOperation(u)] /\ EndFrame(t)
    \/ Full(t, u) /\ up' = [up EXCEPT ![t] = Flushed(u)] /\ FrameTo(t, "last")

SkipFrame(t) ==
    /\ FrameAt(t, "queued") /\ Disposed
    /\ EndFrame(t)
    /\ UNCHANGED <<up, ctl, file, node, phone>>

AcceptFrame(t) ==
    LET f == frames[t][1]
        u == BeginOperation(CompleteFrame(up[t]))
    IN  /\ FrameAt(t, "queued") /\ ~Disposed
        /\ \/ ~Open(t) /\ FrameTo(t, "cleanup") /\ UNCHANGED up
           \/ /\ Open(t) /\ Invalid(t, f)
              /\ up' = Aborting([up EXCEPT ![t] = EndOperation(u)], {t})
              /\ FrameTo(t, "cleanup")
           \/ /\ Open(t) /\ ~Invalid(t, f)
              /\ u.pending > 0 /\ u.pending + f.length > Batch
              /\ up' = [up EXCEPT ![t] = Flushed(u)]
              /\ FrameTo(t, "early")
           \/ /\ Open(t) /\ ~Invalid(t, f)
              /\ u.pending = 0 \/ u.pending + f.length <= Batch
              /\ Take(t, Taken(u, f))
        /\ UNCHANGED <<ctl, file, node, phone>>

(* A write that fails, or an acknowledgement that cannot be sent.          *)
FrameFails(t, u) ==
    /\ up' = Aborting([up EXCEPT ![t] = EndOperation(u)], {t})
    /\ FrameTo(t, "cleanup")

EarlyWriteSettles(t) ==
    LET u == Taken(Landed(up[t]), frames[t][1])
    IN  /\ FrameAt(t, "early")
        /\ \/ up[t].stream = "open" /\ Take(t, u)
           \/ up[t].stream = "open" /\ ~Full(t, u) /\ FrameFails(t, u)
           \/ FrameFails(t, Lost(up[t]))
        /\ UNCHANGED <<ctl, file, node, phone>>

WriteSettles(t) ==
    /\ FrameAt(t, "last")
    /\ \/ /\ up[t].stream \in {"open", "closing"}
          /\ \/ /\ up' = [up EXCEPT ![t] = EndOperation(Landed(@))]
                /\ EndFrame(t)
             \/ FrameFails(t, Landed(up[t]))
       \/ FrameFails(t, Lost(up[t]))
    /\ UNCHANGED <<ctl, file, node, phone>>

FrameGivenUp(t) ==
    /\ FrameAt(t, "cleanup") /\ CleanedUp(t)
    /\ EndFrame(t)
    /\ UNCHANGED <<up, ctl, file, node, phone>>

-----------------------------------------------------------------------------
(* dispose, waitForQuiescence, and the channel.                            *)

PageDisposes ==
    /\ ~Disposed
    /\ \E closing \in BOOLEAN : Dispose(closing)
    /\ UNCHANGED <<up, ctl, frames, done, file, phone>>

ChannelCloses ==
    /\ node.open
    /\ node' = [node EXCEPT !.open = FALSE]
    /\ UNCHANGED <<up, ctl, frames, done, file, phone>>

Quiesce ==
    /\ \/ /\ node.stage = "queue" /\ ctl["queue"] = << >>
          /\ node' = [node EXCEPT !.stage = "lockQueue"] /\ UNCHANGED up
       \/ /\ node.stage = "lockQueue" /\ ctl["lockQueue"] = << >>
          /\ node' = [node EXCEPT !.stage = "frames"] /\ UNCHANGED up
       \/ /\ node.stage = "frames" /\ \A t \in Transfer : frames[t] = << >>
          /\ node' = [node EXCEPT !.stage = "uploads"] /\ up' = Aborting(up, Transfer)
       \/ /\ node.stage = "uploads" /\ NoCleanup
          /\ node' = [node EXCEPT !.stage = "quiet"] /\ UNCHANGED up
    /\ UNCHANGED <<ctl, frames, done, file, phone>>

Receive ==
    \/ \E r \in Requests : ReceiveRequest(r[1], r[2])
    \/ \E t \in Transfer, length \in 1 .. MaxFrame :
          \E offset \in phone.next[t] .. phone.next[t] + MaxGap : ReceiveFrame(t, offset, length)
    \/ ReceiveViolation

ControlStep(q) ==
    \/ SkipTask(q) \/ AwaitFrames(q)
    \/ BeginUpload(q) \/ LookUp(q) \/ CreateFile(q) \/ CreateWritable(q) \/ UndoCreate(q)
    \/ FinishUpload(q) \/ CloseSettles(q) \/ AbortRequest(q) \/ CleanupAwaited(q)
    \/ Remove(q) \/ Find(q) \/ RemoveSettles(q)
    \/ Respond(q) \/ Fail(q) \/ Swept(q)

FrameTask(t) ==
    \/ SkipFrame(t) \/ AcceptFrame(t) \/ EarlyWriteSettles(t) \/ WriteSettles(t)
    \/ FrameGivenUp(t)

CleanupStep(t) == AbortSettles(t) \/ CleanupRemoves(t)

Next ==
    \/ Receive
    \/ \E q \in Queue : ControlStep(q)
    \/ \E t \in Transfer : FrameTask(t) \/ CleanupStep(t) \/ Expire(t)
    \/ PageDisposes \/ ChannelCloses \/ Quiesce

Spec == Init /\ [][Next]_vars

(* Native calls settle, microtasks and timers run, and a channel that does *)
(* not drain closes.  Nothing is assumed of the phone or of the page.      *)
FairSpec ==
    /\ Spec
    /\ \A q \in Queue : WF_vars(ControlStep(q))
    /\ \A t \in Transfer :
          WF_vars(FrameTask(t)) /\ WF_vars(CleanupStep(t)) /\ WF_vars(Expire(t))
    /\ WF_vars(Quiesce)

-----------------------------------------------------------------------------
TaskType ==
    [op : {"begin", "finish", "abort", "remove"}, of : Transfer \cup Path, step : Step,
     fresh : BOOLEAN, barrier : Nat]

TypeOK ==
    /\ up \in [Transfer -> UploadType]
    /\ ctl \in [Queue -> Seq(TaskType)]
    /\ frames \in [Transfer -> Seq([offset : Nat, length : Nat, step : FrameStep])]
    /\ done \in [Transfer -> Nat]
    /\ file \in [Path -> Content]
    /\ node \in [stage : {"live", "queue", "lockQueue", "frames", "uploads", "quiet"},
                 open : BOOLEAN]

(* Slots are counted before three awaits and taken after them, from two    *)
(* queues at once: no class ever has more uploads than it may.             *)
SlotsRespected ==
    \A control \in BOOLEAN : Cardinality(ActiveOf(control)) <= Limit(control)

(* Every byte received is pending, passed to a write, or written, whoever  *)
(* flushes; and what a transfer committed is the whole file.               *)
BytesAccounted ==
    \A t \in Transfer :
        /\ Open(t) => up[t].received = up[t].written + up[t].writing + up[t].pending
        /\ up[t].stream = "closed" => up[t].written = Size[t]

(* protocol/README.md: "upload_finish becomes a final barrier when         *)
(* received: earlier queued frames are committed before it".  If the phone *)
(* sent every byte before it said finish, finish never finds some missing, *)
(* except on a page that has been disposed, where queued frames are        *)
(* dropped while a finish that waits for them goes on.                     *)
FinishIsBarrier == phone.misfit \cap Polite = {}

(* The idle timer runs only while nothing is queued or under way for its   *)
(* upload, although frames, controls and their tasks are counted at        *)
(* different moments: a transfer that is being worked on never expires.    *)
TimerOnlyWhenIdle ==
    \A t \in Polite : Open(t) /\ up[t].idle =>
        /\ frames[t] = << >>
        /\ \A q \in Queue : \A i \in 1 .. Len(ctl[q]) :
              ctl[q][i].op \in {"finish", "abort"} => ctl[q][i].of # t

(* When waitForQuiescence resolves, which lets the page store a receipt    *)
(* and release its lock, nothing of this node touches the folder any more. *)
QuietMeansQuiet ==
    node.stage = "quiet" =>
        /\ \A q \in Queue : ctl[q] = << >>
        /\ \A t \in Transfer :
              /\ frames[t] = << >> /\ ~up[t].present /\ CleanedUp(t)
              /\ up[t].stream \in {"none", "closed", "aborted"}

(* A file a polite phone was told is finished, and a file that was there   *)
(* before the transfer, is lost to no cleanup, failure or late frame: it   *)
(* changes only when another upload to its path commits or a request       *)
(* removes it.                                                             *)
NothingLost ==
    [][\A p \in Path :
        /\ file[p] = "old" \/ file[p] \in phone.finished \cap Polite
        /\ file'[p] # file[p]
        => \/ file'[p] \in Transfer /\ up'[file'[p]].stream = "closed"
                 /\ up[file'[p]].stream = "closing"
           \/ \E q \in Queue : At(q, "remove") /\ Overlaps(p, Head1(q).of)]_vars

(* protocol/README.md: "Active upload paths are reserved against competing *)
(* streams and overlapping namespace mutations."  So no removal is issued  *)
(* for a path that holds, contains or is below an active upload.           *)
PathsReserved == \A q \in Queue : At(q, "remove") => ~Conflict(Head1(q).of)

(* An upload that the phone abandons gives its slot and its path back.     *)
UploadsEnd == \A t \in Transfer : up[t].present ~> ~up[t].present

(* Disposal always gets to the point where the page may release its lock.  *)
QuiescenceReached == Disposed ~> node.stage = "quiet"
=============================================================================
