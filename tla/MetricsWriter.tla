---------------------------- MODULE MetricsWriter ----------------------------
(***************************************************************************)
(* How the usage counts of server/src/usage-metrics.ts reach their file:   *)
(* records arm a one-minute timer, flushes are coalesced behind at most    *)
(* one write loop, the loop replaces the file through a temporary one, and *)
(* close() drains what is left before the process exits.  The process may  *)
(* be killed at any moment and started again.                              *)
(*                                                                         *)
(* What is counted does not matter here (UsageAggregates models it): the   *)
(* state is the number of events in it.  A step is what runs between two   *)
(* awaits; microtasks of other promises may run between two steps.         *)
(***************************************************************************)
EXTENDS Naturals

CONSTANTS
    Missing, Partial,  \* a file that is not there, or only half written
    MaxRecords,        \* bound: events recorded per run of the process
    MaxStarts          \* bound: times the process starts

ASSUME MarksAssumption == Missing \notin Nat /\ Partial \notin Nat /\ Missing # Partial
ASSUME BoundsAssumption == MaxRecords \in Nat /\ MaxStarts \in Nat \ {0}

VARIABLES
    proc,        \* the process
    starts,      \* how often it has started
    state,       \* this.state: the number of events it counts
    base,        \* the count this process started from
    loadFailed,  \* usage_metrics_load_failed was logged
    timer,       \* flushTimer is armed
    dirty,       \* writeDirty
    loop,        \* writeLoop, and where its promise is
    payload,     \* the snapshot the loop took last
    failed,      \* writeFailureLogged
    closed,      \* closed
    tmp, file    \* the temporary file of this process, and the metrics file

process == <<proc, starts, base, loadFailed>>
disk == <<tmp, file>>
vars == <<process, state, timer, dirty, loop, payload, failed, closed, disk>>

Content == Nat \cup {Missing, Partial}

(* drainWrites waits for the calls of writeMetrics in turn; "settled" is   *)
(* the gap between its end and the .finally that clears writeLoop.         *)
LoopStage == {"none", "opening", "filling", "renaming", "settled"}

Writing == {"opening", "filling", "renaming"}

-----------------------------------------------------------------------------
(* The operators named ...Slip are the operator that follows with one      *)
(* plausible slip in it; the README says which property each one breaks.   *)

(* Slip: writeDirty is not reset before the state is serialised. *)
TurnSlip(again, failure) ==
    \/ again /\ loop' = "opening" /\ dirty' = TRUE /\ payload' = state /\ failed' = failure
    \/ again /\ loop' = "settled" /\ dirty' = TRUE /\ payload' = state /\ failed' = TRUE
    \/ ~again /\ loop' = "settled" /\ failed' = failure /\ UNCHANGED <<dirty, payload>>

(* The while of drainWrites up to its next await.  A state too large to    *)
(* write is given up without an await, and the loop ends.                  *)
Turn(again, failure) ==
    \/ again /\ loop' = "opening" /\ dirty' = FALSE /\ payload' = state /\ failed' = failure
    \/ again /\ loop' = "settled" /\ dirty' = FALSE /\ payload' = state /\ failed' = TRUE
    \/ ~again /\ loop' = "settled" /\ failed' = failure /\ UNCHANGED <<dirty, payload>>

(* Slip: the flush that meets a running loop leaves it at that. *)
FlushSlip ==
    /\ timer' = FALSE
    /\ \/ loop = "none" /\ Turn(TRUE, failed)
       \/ loop # "none" /\ UNCHANGED <<dirty, loop, payload, failed>>

(* flush: a running loop is told to turn once more, a new one starts now.  *)
Flush ==
    /\ timer' = FALSE
    /\ \/ loop = "none" /\ Turn(TRUE, failed)
       \/ loop # "none" /\ dirty' = TRUE /\ UNCHANGED <<loop, payload, failed>>

-----------------------------------------------------------------------------
Init ==
    /\ proc = "down" /\ starts = 0 /\ base = 0 /\ loadFailed = FALSE
    /\ state = 0 /\ timer = FALSE /\ dirty = FALSE /\ loop = "none"
    /\ payload = 0 /\ failed = FALSE /\ closed = FALSE
    /\ tmp = Missing /\ file = Missing

(* Slip: the constructor does not wait for the file. *)
LoadSlip == 0

(* load: a whole file is what it counts, a missing one counts nothing.     *)
Load == IF file \in Nat THEN file ELSE 0

(* The constructor: load, prune, and arm the timer if that changed the     *)
(* state.  The file may be unreadable for another reason than that it is   *)
(* missing (I/O, permissions, size, validation): counting starts afresh.   *)
(* The temporary file is named after the new process.                      *)
Start ==
    /\ proc = "down" /\ starts < MaxStarts
    /\ proc' = "up" /\ starts' = starts + 1
    /\ loadFailed' \in BOOLEAN
    /\ file = Missing => ~loadFailed'
    /\ file = Partial => loadFailed'
    /\ state' = IF loadFailed' THEN 0 ELSE Load
    /\ base' = state' /\ payload' = state'
    /\ timer' \in BOOLEAN
    /\ dirty' = FALSE /\ loop' = "none" /\ failed' = FALSE /\ closed' = FALSE
    /\ tmp' = Missing
    /\ UNCHANGED file

(* record, for an event before close().                                    *)
Record ==
    /\ proc = "up" /\ ~closed /\ state < base + MaxRecords
    /\ state' = state + 1
    /\ timer' = TRUE
    /\ UNCHANGED <<process, dirty, loop, payload, failed, closed, disk>>

TimerFires ==
    /\ proc = "up" /\ timer
    /\ Flush
    /\ UNCHANGED <<process, state, closed, disk>>

(* Slip: the metrics file itself is opened for writing. *)
OpenFileSlip ==
    /\ proc = "up" /\ loop = "opening"
    /\ loop' = "filling"
    /\ tmp' = Partial /\ file' = Partial
    /\ UNCHANGED <<process, state, timer, dirty, payload, failed, closed>>

(* writeFile truncates the temporary file, fills it, and resolves; then    *)
(* rename replaces the metrics file and the loop turns.                    *)
OpenFile ==
    /\ proc = "up" /\ loop = "opening"
    /\ loop' = "filling"
    /\ tmp' = Partial
    /\ UNCHANGED <<process, state, timer, dirty, payload, failed, closed, file>>

FillFile ==
    /\ proc = "up" /\ loop = "filling"
    /\ loop' = "renaming"
    /\ tmp' = payload
    /\ UNCHANGED <<process, state, timer, dirty, payload, failed, closed, file>>

Rename ==
    /\ proc = "up" /\ loop = "renaming"
    /\ file' = tmp /\ tmp' = Missing
    /\ Turn(dirty, FALSE)
    /\ UNCHANGED <<process, state, timer, closed>>

(* mkdir, writeFile or rename rejects: the failure is logged once, the     *)
(* events stay counted, and nothing tries again before the next flush.     *)
WriteFails ==
    /\ proc = "up" /\ loop \in Writing
    /\ Turn(dirty, TRUE)
    /\ UNCHANGED <<process, state, timer, closed, disk>>

(* Slip: the .finally does not look for a flush that came in the gap. *)
SettleGapSlip ==
    /\ proc = "up" /\ loop = "settled"
    /\ loop' = "none"
    /\ UNCHANGED <<process, state, timer, dirty, payload, failed, closed, disk>>

(* The .finally of flush.                                                  *)
Settle ==
    /\ proc = "up" /\ loop = "settled"
    /\ \/ dirty /\ timer' = FALSE /\ Turn(TRUE, failed)
       \/ ~dirty /\ loop' = "none" /\ UNCHANGED <<timer, dirty, payload, failed>>
    /\ UNCHANGED <<process, state, closed, disk>>

(* The HTTP server has closed: its 'close' handler and the callback of     *)
(* shutdown both call close(); the second gets the promise of the first.   *)
Close ==
    /\ proc = "up" /\ ~closed
    /\ closed' = TRUE
    /\ Flush
    /\ UNCHANGED <<process, state, disk>>

(* The promises of both calls resolve when the last loop of the chain has  *)
(* settled, and the process exits.                                         *)
Drained == closed /\ loop = "none"

Exit ==
    /\ proc = "up" /\ Drained
    /\ proc' = "down"
    /\ UNCHANGED <<starts, base, loadFailed, state, timer, dirty, loop, payload, failed,
                   closed, disk>>

(* A crash, a fatal exception, or five seconds of shutdown.                *)
Kill ==
    /\ proc = "up"
    /\ proc' = "down"
    /\ UNCHANGED <<starts, base, loadFailed, state, timer, dirty, loop, payload, failed,
                   closed, disk>>

WriterSettles == OpenFile \/ FillFile \/ Rename \/ WriteFails

Next ==
    \/ Start \/ Record \/ TimerFires \/ WriterSettles \/ Settle
    \/ Close \/ Exit \/ Kill

Spec == Init /\ [][Next]_vars

(* Timers fire, file system calls settle one way or the other, microtasks  *)
(* run.  Nothing is assumed of events, of close() or of restarts.          *)
FairSpec ==
    Spec /\ WF_vars(TimerFires) /\ WF_vars(WriterSettles) /\ WF_vars(Settle) /\ WF_vars(Exit)

-----------------------------------------------------------------------------
TypeOK ==
    /\ proc \in {"up", "down"}
    /\ starts \in 0 .. MaxStarts
    /\ state \in Nat /\ base \in Nat /\ payload \in Nat
    /\ loadFailed \in BOOLEAN /\ timer \in BOOLEAN /\ dirty \in BOOLEAN
    /\ failed \in BOOLEAN /\ closed \in BOOLEAN
    /\ loop \in LoopStage
    /\ tmp \in Content /\ file \in Content

(* No moment of a write, wherever the process is killed, leaves a metrics  *)
(* file that the next start could not read.                                *)
FileWhole == file # Partial

(* An event that no snapshot has taken yet is never forgotten: the timer   *)
(* is armed, or the running loop will turn again.  This is what the        *)
(* coalescing of flush, record and the .finally is there for.              *)
NothingForgotten ==
    proc = "up" /\ payload < state => timer \/ (dirty /\ loop # "none")

(* When the promises of close() resolve, everything recorded has been      *)
(* handed to the writer, and is in the file unless the last attempt        *)
(* failed, wherever in the life of a loop close() was called               *)
(* (server/test/usage-metrics.test.ts, "close drains a flush requested in  *)
(* the write-loop finalization gap").                                      *)
CloseDrains ==
    proc = "up" /\ Drained => payload = state /\ (failed \/ file = state)

(* The file only ever moves forward, within a process and across restarts, *)
(* unless a process could not read the file it found.                      *)
WrittenInOrder ==
    [][file' # file /\ file \in Nat /\ ~loadFailed => file' \in Nat /\ file' > file]_vars

(* Every event is handed to the writer in the end, unless the process is   *)
(* killed first.                                                           *)
RecordsReachWriter ==
    \A n \in 1 .. MaxRecords * MaxStarts :
        (proc = "up" /\ n <= state) ~> (n <= payload \/ proc = "down")

(* close() terminates: no sequence of flushes keeps the loop turning.      *)
CloseTerminates == closed ~> proc = "down"

(* Nothing waits for ever: neither an event for the writer, nor close().   *)
WriterEnds == RecordsReachWriter /\ CloseTerminates
=============================================================================
