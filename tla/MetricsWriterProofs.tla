------------------------- MODULE MetricsWriterProofs -------------------------
(* Proofs about MetricsWriter: for any number of events and of restarts.   *)
EXTENDS MetricsWriter, TLAPS

(* What a rename would put in place, and what a settled loop has left.     *)
FilesKept ==
    /\ file # Partial
    /\ proc = "up" /\ loop = "renaming" => tmp = payload
    /\ proc = "up" /\ loop = "settled" /\ ~failed => file = payload
    /\ proc = "up" /\ Drained /\ ~failed => file = payload

(* How much has been handed over, and what will hand over the rest.        *)
EventsKept ==
    /\ payload <= state
    /\ proc = "up" /\ payload < state => timer \/ dirty
    /\ proc = "up" /\ dirty => loop # "none"
    /\ proc = "up" /\ closed => ~timer

(* The strengthening: NothingForgotten alone does not say that a requested *)
(* turn has a loop to take it, nor CloseDrains what happened on the way.   *)
Inv == TypeOK /\ FilesKept /\ EventsKept

LEMMA FlushKeeps ==
    ASSUME Inv, Flush, proc = "up", state' = state
    PROVE  /\ timer' = FALSE /\ loop' \in LoopStage \ {"none"}
           /\ payload' \in Nat /\ dirty' \in BOOLEAN /\ failed' \in BOOLEAN
           /\ payload' <= state /\ (payload' < state => dirty')
           /\ loop' # loop => /\ loop = "none" /\ loop' \in {"opening", "settled"}
                              /\ (loop' = "settled" => failed')
           /\ loop' = loop => UNCHANGED <<payload, failed>>
<1>1. CASE loop = "none"
  <2>1. Turn(TRUE, failed) /\ timer' = FALSE
    BY <1>1 DEF Flush
  <2>2. \/ loop' = "opening" /\ dirty' = FALSE /\ payload' = state /\ failed' = failed
        \/ loop' = "settled" /\ dirty' = FALSE /\ payload' = state /\ failed' = TRUE
    BY <2>1 DEF Turn
  <2>3. state \in Nat /\ failed \in BOOLEAN
    BY DEF Inv, TypeOK
  <2>4. payload' \in Nat /\ payload' <= state /\ ~(payload' < state)
    BY <2>2, <2>3
  <2>5. dirty' \in BOOLEAN /\ failed' \in BOOLEAN
    BY <2>2, <2>3
  <2>6. loop' \in {"opening", "settled"} /\ (loop' = "settled" => failed')
    BY <2>2
  <2> QED BY <1>1, <2>1, <2>4, <2>5, <2>6 DEF LoopStage
<1>2. CASE loop # "none"
  BY <1>2 DEF Flush, Inv, TypeOK, EventsKept, LoopStage
<1> QED BY <1>1, <1>2

LEMMA InitInv == Init => Inv
<1> SUFFICES ASSUME Init PROVE Inv
  OBVIOUS
<1>1. TypeOK
  <2>1. starts \in 0 .. MaxStarts
    BY BoundsAssumption DEF Init
  <2> QED BY <2>1 DEF Init, TypeOK, LoopStage, Content
<1>2. FilesKept
  BY MarksAssumption DEF Init, FilesKept
<1>3. EventsKept
  BY DEF Init, EventsKept
<1> QED BY <1>1, <1>2, <1>3 DEF Inv

LEMMA NextInv == Inv /\ [Next]_vars => Inv'
<1> SUFFICES ASSUME Inv, [Next]_vars PROVE Inv'
  OBVIOUS
<1>0. /\ Missing \notin Nat /\ Partial \notin Nat /\ Missing # Partial
      /\ MaxRecords \in Nat /\ MaxStarts \in Nat
  BY MarksAssumption, BoundsAssumption
<1> USE <1>0 DEF Inv, TypeOK, LoopStage, Content
<1>1. CASE Start
  <2>1. Load \in Nat
    BY DEF Load
  <2>2. /\ state' \in Nat /\ base' = state' /\ payload' = state' /\ loop' = "none"
        /\ dirty' = FALSE /\ failed' = FALSE /\ closed' = FALSE /\ timer' \in BOOLEAN
        /\ loadFailed' \in BOOLEAN /\ proc' = "up" /\ starts' \in 0 .. MaxStarts
        /\ tmp' = Missing /\ file' = file
    BY <1>1, <2>1 DEF Start
  <2>3. TypeOK'
    BY <2>2
  <2>4. FilesKept'
    BY <2>2 DEF FilesKept, Drained
  <2>5. EventsKept'
    BY <2>2 DEF EventsKept
  <2> QED BY <2>3, <2>4, <2>5
<1>2. CASE Record
  BY <1>2 DEF Record, process, disk, FilesKept, EventsKept, Drained
<1>3. CASE TimerFires
  <2>1. /\ Flush /\ proc = "up" /\ timer /\ state' = state
        /\ UNCHANGED <<process, closed, disk>>
    BY <1>3 DEF TimerFires
  <2>2. ~closed
    BY <2>1 DEF EventsKept
  <2> QED BY <2>1, <2>2, FlushKeeps DEF process, disk, FilesKept, EventsKept, Drained
<1>4. CASE OpenFile
  BY <1>4 DEF OpenFile, process, FilesKept, EventsKept, Drained
<1>5. CASE FillFile
  BY <1>5 DEF FillFile, process, FilesKept, EventsKept, Drained
<1>6. CASE Rename
  <2>1. /\ proc = "up" /\ loop = "renaming" /\ file' = tmp /\ tmp' = Missing
        /\ Turn(dirty, FALSE) /\ UNCHANGED <<process, state, timer, closed>>
    BY <1>6 DEF Rename, FilesKept
  <2>2. TypeOK'
    BY <2>1 DEF Turn, process, disk
  <2>3. FilesKept'
    BY <2>1 DEF Turn, process, disk, FilesKept, Drained
  <2>4. EventsKept'
    BY <2>1 DEF Turn, process, disk, EventsKept
  <2> QED BY <2>2, <2>3, <2>4
<1>7. CASE WriteFails
  <2>1. /\ proc = "up" /\ loop \in {"opening", "filling", "renaming"}
        /\ Turn(dirty, TRUE) /\ UNCHANGED <<process, state, timer, closed, disk>>
    BY <1>7 DEF WriteFails, Writing
  <2>2. TypeOK'
    BY <2>1 DEF Turn, process, disk
  <2>3. FilesKept'
    BY <2>1 DEF Turn, process, disk, FilesKept, Drained
  <2>4. EventsKept'
    BY <2>1 DEF Turn, process, disk, EventsKept
  <2> QED BY <2>2, <2>3, <2>4
<1>8. CASE Settle
  <2>1. /\ proc = "up" /\ loop = "settled" /\ UNCHANGED <<process, state, closed, disk>>
        /\ \/ dirty /\ timer' = FALSE /\ Turn(TRUE, failed)
           \/ ~dirty /\ loop' = "none" /\ UNCHANGED <<timer, dirty, payload, failed>>
    BY <1>8 DEF Settle, process
  <2>2. TypeOK'
    BY <2>1 DEF Turn, process, disk
  <2>3. FilesKept'
    BY <2>1 DEF Turn, process, disk, FilesKept, Drained
  <2>4. EventsKept'
    BY <2>1 DEF Turn, process, disk, EventsKept
  <2> QED BY <2>2, <2>3, <2>4
<1>9. CASE Close
  <2>1. /\ Flush /\ proc = "up" /\ state' = state /\ closed' = TRUE
        /\ UNCHANGED <<process, disk>>
    BY <1>9 DEF Close
  <2> QED BY <2>1, FlushKeeps DEF process, disk, FilesKept, EventsKept, Drained
<1>10. CASE Exit
  BY <1>10 DEF Exit, disk, FilesKept, EventsKept, Drained
<1>11. CASE Kill
  BY <1>11 DEF Kill, disk, FilesKept, EventsKept, Drained
<1>12. CASE UNCHANGED vars
  BY <1>12 DEF vars, process, disk, FilesKept, EventsKept, Drained
<1> QED
  BY <1>1, <1>2, <1>3, <1>4, <1>5, <1>6, <1>7, <1>8, <1>9, <1>10, <1>11, <1>12
  DEF Next, WriterSettles

THEOREM Invariance == Spec => []Inv
BY InitInv, NextInv, PTL DEF Spec

(* No crash leaves a half written metrics file.                            *)
THEOREM FileIsWhole == Spec => []FileWhole
<1>1. Inv => FileWhole
  BY DEF Inv, FilesKept, FileWhole
<1> QED BY <1>1, Invariance, PTL

(* No interleaving of records, timers, flushes and writes forgets an event. *)
THEOREM EventsAreKept == Spec => []NothingForgotten
<1>1. Inv => NothingForgotten
  BY DEF Inv, EventsKept, NothingForgotten
<1> QED BY <1>1, Invariance, PTL

(* What close() resolves to: everything is written, or its write failed.   *)
THEOREM CloseIsComplete == Spec => []CloseDrains
<1>1. ASSUME Inv
      PROVE  CloseDrains
  <2>1. ASSUME proc = "up", Drained
        PROVE  payload = state
    BY <1>1, <2>1 DEF Inv, TypeOK, EventsKept, Drained
  <2> QED BY <1>1, <2>1 DEF Inv, FilesKept, CloseDrains
<1> QED BY <1>1, Invariance, PTL

-----------------------------------------------------------------------------
(* A process that could read its file is never behind it.                  *)
FileBehind == proc = "up" /\ ~loadFailed /\ file \in Nat => file <= payload

LEMMA BehindStep ==
    ASSUME Inv, FileBehind, [Next]_vars
    PROVE  /\ FileBehind'
           /\ file' # file /\ file \in Nat /\ ~loadFailed => file' \in Nat /\ file' > file
<1>0. state \in Nat /\ payload \in Nat /\ payload <= state
  BY DEF Inv, TypeOK, EventsKept
<1>1. CASE Start
  <2>1. /\ file' = file /\ payload' = state'
        /\ ~loadFailed' => state' = Load
    BY <1>1 DEF Start
  <2> QED BY <2>1 DEF FileBehind, Load
<1>2. CASE Rename
  <2>1. /\ proc = "up" /\ file' = payload /\ loadFailed' = loadFailed
        /\ payload' \in {payload, state}
    BY <1>2 DEF Rename, Turn, process, Inv, FilesKept
  <2>2. payload' \in Nat /\ payload <= payload'
    BY <1>0, <2>1
  <2> QED BY <1>0, <2>1, <2>2 DEF FileBehind
<1>3. CASE TimerFires \/ WriteFails \/ Settle \/ Close
  <2>1. /\ proc = "up" /\ file' = file /\ loadFailed' = loadFailed
        /\ payload' \in {payload, state}
    BY <1>3 DEF TimerFires, WriteFails, Settle, Close, Flush, Turn, process, disk
  <2>2. payload' \in Nat /\ payload <= payload'
    BY <1>0, <2>1
  <2> QED BY <1>0, <2>1, <2>2 DEF FileBehind
<1>4. CASE Record \/ OpenFile \/ FillFile \/ UNCHANGED vars
  <2>1. UNCHANGED <<proc, file, loadFailed, payload>>
    BY <1>4 DEF Record, OpenFile, FillFile, vars, process, disk
  <2> QED BY <2>1 DEF FileBehind
<1>5. CASE Exit \/ Kill
  <2>1. proc' = "down" /\ file' = file
    BY <1>5 DEF Exit, Kill, disk
  <2> QED BY <2>1 DEF FileBehind
<1> QED BY <1>1, <1>2, <1>3, <1>4, <1>5 DEF Next, WriterSettles

(* The file only moves forward, across any number of restarts.             *)
THEOREM FileMovesForward == Spec => WrittenInOrder
<1>1. Init => FileBehind
  BY DEF Init, FileBehind
<1>2. Inv /\ FileBehind /\ [Next]_vars => FileBehind'
  BY BehindStep
<1>3. Inv /\ FileBehind /\ [Next]_vars
        => [file' # file /\ file \in Nat /\ ~loadFailed => file' \in Nat /\ file' > file]_vars
  BY BehindStep
<1> QED BY <1>1, <1>2, <1>3, Invariance, PTL DEF Spec, WrittenInOrder
=============================================================================
