-------------------------- MODULE DownloadNodeProofs --------------------------
(***************************************************************************)
(* Theorems about DownloadNode, for every set of transfers, sizes, windows *)
(* and budgets.                                                            *)
(***************************************************************************)
EXTENDS DownloadNode, SumProofs, FiniteSetTheorems, SequenceTheorems, TLAPS

-----------------------------------------------------------------------------
(* The model's helpers.                                                    *)

Op == {"begin", "start", "finish", "abort"}
TaskStep == {"queued", "file", "respond", "fail"}
TaskType == [op : Op, of : Transfer, step : TaskStep]
StreamType == [at : StreamStep, hold : Nat]
Downloads == [Transfer -> DownloadType]
Streams == [Transfer -> StreamType]
Reads == [Transfer -> {"none", "live", "orphan"}]
Queues == [Queue -> Seq(TaskType)]
Stages == {"live", "queue", "lockQueue", "tasks", "reads", "quiet"}

Types ==
    /\ down \in Downloads
    /\ stream \in Streams
    /\ read \in Reads
    /\ ctl \in Queues
    /\ chan \in [open : BOOLEAN, buffered : Nat]
    /\ stage \in Stages
    /\ phone \in [sent : SUBSET Requests, told : SUBSET Transfer]

LEMMA TypesOK == TypeOK <=> Types
BY DEF TypeOK, Types, Downloads, Streams, Reads, Queues, Stages, TaskType, TaskStep, StreamType, Op

LEMMA MinTwo ==
    ASSUME NEW a \in Int, NEW b \in Int
    PROVE  MinOf({a, b}) \in Int /\ MinOf({a, b}) <= a /\ MinOf({a, b}) <= b
<1>1. \E x \in {a, b} : \A y \in {a, b} : x <= y
  OBVIOUS
<1> QED BY <1>1 DEF MinOf

LEMMA MinThree ==
    ASSUME NEW a \in Int, NEW b \in Int, NEW c \in Int
    PROVE  /\ MinOf({a, b, c}) \in Int
           /\ MinOf({a, b, c}) <= a /\ MinOf({a, b, c}) <= b /\ MinOf({a, b, c}) <= c
<1>1. \E x \in {a, b, c} : \A y \in {a, b, c} : x <= y
  OBVIOUS
<1> QED BY <1>1 DEF MinOf

(* What a timer or a queued control changes of a download: nothing else.   *)
Touched(d, e) ==
    /\ d \in DownloadType /\ e \in DownloadType
    /\ e.present = d.present /\ e.started = d.started /\ e.sent = d.sent /\ e.acked = d.acked
    /\ e.idle => d.idle \/ e.present

LEMMA Touches ==
    ASSUME NEW d \in DownloadType
    PROVE  Touched(d, d) /\ Touched(d, Arm(d)) /\ Touched(d, Noted(d)) /\ Touched(d, Completed(d))
<1>1. ASSUME NEW e \in DownloadType PROVE Touched(e, Arm(e))
  BY DEF Touched, Arm, DownloadType
<1>2. Touched(d, Noted(d))
  <2> DEFINE n == d.queuedControls + 1
             e == [d EXCEPT !.idle = FALSE, !.queuedControls = n]
  <2>1. n \in Nat
    BY DEF DownloadType
  <2>2. Noted(d) = IF d.present THEN e ELSE d
    BY DEF Noted
  <2> HIDE DEF n
  <2>3. Touched(d, e) /\ Touched(d, d)
    BY <2>1 DEF DownloadType, Touched
  <2> QED BY <2>2, <2>3
<1>3. Touched(d, Completed(d))
  <2> DEFINE e == [d EXCEPT !.queuedControls = Less(@)]
  <2>1. Less(d.queuedControls) \in Nat
    BY DEF Less, DownloadType
  <2>2. e \in DownloadType /\ Touched(d, e) /\ (e.idle <=> d.idle) /\ e.present = d.present
    BY <2>1 DEF DownloadType, Touched
  <2> HIDE DEF e
  <2>3. Touched(e, Arm(e))
    BY <1>1, <2>2
  <2>4. Touched(d, Arm(e))
    BY <2>2, <2>3 DEF Touched
  <2>5. Completed(d) = IF d.present THEN Arm(e) ELSE d
    BY DEF Completed, e
  <2> QED BY <2>4, <2>5 DEF Touched
<1>4. Touched(d, d)
  BY DEF Touched
<1> QED BY <1>1, <1>2, <1>3, <1>4

LEMMA WokenFacts ==
    ASSUME NEW s \in Streams
    PROVE  /\ Woken(s) \in Streams
           /\ \A t \in Transfer :
                 /\ Woken(s)[t].hold = s[t].hold
                 /\ Woken(s)[t].at = IF s[t].at = "parked" THEN "capacity" ELSE s[t].at
<1>1. ASSUME NEW t \in Transfer
      PROVE  /\ Woken(s)[t] \in StreamType
             /\ Woken(s)[t].hold = s[t].hold
             /\ Woken(s)[t].at = IF s[t].at = "parked" THEN "capacity" ELSE s[t].at
  <2>1. s[t] \in StreamType
    BY DEF Streams
  <2> QED BY <2>1 DEF Woken, StreamType, StreamStep
<1>2. Woken(s) = [t \in Transfer |-> Woken(s)[t]]
  BY DEF Woken
<1>3. Woken(s) \in Streams
  BY <1>1, <1>2 DEF Streams
<1> QED BY <1>1, <1>3

LEMMA ReleasedFacts ==
    ASSUME stream \in Streams, NEW t \in Transfer, NEW step \in StreamStep \ {"parked"}
    PROVE  /\ Released(t, step) \in Streams
           /\ Released(t, step)[t].hold = 0 /\ Released(t, step)[t].at = step
           /\ \A u \in Transfer \ {t} :
                 /\ Released(t, step)[u].hold = stream[u].hold
                 /\ Released(t, step)[u].at
                       = IF stream[u].at = "parked" THEN "capacity" ELSE stream[u].at
<1> DEFINE s == [stream EXCEPT ![t] = [at |-> step, hold |-> 0]]
<1>1. /\ s \in Streams /\ s[t].hold = 0 /\ s[t].at = step
      /\ \A u \in Transfer \ {t} : s[u] = stream[u]
  BY DEF Streams, StreamType
<1>2. Released(t, step) = Woken(s)
  BY DEF Released
<1> HIDE DEF s
<1> QED BY <1>1, <1>2, WokenFacts

LEMMA AbortedFacts ==
    ASSUME down \in Downloads, read \in Reads, NEW T
    PROVE  /\ AbortedDown(T) \in Downloads /\ Abandoned(T) \in Reads
           /\ \A t \in Transfer :
                 /\ AbortedDown(T)[t].sent = down[t].sent /\ AbortedDown(T)[t].acked = down[t].acked
                 /\ AbortedDown(T)[t].started = down[t].started
                 /\ AbortedDown(T)[t].present <=> down[t].present /\ t \notin T
                 /\ AbortedDown(T)[t].idle <=> down[t].idle /\ t \notin T
                 /\ Abandoned(T)[t] = IF t \in T /\ down[t].present /\ read[t] = "live"
                                        THEN "orphan" ELSE read[t]
<1>1. ASSUME NEW t \in Transfer
      PROVE  /\ AbortedDown(T)[t] \in DownloadType
             /\ AbortedDown(T)[t].sent = down[t].sent /\ AbortedDown(T)[t].acked = down[t].acked
             /\ AbortedDown(T)[t].started = down[t].started
             /\ AbortedDown(T)[t].present <=> down[t].present /\ t \notin T
             /\ AbortedDown(T)[t].idle <=> down[t].idle /\ t \notin T
  <2>1. down[t] \in DownloadType
    BY DEF Downloads
  <2> QED BY <2>1 DEF AbortedDown, DownloadType
<1>2. AbortedDown(T) \in Downloads
  BY <1>1 DEF AbortedDown, Downloads
<1>3. /\ Abandoned(T) \in Reads
      /\ \A t \in Transfer : Abandoned(T)[t] = IF t \in T /\ down[t].present /\ read[t] = "live"
                                                 THEN "orphan" ELSE read[t]
  BY DEF Abandoned, Reads
<1> QED BY <1>1, <1>2, <1>3
LEMMA Finite ==
    ASSUME DownloadAssumption
    PROVE  IsFiniteSet(Transfer) /\ \A c \in BOOLEAN : IsFiniteSet(Of(c)) /\ Of(c) \in SUBSET Transfer
<1>1. IsFiniteSet(Transfer)
  BY DEF DownloadAssumption
<1>2. \A c \in BOOLEAN : Of(c) \in SUBSET Transfer
  BY DEF Of
<1> QED BY <1>1, <1>2, FS_Subset

LEMMA Sizes ==
    ASSUME DownloadAssumption
    PROVE  /\ Size \in [Transfer -> Nat] /\ \A t \in Transfer : Size[t] \in Nat
           /\ MaxData \in Nat /\ MaxControl \in Nat /\ WindowData \in Nat /\ WindowControl \in Nat
           /\ WindowTotal = WindowData + WindowControl /\ WindowTotal \in Nat
           /\ Header \in Nat /\ MinFrame \in Nat /\ MinFrame > 0 /\ Chunk \in Nat /\ Chunk >= MinFrame
           /\ BufferData \in Nat /\ BufferTotal \in Nat /\ BufferData <= BufferTotal
           /\ Answer \in Nat /\ Answer > 0
           /\ \A c \in BOOLEAN : ClassWindow(c) \in Nat /\ Limit(c) \in Nat
           /\ \A t \in Transfer : Control(t) \in BOOLEAN /\ t \in Of(Control(t))
           /\ \A t \in Transfer : BufferLimit(t) \in Nat /\ BufferLimit(t) <= BufferTotal
<1>1. /\ Size \in [Transfer -> Nat] /\ \A t \in Transfer : Size[t] \in Nat
      /\ MaxData \in Nat /\ MaxControl \in Nat /\ WindowData \in Nat /\ WindowControl \in Nat
      /\ WindowTotal = WindowData + WindowControl
      /\ Header \in Nat /\ MinFrame \in Nat /\ MinFrame > 0 /\ Chunk \in Nat /\ Chunk >= MinFrame
      /\ BufferData \in Nat /\ BufferTotal \in Nat /\ Answer \in Nat /\ Answer > 0
      /\ BufferTotal >= BufferData + Answer
  BY DEF DownloadAssumption
<1>2. /\ \A c \in BOOLEAN : ClassWindow(c) \in Nat /\ Limit(c) \in Nat
      /\ \A t \in Transfer : Control(t) \in BOOLEAN /\ t \in Of(Control(t))
  BY <1>1 DEF ClassWindow, Limit, Control, Of
<1>3. BufferData <= BufferTotal /\ WindowTotal \in Nat
  BY <1>1
<1>4. \A t \in Transfer : BufferLimit(t) \in Nat /\ BufferLimit(t) <= BufferTotal
  BY <1>1, <1>3 DEF BufferLimit
<1> QED BY <1>1, <1>2, <1>3, <1>4

(* The bytes under way and the bytes held, as functions of the state.      *)
UnackOf(ds) == [t \in Transfer |-> IF ds[t].present THEN ds[t].sent - ds[t].acked ELSE 0]

HoldsOf(ss) == [t \in Transfer |-> ss[t].hold]

NextOf(ds, t) ==
    LET left == Size[t] - ds[t].sent
        window == MinOf({WindowTotal - Total(UnackOf(ds), Transfer),
                         ClassWindow(Control(t)) - Total(UnackOf(ds), Of(Control(t)))})
        length == MinOf({left, window, Chunk})
    IN  IF length <= 0 \/ (length < MinFrame /\ length < left) THEN 0 ELSE length

LEMMA OfState ==
    /\ Unacknowledged = UnackOf(down) /\ ReservedBytes = Total(HoldsOf(stream), Transfer)
    /\ \A t : NextLength(t) = NextOf(down, t)
<1>1. Unacknowledged = UnackOf(down)
  BY DEF Unacknowledged, UnackOf
<1>2. ReservedBytes = Total(HoldsOf(stream), Transfer)
  BY DEF ReservedBytes, HoldsOf
<1>3. \A t : NextLength(t) = NextOf(down, t)
  BY <1>1 DEF NextLength, NextOf, AvailableWindow
<1> QED BY <1>1, <1>2, <1>3

LEMMA UnackFacts ==
    ASSUME DownloadAssumption, NEW ds \in Downloads
    PROVE  /\ \A t \in Transfer :
                 /\ UnackOf(ds)[t] \in Int
                 /\ UnackOf(ds)[t] = IF ds[t].present THEN ds[t].sent - ds[t].acked ELSE 0
           /\ Total(UnackOf(ds), Transfer) \in Int
           /\ \A c \in BOOLEAN : Total(UnackOf(ds), Of(c)) \in Int
<1>1. \A t \in Transfer :
         /\ UnackOf(ds)[t] \in Int
         /\ UnackOf(ds)[t] = IF ds[t].present THEN ds[t].sent - ds[t].acked ELSE 0
  <2>1. \A t \in Transfer : ds[t] \in DownloadType
    BY DEF Downloads
  <2>2. \A d \in DownloadType : d.sent \in Nat /\ d.acked \in Nat
    BY DEF DownloadType
  <2> QED BY <2>1, <2>2 DEF UnackOf
<1>2. Total(UnackOf(ds), Transfer) \in Int
  BY <1>1, Finite, TotalType
<1>3. ASSUME NEW c \in BOOLEAN PROVE Total(UnackOf(ds), Of(c)) \in Int
  <2>1. IsFiniteSet(Of(c)) /\ \A t \in Of(c) : UnackOf(ds)[t] \in Int
    BY <1>1, Finite
  <2> QED BY <2>1, TotalType
<1> QED BY <1>1, <1>2, <1>3

LEMMA HoldFacts ==
    ASSUME DownloadAssumption, NEW ss \in Streams
    PROVE  /\ Total(HoldsOf(ss), Transfer) \in Nat
           /\ \A t \in Transfer : /\ HoldsOf(ss)[t] = ss[t].hold /\ ss[t].hold \in Nat
                                  /\ ss[t].hold <= Total(HoldsOf(ss), Transfer)
           /\ \A c \in BOOLEAN : /\ Total(HoldsOf(ss), Of(c)) \in Nat
                                 /\ Total(HoldsOf(ss), Of(c)) <= Total(HoldsOf(ss), Transfer)
<1>1. \A t \in Transfer : HoldsOf(ss)[t] = ss[t].hold /\ ss[t].hold \in Nat
  BY DEF HoldsOf, Streams, StreamType
<1>3. /\ Total(HoldsOf(ss), Transfer) \in Nat
      /\ \A t \in Transfer : HoldsOf(ss)[t] <= Total(HoldsOf(ss), Transfer)
      /\ \A R \in SUBSET Transfer : Total(HoldsOf(ss), R) <= Total(HoldsOf(ss), Transfer)
  BY <1>1, Finite, TotalNat
<1>4. ASSUME NEW c \in BOOLEAN PROVE Total(HoldsOf(ss), Of(c)) \in Nat
  <2>1. IsFiniteSet(Of(c)) /\ \A t \in Of(c) : HoldsOf(ss)[t] \in Nat
    BY <1>1, Finite
  <2> QED BY <2>1, TotalNat
<1> QED BY <1>1, <1>3, <1>4, Finite

(* The next frame fits the file, the window and the chunk.                 *)
LEMMA NextFacts ==
    ASSUME DownloadAssumption, NEW ds \in Downloads, NEW t \in Transfer
    PROVE  /\ NextOf(ds, t) \in Nat
           /\ NextOf(ds, t) > 0 =>
                 /\ ds[t].sent + NextOf(ds, t) <= Size[t]
                 /\ Total(UnackOf(ds), Of(Control(t))) + NextOf(ds, t) <= ClassWindow(Control(t))
                 /\ NextOf(ds, t) <= Chunk
<1> DEFINE left == Size[t] - ds[t].sent
           a == WindowTotal - Total(UnackOf(ds), Transfer)
           b == ClassWindow(Control(t)) - Total(UnackOf(ds), Of(Control(t)))
           w == MinOf({a, b})
           n == MinOf({left, w, Chunk})
<1>1. ds[t].sent \in Nat /\ Size[t] \in Nat /\ Chunk \in Nat
  BY Sizes DEF Downloads, DownloadType
<1>2. /\ Total(UnackOf(ds), Transfer) \in Int /\ Total(UnackOf(ds), Of(Control(t))) \in Int
      /\ WindowTotal \in Int /\ ClassWindow(Control(t)) \in Int
  BY Sizes, UnackFacts
<1>3. left \in Int /\ a \in Int /\ b \in Int
  BY <1>1, <1>2
<1>4. NextOf(ds, t) = IF n <= 0 \/ (n < MinFrame /\ n < left) THEN 0 ELSE n
  BY DEF NextOf
<1>5. w \in Int /\ w <= b
  <2> HIDE DEF a, b
  <2> QED BY <1>3, MinTwo
<1>6. n \in Int /\ n <= left /\ n <= w /\ n <= Chunk
  <2> HIDE DEF w, left
  <2>1. \A x, y, z \in Int : /\ MinOf({x, y, z}) \in Int /\ MinOf({x, y, z}) <= x
                             /\ MinOf({x, y, z}) <= y /\ MinOf({x, y, z}) <= z
    BY MinThree
  <2>2. Chunk \in Int
    BY <1>1
  <2> QED BY <1>3, <1>5, <2>1, <2>2
<1> HIDE DEF w, n
<1>7. CASE n <= 0 \/ (n < MinFrame /\ n < left)
  BY <1>4, <1>7
<1>8. CASE ~(n <= 0 \/ (n < MinFrame /\ n < left))
  <2>1. NextOf(ds, t) = n /\ n > 0
    BY <1>4, <1>6, <1>8
  <2> QED BY <2>1, <1>1, <1>2, <1>5, <1>6
<1> QED BY <1>7, <1>8

-----------------------------------------------------------------------------
(* The queues of control tasks: a task is added at the end, goes a step    *)
(* further at the head, or leaves.                                         *)

Added(q, k) == [ctl EXCEPT ![q] = Append(@, k)]
Stepped(q, step) == [ctl EXCEPT ![q][1].step = step]
Dropped(q) == [ctl EXCEPT ![q] = Tail(@)]

LEMMA HeadFacts ==
    ASSUME ctl \in Queues, NEW q \in Queue, ctl[q] # << >>
    PROVE  /\ ctl[q] \in Seq(TaskType) /\ Len(ctl[q]) \in Nat /\ Len(ctl[q]) >= 1
           /\ 1 \in 1 .. Len(ctl[q])
           /\ Head1(q) \in TaskType /\ Head1(q).of \in Transfer /\ Head1(q).op \in Op
           /\ Head1(q).step \in TaskStep
<1>1. ctl[q] \in Seq(TaskType)
  BY DEF Queues
<1>2. Len(ctl[q]) \in Nat /\ Len(ctl[q]) >= 1
  BY <1>1
<1>3. Head1(q) \in TaskType
  BY <1>1, <1>2 DEF Head1
<1> QED BY <1>1, <1>2, <1>3 DEF TaskType

LEMMA AddedFacts ==
    ASSUME ctl \in Queues, NEW q \in Queue, NEW k \in TaskType
    PROVE  /\ Added(q, k) \in Queues
           /\ Len(Added(q, k)[q]) = Len(ctl[q]) + 1 /\ Len(ctl[q]) \in Nat
           /\ Added(q, k)[q][Len(ctl[q]) + 1] = k
           /\ \A i \in 1 .. Len(ctl[q]) : Added(q, k)[q][i] = ctl[q][i]
           /\ \A r \in Queue \ {q} : Added(q, k)[r] = ctl[r]
<1>1. ctl[q] \in Seq(TaskType)
  BY DEF Queues
<1>2. Added(q, k)[q] = Append(ctl[q], k) /\ \A r \in Queue \ {q} : Added(q, k)[r] = ctl[r]
  BY DEF Added, Queues
<1>3. Added(q, k) \in Queues
  BY <1>1 DEF Added, Queues
<1> QED BY <1>1, <1>2, <1>3

LEMMA SteppedFacts ==
    ASSUME ctl \in Queues, NEW q \in Queue, ctl[q] # << >>, NEW step \in TaskStep
    PROVE  /\ Stepped(q, step) \in Queues
           /\ Len(Stepped(q, step)[q]) = Len(ctl[q])
           /\ Stepped(q, step)[q][1].op = Head1(q).op /\ Stepped(q, step)[q][1].of = Head1(q).of
           /\ Stepped(q, step)[q][1].step = step
           /\ \A i \in 2 .. Len(ctl[q]) : Stepped(q, step)[q][i] = ctl[q][i]
           /\ \A r \in Queue \ {q} : Stepped(q, step)[r] = ctl[r]
<1> DEFINE k == [Head1(q) EXCEPT !.step = step]
           s == [ctl[q] EXCEPT ![1] = k]
<1>1. /\ k \in TaskType /\ k.op = Head1(q).op /\ k.of = Head1(q).of /\ k.step = step
  BY HeadFacts DEF TaskType
<1>2. Stepped(q, step) = [ctl EXCEPT ![q] = s]
  BY DEF Stepped, Head1
<1> HIDE DEF k
<1>3. /\ s \in Seq(TaskType) /\ Len(s) = Len(ctl[q]) /\ s[1] = k
      /\ \A i \in 2 .. Len(ctl[q]) : s[i] = ctl[q][i]
  BY <1>1, HeadFacts
<1> HIDE DEF s
<1>4. /\ Stepped(q, step) \in Queues /\ Stepped(q, step)[q] = s
      /\ \A r \in Queue \ {q} : Stepped(q, step)[r] = ctl[r]
  BY <1>2, <1>3 DEF Queues
<1> QED BY <1>1, <1>3, <1>4

LEMMA DroppedFacts ==
    ASSUME ctl \in Queues, NEW q \in Queue, ctl[q] # << >>
    PROVE  /\ Dropped(q) \in Queues
           /\ Len(Dropped(q)[q]) = Len(ctl[q]) - 1
           /\ \A i \in 1 .. Len(ctl[q]) - 1 : Dropped(q)[q][i] = ctl[q][i + 1]
           /\ \A r \in Queue \ {q} : Dropped(q)[r] = ctl[r]
<1>1. ctl[q] \in Seq(TaskType) /\ Len(ctl[q]) >= 1
  BY HeadFacts
<1>2. Tail(ctl[q]) \in Seq(TaskType) /\ Len(Tail(ctl[q])) = Len(ctl[q]) - 1
  BY <1>1
<1>3. \A i \in 1 .. Len(ctl[q]) - 1 : Tail(ctl[q])[i] = ctl[q][i + 1]
  BY <1>1
<1>4. /\ Dropped(q)[q] = Tail(ctl[q]) /\ Dropped(q) \in Queues
      /\ \A r \in Queue \ {q} : Dropped(q)[r] = ctl[r]
  BY <1>2 DEF Dropped, Queues
<1> QED BY <1>2, <1>3, <1>4
-----------------------------------------------------------------------------
(* What holds of a transfer between two steps.                             *)

Sending(s) == s.at \in {"reading", "room"}

FlowOf(d, s, r, size) ==
    /\ r = "live" => s.at = "reading" /\ d.present
    /\ r = "orphan" => ~d.present
    /\ d.idle => d.present
    /\ s.hold > 0 <=> Sending(s)
    /\ d.acked <= d.sent /\ d.sent <= size

Flow == \A t \in Transfer : FlowOf(down[t], stream[t], read[t], Size[t])

(* The steps that are neither the insertion of a download, nor its start,  *)
(* nor the planning of a frame only ease the flow: windows and bytes that  *)
(* are held do not grow, and nothing new reads the folder.                 *)
Lightens(d, s, r, d1, s1, r1) ==
    /\ d1.present => d.present
    /\ d1.started = d.started /\ d1.sent = d.sent
    /\ d.acked <= d1.acked /\ (d1.acked = d.acked \/ d1.acked <= d.sent)
    /\ d1.idle => d1.present
    /\ \/ s1.hold = s.hold /\ (Sending(s1) <=> Sending(s))
       \/ s1.hold = 0 /\ ~Sending(s1)
    /\ r1 # "none" => r # "none"
    /\ r1 = "live" => s1.at = "reading" /\ d1.present
    /\ r1 = "orphan" => ~d1.present

(* A stream that has not begun or has ended stays so.                      *)
EasesOne(d, s, r, d1, s1, r1) ==
    /\ Lightens(d, s, r, d1, s1, r1)
    /\ s1.at = "none" <=> s.at = "none"
    /\ s.at = "ended" => s1.at = "ended"

FlowTypes == down \in Downloads /\ stream \in Streams /\ read \in Reads

Lighter ==
    /\ FlowTypes'
    /\ \A t \in Transfer :
          Lightens(down[t], stream[t], read[t], down'[t], stream'[t], read'[t])

Eases ==
    /\ FlowTypes'
    /\ \A t \in Transfer :
          EasesOne(down[t], stream[t], read[t], down'[t], stream'[t], read'[t])

(* Every stream that waits is woken; or nothing it waits for changes.      *)
Woke == \A t \in Transfer : stream'[t].at # "parked"

Calm ==
    \A t \in Transfer :
        /\ down'[t].present = down[t].present /\ down'[t].acked = down[t].acked
        /\ stream'[t].hold = stream[t].hold
        /\ stream'[t].at = "parked" => stream[t].at = "parked"

Eased == Eases /\ (Woke \/ Calm)

LEMMA At1 ==
    ASSUME FlowTypes
    PROVE  \A t \in Transfer : /\ down[t] \in DownloadType /\ stream[t] \in StreamType
                               /\ read[t] \in {"none", "live", "orphan"}
BY DEF FlowTypes, Downloads, Streams, Reads

LEMMA EasedSame ==
    ASSUME FlowTypes, Flow, UNCHANGED <<down, stream, read>>
    PROVE  Eased
<1>1. ASSUME NEW t \in Transfer
      PROVE  EasesOne(down[t], stream[t], read[t], down[t], stream[t], read[t])
  <2>1. \A d \in DownloadType : d.acked \in Nat
    BY DEF DownloadType
  <2>2. FlowOf(down[t], stream[t], read[t], Size[t]) /\ down[t].acked <= down[t].acked
    BY <2>1, At1 DEF Flow
  <2> QED BY <2>2 DEF FlowOf, EasesOne, Lightens
<1> QED BY <1>1 DEF Eased, Eases, Calm, FlowTypes

LEMMA EasedTouched ==
    ASSUME FlowTypes, Flow, down' \in Downloads, UNCHANGED <<stream, read>>,
           \A t \in Transfer : Touched(down[t], down'[t])
    PROVE  Eased
<1>1. ASSUME NEW t \in Transfer
      PROVE  EasesOne(down[t], stream[t], read[t], down'[t], stream[t], read[t])
  <2>1. \A d \in DownloadType : d.acked \in Nat
    BY DEF DownloadType
  <2>2. FlowOf(down[t], stream[t], read[t], Size[t]) /\ down[t].acked <= down[t].acked
    BY <2>1, At1 DEF Flow
  <2>3. Touched(down[t], down'[t])
    OBVIOUS
  <2> QED BY <2>2, <2>3 DEF FlowOf, EasesOne, Lightens, Touched
<1>2. Calm
  BY DEF Calm, Touched
<1> QED BY <1>1, <1>2 DEF Eased, Eases, FlowTypes

LEMMA EasedAbort ==
    ASSUME FlowTypes, Flow, NEW T, AbortAll(T)
    PROVE  Eased /\ \A t \in T \cap Transfer : ~down'[t].present
<1>0. down' = AbortedDown(T) /\ read' = Abandoned(T) /\ stream' = Woken(stream)
  BY DEF AbortAll
<1>1. FlowTypes'
  BY <1>0, AbortedFacts, WokenFacts DEF FlowTypes
<1>2. ASSUME NEW t \in Transfer
      PROVE  /\ EasesOne(down[t], stream[t], read[t], down'[t], stream'[t], read'[t])
             /\ stream'[t].at # "parked" /\ (t \in T => ~down'[t].present)
  <2>1. \A d \in DownloadType : d.acked \in Nat /\ d.present \in BOOLEAN
    BY DEF DownloadType
  <2>2. /\ FlowOf(down[t], stream[t], read[t], Size[t]) /\ down[t].acked <= down[t].acked
        /\ down[t].present \in BOOLEAN
    BY <2>1, At1 DEF Flow
  <2>3. /\ down'[t].sent = down[t].sent /\ down'[t].acked = down[t].acked
        /\ down'[t].started = down[t].started
        /\ down'[t].present <=> down[t].present /\ t \notin T
        /\ down'[t].idle <=> down[t].idle /\ t \notin T
        /\ read'[t] = IF t \in T /\ down[t].present /\ read[t] = "live" THEN "orphan" ELSE read[t]
    BY <1>0, AbortedFacts DEF FlowTypes
  <2>4. /\ stream'[t].hold = stream[t].hold
        /\ stream'[t].at = IF stream[t].at = "parked" THEN "capacity" ELSE stream[t].at
    BY <1>0, WokenFacts DEF FlowTypes
  <2>5. Sending(stream'[t]) <=> Sending(stream[t])
    BY <2>4 DEF Sending
  <2>6. read'[t] = "live" => read[t] = "live" /\ t \notin T
    BY <2>2, <2>3 DEF FlowOf
  <2> QED BY <2>2, <2>3, <2>4, <2>5, <2>6 DEF FlowOf, EasesOne, Lightens
<1> QED BY <1>1, <1>2 DEF Eased, Eases, Woke

(* A stream goes on at another step, holding no more than before.          *)
LEMMA EasedMove ==
    ASSUME FlowTypes, Flow, NEW t \in Transfer, NEW step \in StreamStep \ {"none", "parked"},
           StreamTo(t, step), UNCHANGED down, read' \in Reads,
           \A u \in Transfer \ {t} : read'[u] = read[u],
           read'[t] \in {read[t], "none"}, read'[t] # "live",
           stream[t].at \notin {"none", "ended"},
           (step \in {"reading", "room"}) <=> Sending(stream[t])
    PROVE  Eased
<1>1. stream' \in Streams /\ stream'[t].hold = stream[t].hold /\ stream'[t].at = step
  BY DEF FlowTypes, Streams, StreamType, StreamTo
<1>2. \A u \in Transfer \ {t} : stream'[u] = stream[u]
  BY DEF FlowTypes, Streams, StreamTo
<1>3. ASSUME NEW u \in Transfer
      PROVE  EasesOne(down[u], stream[u], read[u], down[u], stream'[u], read'[u])
  <2>1. \A d \in DownloadType : d.acked \in Nat
    BY DEF DownloadType
  <2>2. FlowOf(down[u], stream[u], read[u], Size[u]) /\ down[u].acked <= down[u].acked
    BY <2>1, At1 DEF Flow
  <2>3. CASE u = t
    BY <1>1, <2>2, <2>3 DEF FlowOf, EasesOne, Lightens, Sending
  <2>4. CASE u # t
    BY <1>2, <2>2, <2>4 DEF FlowOf, EasesOne, Lightens, Sending
  <2> QED BY <2>3, <2>4
<1>4. Calm
  BY <1>1, <1>2 DEF Calm
<1> QED BY <1>1, <1>3, <1>4 DEF Eased, Eases, FlowTypes
(* The finally of streamDownload; other downloads are at most touched.     *)
LEMMA EasedRelease ==
    ASSUME FlowTypes, Flow, NEW t \in Transfer, NEW step \in {"capacity", "ended"},
           stream[t].at \notin {"none", "ended"}, stream' = Released(t, step),
           down' \in Downloads, read' \in Reads,
           \A u \in Transfer \ {t} : down'[u] = down[u] /\ read'[u] = read[u],
           down'[t].present => down[t].present, down'[t].idle => down'[t].present,
           down'[t].started = down[t].started, down'[t].sent = down[t].sent,
           down'[t].acked = down[t].acked,
           read'[t] # "none" => read[t] # "none", read'[t] # "live",
           read'[t] = "orphan" => ~down'[t].present
    PROVE  Eased
<1>1. step \in StreamStep \ {"parked"}
  BY DEF StreamStep
<1>2. /\ stream' \in Streams /\ stream'[t].hold = 0 /\ stream'[t].at = step
      /\ \A u \in Transfer \ {t} :
            /\ stream'[u].hold = stream[u].hold
            /\ stream'[u].at = IF stream[u].at = "parked" THEN "capacity" ELSE stream[u].at
  BY <1>1, ReleasedFacts DEF FlowTypes
<1>3. ASSUME NEW u \in Transfer
      PROVE  /\ EasesOne(down[u], stream[u], read[u], down'[u], stream'[u], read'[u])
             /\ stream'[u].at # "parked"
  <2>1. \A d \in DownloadType : d.acked \in Nat
    BY DEF DownloadType
  <2>2. FlowOf(down[u], stream[u], read[u], Size[u]) /\ down[u].acked <= down[u].acked
    BY <2>1, At1 DEF Flow
  <2>3. CASE u = t
    BY <1>2, <2>2, <2>3 DEF FlowOf, EasesOne, Lightens, Sending
  <2>4. CASE u # t
    <3>1. down'[u] = down[u] /\ read'[u] = read[u] /\ u \in Transfer \ {t}
      BY <2>4
    <3>2. Sending(stream'[u]) <=> Sending(stream[u])
      BY <1>2, <3>1 DEF Sending
    <3> QED BY <1>2, <2>2, <3>1, <3>2 DEF FlowOf, EasesOne, Lightens
  <2> QED BY <2>3, <2>4
<1> QED BY <1>2, <1>3 DEF Eased, Eases, FlowTypes, Woke

(* abortDownload of one download, with its read as given.                  *)
LEMMA EasedGiveUp ==
    ASSUME FlowTypes, Flow, NEW t \in Transfer, stream[t].at \notin {"none", "ended"},
           stream' = Released(t, "ended"), down' = AbortedDown({t}),
           read' = Abandoned({t}) \/ read' = [read EXCEPT ![t] = "none"]
    PROVE  Eased
<1>1. /\ down' \in Downloads
      /\ \A u \in Transfer \ {t} : down'[u] = down[u]
      /\ ~down'[t].present /\ ~down'[t].idle
      /\ down'[t].started = down[t].started /\ down'[t].sent = down[t].sent
      /\ down'[t].acked = down[t].acked
  <2>1. \A u \in Transfer \ {t} : down'[u] = down[u]
    BY DEF AbortedDown
  <2>2. /\ AbortedDown({t}) \in Downloads
        /\ AbortedDown({t})[t].sent = down[t].sent /\ AbortedDown({t})[t].acked = down[t].acked
        /\ AbortedDown({t})[t].started = down[t].started
        /\ AbortedDown({t})[t].present <=> down[t].present /\ t \notin {t}
        /\ AbortedDown({t})[t].idle <=> down[t].idle /\ t \notin {t}
    BY AbortedFacts DEF FlowTypes
  <2>3. AbortedDown({t})[t] \in DownloadType
    BY <2>2 DEF Downloads
  <2>4. AbortedDown({t})[t].present \in BOOLEAN /\ AbortedDown({t})[t].idle \in BOOLEAN
    BY <2>3 DEF DownloadType
  <2> QED BY <2>1, <2>2, <2>4
<1>2. /\ read' \in Reads /\ \A u \in Transfer \ {t} : read'[u] = read[u]
      /\ read'[t] # "live" /\ (read'[t] # "none" => read[t] # "none")
  <2>1. CASE read' = Abandoned({t})
    <3>1. /\ read' \in Reads
          /\ \A u \in Transfer :
                read'[u] = IF u \in {t} /\ down[u].present /\ read[u] = "live" THEN "orphan" ELSE read[u]
      BY <2>1, AbortedFacts DEF FlowTypes
    <3>2. read[t] = "live" => down[t].present
      BY DEF Flow, FlowOf
    <3> QED BY <3>1, <3>2
  <2>2. CASE read' = [read EXCEPT ![t] = "none"]
    BY <2>2 DEF FlowTypes, Reads
  <2> QED BY <2>1, <2>2
<1>3. "ended" \in {"capacity", "ended"}
  OBVIOUS
<1> QED BY <1>1, <1>2, <1>3, EasedRelease

-----------------------------------------------------------------------------
(* The steps of a stream.                                                  *)

LEMMA EasedFindCapacity ==
    ASSUME FlowTypes, Flow, NEW t \in Transfer, FindCapacity(t)
    PROVE  Eased
<1>1. stream[t].at = "capacity" /\ ~Sending(stream[t]) /\ read[t] # "live"
  BY DEF FindCapacity, StreamAt, Sending, Flow, FlowOf
<1>2. ASSUME NEW step \in {"ended", "plan"}, StreamTo(t, step), UNCHANGED <<down, read>>
      PROVE  Eased
  <2>1. step \in StreamStep \ {"none", "parked"} /\ step \notin {"reading", "room"}
    BY DEF StreamStep
  <2> QED BY <1>1, <1>2, <2>1, EasedMove DEF FlowTypes
<1>3. ASSUME GiveUp(t) PROVE Eased
  BY <1>1, <1>3, EasedGiveUp DEF GiveUp
<1> QED BY <1>2, <1>3 DEF FindCapacity

LEMMA EasedReadSettles ==
    ASSUME FlowTypes, Flow, NEW t \in Transfer, ReadSettles(t)
    PROVE  Eased
<1>1. stream[t].at = "reading" /\ Sending(stream[t])
  BY DEF ReadSettles, StreamAt, Sending
<1>2. CASE StreamTo(t, "room") /\ read' = [read EXCEPT ![t] = "none"] /\ UNCHANGED down
  <2>1. /\ read' \in Reads /\ read'[t] = "none"
        /\ \A u \in Transfer \ {t} : read'[u] = read[u]
    BY <1>2 DEF FlowTypes, Reads
  <2>2. "room" \in StreamStep \ {"none", "parked"}
    BY DEF StreamStep
  <2> QED BY <1>1, <1>2, <2>1, <2>2, EasedMove
<1>3. CASE /\ down' = AbortedDown({t}) /\ read' = [read EXCEPT ![t] = "none"]
           /\ stream' = Released(t, "ended")
  BY <1>1, <1>3, EasedGiveUp
<1> QED BY <1>2, <1>3 DEF ReadSettles

LEMMA EasedReadCancelled ==
    ASSUME FlowTypes, Flow, NEW t \in Transfer, ReadCancelled(t)
    PROVE  Eased
<1>1. /\ stream[t].at = "reading" /\ ~down[t].present
      /\ stream' = Released(t, "ended") /\ down' = down /\ read' = read
  BY DEF ReadCancelled, StreamAt
<1>2. read[t] # "live" /\ ~down[t].idle
  BY <1>1 DEF Flow, FlowOf
<1>3. "ended" \in {"capacity", "ended"}
  OBVIOUS
<1> QED BY <1>1, <1>2, <1>3, EasedRelease DEF FlowTypes

LEMMA EasedSendFrame ==
    ASSUME FlowTypes, Flow, NEW t \in Transfer, SendFrame(t)
    PROVE  Eased
<1>1. stream[t].at = "room" /\ read[t] # "live" /\ stream[t].at \notin {"none", "ended"}
  BY DEF SendFrame, StreamAt, Flow, FlowOf
<1>2. CASE ~down[t].present /\ stream' = Released(t, "ended") /\ UNCHANGED <<down, read>>
  <2>1. ~down[t].idle
    BY <1>2 DEF Flow, FlowOf
  <2>2. "ended" \in {"capacity", "ended"}
    OBVIOUS
  <2> QED BY <1>1, <1>2, <2>1, <2>2, EasedRelease DEF FlowTypes
<1>3. CASE GiveUp(t)
  BY <1>1, <1>3, EasedGiveUp DEF GiveUp
<1>4. CASE /\ down' = [down EXCEPT ![t] = Arm(@)] /\ UNCHANGED read
           /\ stream' = Released(t, IF down[t].sent < Size[t] THEN "capacity" ELSE "ended")
           /\ down[t].present
  <2> DEFINE step == IF down[t].sent < Size[t] THEN "capacity" ELSE "ended"
  <2>1. step \in {"capacity", "ended"} /\ stream' = Released(t, step)
    BY <1>4
  <2> HIDE DEF step
  <2>2. Touched(down[t], Arm(down[t]))
    BY Touches, At1
  <2>3. /\ down' \in Downloads /\ down'[t] = Arm(down[t])
        /\ \A u \in Transfer \ {t} : down'[u] = down[u]
    BY <1>4, <2>2 DEF FlowTypes, Downloads, Touched
  <2>4. /\ down'[t].present = down[t].present
        /\ down'[t].started = down[t].started /\ down'[t].sent = down[t].sent
        /\ down'[t].acked = down[t].acked
        /\ (down'[t].idle => down'[t].present)
    BY <1>4, <2>2, <2>3 DEF Touched
  <2>5. read'[t] # "orphan"
    BY <1>4 DEF Flow, FlowOf
  <2> QED BY <1>1, <1>4, <2>1, <2>3, <2>4, <2>5, EasedRelease DEF FlowTypes
<1> QED BY <1>2, <1>3, <1>4 DEF SendFrame

LEMMA EasedOrphanSettles ==
    ASSUME FlowTypes, Flow, NEW t \in Transfer, OrphanSettles(t)
    PROVE  Eased
<1>1. stream' = Woken(stream) /\ down' = down /\ read' = [read EXCEPT ![t] = "none"]
  BY DEF OrphanSettles
<1>2. /\ read' \in Reads /\ read'[t] = "none"
      /\ \A u \in Transfer \ {t} : read'[u] = read[u]
  BY <1>1 DEF FlowTypes, Reads
<1>3. /\ stream' \in Streams
      /\ \A u \in Transfer :
            /\ stream'[u].hold = stream[u].hold
            /\ stream'[u].at = IF stream[u].at = "parked" THEN "capacity" ELSE stream[u].at
  BY <1>1, WokenFacts DEF FlowTypes
<1>4. ASSUME NEW u \in Transfer
      PROVE  /\ EasesOne(down[u], stream[u], read[u], down'[u], stream'[u], read'[u])
             /\ stream'[u].at # "parked"
  <2>1. \A d \in DownloadType : d.acked \in Nat
    BY DEF DownloadType
  <2>2. FlowOf(down[u], stream[u], read[u], Size[u]) /\ down[u].acked <= down[u].acked
    BY <2>1, At1 DEF Flow
  <2>3. Sending(stream'[u]) <=> Sending(stream[u])
    BY <1>3 DEF Sending
  <2>4. read'[u] \in {read[u], "none"}
    BY <1>2
  <2> QED BY <1>1, <1>3, <2>2, <2>3, <2>4 DEF FlowOf, EasesOne, Lightens
<1> QED BY <1>1, <1>2, <1>3, <1>4 DEF Eased, Eases, FlowTypes, Woke

LEMMA EasedExpire ==
    ASSUME FlowTypes, Flow, NEW t \in Transfer, Expire(t)
    PROVE  Eased
BY EasedAbort DEF Expire
-----------------------------------------------------------------------------
(* The steps of the phone, the control tasks and the page.                 *)

LEMMA TouchOne ==
    ASSUME FlowTypes, NEW t \in Transfer, NEW e, Touched(down[t], e)
    PROVE  /\ [down EXCEPT ![t] = e] \in Downloads
           /\ \A u \in Transfer : Touched(down[u], [down EXCEPT ![t] = e][u])
<1>1. /\ [down EXCEPT ![t] = e] \in Downloads
      /\ [down EXCEPT ![t] = e][t] = e
      /\ \A u \in Transfer \ {t} : [down EXCEPT ![t] = e][u] = down[u]
  BY DEF FlowTypes, Downloads, Touched
<1>2. \A u \in Transfer : Touched(down[u], down[u])
  BY At1, Touches
<1> QED BY <1>1, <1>2

LEMMA EasedTouch ==
    ASSUME FlowTypes, Flow, NEW t \in Transfer, NEW e, Touched(down[t], e),
           down' = [down EXCEPT ![t] = e] \/ down' = down, UNCHANGED <<stream, read>>
    PROVE  Eased
<1>1. CASE down' = [down EXCEPT ![t] = e]
  BY <1>1, TouchOne, EasedTouched
<1>2. CASE down' = down
  BY <1>2, EasedSame
<1> QED BY <1>1, <1>2

LEMMA EasedReceiveRequest ==
    ASSUME FlowTypes, Flow, NEW op, NEW t \in Transfer, ReceiveRequest(op, t)
    PROVE  Eased
<1>1. Touched(down[t], Noted(down[t]))
  BY At1, Touches
<1>2. down' = [down EXCEPT ![t] = Noted(down[t])] \/ down' = down
  BY DEF ReceiveRequest
<1>3. UNCHANGED <<stream, read>>
  BY DEF ReceiveRequest
<1> QED BY <1>1, <1>2, <1>3, EasedTouch

LEMMA EasedAcknowledge ==
    ASSUME DownloadAssumption, FlowTypes, Flow, NEW t \in Transfer, NEW size \in 0 .. Size[t],
           Acknowledge(t, size)
    PROVE  Eased
<1>0. UNCHANGED read
  BY DEF Acknowledge
<1>1. CASE UNCHANGED <<down, stream>>
  BY <1>0, <1>1, EasedSame
<1>2. CASE /\ ~(size < down[t].acked \/ size > down[t].sent)
           /\ down' = [down EXCEPT ![t] = Arm([down[t] EXCEPT !.acked = size])]
           /\ stream' = Woken(stream)
  <2> DEFINE e == [down[t] EXCEPT !.acked = size]
  <2>1. size \in Nat
    BY Sizes
  <2>2. /\ e \in DownloadType /\ e.present = down[t].present /\ e.started = down[t].started
        /\ e.sent = down[t].sent /\ e.acked = size /\ e.idle = down[t].idle
    BY <2>1, At1 DEF DownloadType
  <2>3. down' = [down EXCEPT ![t] = Arm(e)]
    BY <1>2
  <2> HIDE DEF e
  <2>4. Touched(e, Arm(e))
    BY <2>2, Touches
  <2>5. /\ down' \in Downloads /\ down'[t] = Arm(e)
        /\ \A u \in Transfer \ {t} : down'[u] = down[u]
    BY <2>3, <2>4 DEF FlowTypes, Downloads, Touched
  <2>6. /\ stream' \in Streams
        /\ \A u \in Transfer :
              /\ stream'[u].hold = stream[u].hold
              /\ stream'[u].at = IF stream[u].at = "parked" THEN "capacity" ELSE stream[u].at
    BY <1>2, WokenFacts DEF FlowTypes
  <2>7. ASSUME NEW u \in Transfer
        PROVE  /\ EasesOne(down[u], stream[u], read[u], down'[u], stream'[u], read[u])
               /\ stream'[u].at # "parked"
    <3>1. \A d \in DownloadType : d.acked \in Nat /\ d.sent \in Nat
      BY DEF DownloadType
    <3>2. /\ FlowOf(down[u], stream[u], read[u], Size[u]) /\ down[u].acked <= down[u].acked
          /\ down[u].acked \in Nat /\ down[u].sent \in Nat
      BY <3>1, At1 DEF Flow
    <3>3. Sending(stream'[u]) <=> Sending(stream[u])
      BY <2>6 DEF Sending
    <3>4. CASE u = t
      <4>1. /\ down'[t].present = down[t].present /\ down'[t].started = down[t].started
            /\ down'[t].sent = down[t].sent /\ down'[t].acked = size
            /\ (down'[t].idle => down[t].idle \/ down'[t].present)
        BY <2>2, <2>4, <2>5 DEF Touched
      <4>2. down[t].acked <= size /\ size <= down[t].sent
        BY <1>2, <2>1, <3>2, <3>4
      <4> QED BY <2>6, <3>2, <3>3, <3>4, <4>1, <4>2 DEF FlowOf, EasesOne, Lightens
    <3>5. CASE u # t
      <4>1. down'[u] = down[u]
        BY <2>5, <3>5
      <4> QED BY <2>6, <3>2, <3>3, <4>1 DEF FlowOf, EasesOne, Lightens
    <3> QED BY <3>4, <3>5
  <2> QED BY <1>0, <2>5, <2>6, <2>7 DEF Eased, Eases, FlowTypes, Woke
<1> QED BY <1>1, <1>2 DEF Acknowledge

LEMMA EasedFinish ==
    ASSUME FlowTypes, Flow, NEW q \in Queue, FinishDownload(q)
    PROVE  Eased
<1>1. CASE AbortAll({Head1(q).of})
  BY <1>1, EasedAbort
<1>2. CASE UNCHANGED <<down, stream, read>>
  BY <1>2, EasedSame
<1> QED BY <1>1, <1>2 DEF FinishDownload

LEMMA EasedAbortRequest ==
    ASSUME FlowTypes, Flow, NEW q \in Queue, AbortRequest(q)
    PROVE  Eased
<1>1. CASE AbortAll({Head1(q).of})
  BY <1>1, EasedAbort
<1>2. CASE UNCHANGED <<down, stream, read>>
  BY <1>2, EasedSame
<1> QED BY <1>1, <1>2 DEF AbortRequest, Abort

(* The finally of a task only touches its download.                        *)
LEMMA EasedEnd ==
    ASSUME FlowTypes, Flow, NEW q \in Queue, Head1(q).of \in Transfer, EndTask(q, down),
           UNCHANGED <<stream, read>>
    PROVE  Eased
<1> DEFINE t == Head1(q).of
<1>1. Touched(down[t], Completed(down[t]))
  BY At1, Touches
<1>2. down' = [down EXCEPT ![t] = Completed(down[t])] \/ down' = down
  BY DEF EndTask
<1> QED BY <1>1, <1>2, EasedTouch

LEMMA EasedFail ==
    ASSUME FlowTypes, Flow, ctl \in Queues, NEW q \in Queue, Fail(q)
    PROVE  Eased
<1>1. Head1(q).of \in Transfer
  BY HeadFacts DEF Fail, At
<1> QED BY <1>1, EasedEnd DEF Fail

(* Respond, but for the stream it may begin.                               *)
StreamBegins(q) ==
    LET t == Head1(q).of
    IN  /\ Head1(q).op = "start" /\ down[t].present /\ chan.open
        /\ stream' = [stream EXCEPT ![t].at = IF Size[t] > 0 THEN "capacity" ELSE "ended"]

LEMMA EasedRespond ==
    ASSUME FlowTypes, Flow, ctl \in Queues, NEW q \in Queue, Respond(q),
           Head1(q).op = "start" => stream[Head1(q).of].at = "none"
    PROVE  \/ Eased
           \/ StreamBegins(q) /\ UNCHANGED read /\ EndTask(q, down)
<1> DEFINE t == Head1(q).of
<1>1. t \in Transfer
  BY HeadFacts DEF Respond, At
<1>2. CASE Head1(q).op = "begin" /\ EndTask(q, [down EXCEPT ![t] = Arm(@)]) /\ UNCHANGED <<stream, read>>
  <2>1. Touched(down[t], Arm(down[t]))
    BY <1>1, At1, Touches
  <2>2. down' = [down EXCEPT ![t] = Arm(down[t])]
    BY <1>2 DEF EndTask
  <2> QED BY <1>1, <1>2, <2>1, <2>2, EasedTouch
<1>3. CASE EndTask(q, down) /\ UNCHANGED <<stream, read>>
  BY <1>1, <1>3, EasedEnd
<1>4. CASE EndTask(q, AbortedDown({t})) /\ read' = Abandoned({t}) /\ stream' = Woken(stream)
  <2> DEFINE a == AbortedDown({t})
  <2>1. a \in Downloads /\ ~a[t].present
    <3>1. a[t].present <=> down[t].present /\ t \notin {t}
      BY <1>1, AbortedFacts DEF FlowTypes
    <3>2. a \in Downloads /\ a[t] \in DownloadType
      BY <1>1, AbortedFacts DEF FlowTypes, Downloads
    <3> QED BY <3>1, <3>2 DEF DownloadType
  <2>2. down' = a \/ down' = [a EXCEPT ![t] = Completed(@)]
    BY <1>4 DEF EndTask
  <2> HIDE DEF a
  <2>3. Completed(a[t]) = a[t]
    BY <2>1 DEF Completed
  <2>4. down' = a
    BY <2>1, <2>2, <2>3 DEF Downloads
  <2>5. AbortAll({t})
    BY <1>4, <2>4 DEF AbortAll, a
  <2> QED BY <2>5, EasedAbort
<1>5. CASE StreamBegins(q) /\ UNCHANGED read /\ EndTask(q, down)
  BY <1>5
<1> QED BY <1>2, <1>3, <1>4, <1>5 DEF Respond, StreamBegins

LEMMA LighterBegins ==
    ASSUME FlowTypes, Flow, NEW q \in Queue, Head1(q).of \in Transfer,
           stream[Head1(q).of].at = "none",
           StreamBegins(q), UNCHANGED read, EndTask(q, down)
    PROVE  /\ Lighter /\ Calm
           /\ \A t \in Transfer : t # Head1(q).of => stream'[t] = stream[t]
<1> DEFINE t == Head1(q).of
           step == IF Size[t] > 0 THEN "capacity" ELSE "ended"
<1>1. /\ stream' \in Streams /\ stream'[t].hold = stream[t].hold
      /\ stream'[t].at \in {"capacity", "ended"}
      /\ \A u \in Transfer \ {t} : stream'[u] = stream[u]
  <2>1. step \in {"capacity", "ended"} /\ step \in StreamStep
    BY DEF StreamStep
  <2>2. stream' = [stream EXCEPT ![t].at = step]
    BY DEF StreamBegins
  <2> HIDE DEF step
  <2> QED BY <2>1, <2>2 DEF FlowTypes, Streams, StreamType
<1>2. down' \in Downloads /\ \A u \in Transfer : Touched(down[u], down'[u])
  <2>1. Touched(down[t], Completed(down[t]))
    BY At1, Touches
  <2>2. down' = [down EXCEPT ![t] = Completed(down[t])]
    BY DEF EndTask, StreamBegins
  <2> QED BY <2>1, <2>2, TouchOne
<1>3. ASSUME NEW u \in Transfer
      PROVE  /\ Lightens(down[u], stream[u], read[u], down'[u], stream'[u], read[u])
             /\ down'[u].present = down[u].present /\ down'[u].acked = down[u].acked
             /\ stream'[u].hold = stream[u].hold
             /\ stream'[u].at = "parked" => stream[u].at = "parked"
  <2>1. \A d \in DownloadType : d.acked \in Nat
    BY DEF DownloadType
  <2>2. FlowOf(down[u], stream[u], read[u], Size[u]) /\ down[u].acked <= down[u].acked
    BY <2>1, At1 DEF Flow
  <2>3. Touched(down[u], down'[u])
    BY <1>2
  <2>4. CASE u = t
    BY <1>1, <2>2, <2>3, <2>4 DEF FlowOf, Lightens, Touched, Sending
  <2>5. CASE u # t
    BY <1>1, <2>2, <2>3, <2>5 DEF FlowOf, Lightens, Touched, Sending
  <2> QED BY <2>4, <2>5
<1> QED BY <1>1, <1>2, <1>3 DEF Lighter, Calm, FlowTypes
-----------------------------------------------------------------------------
(* What a step that only eases the flow keeps.                             *)

WindowsOf(ds) == \A c \in BOOLEAN : Total(UnackOf(ds), Of(c)) <= ClassWindow(c)

BudgetOf(ss) ==
    /\ Total(HoldsOf(ss), Of(FALSE)) <= BufferData
    /\ Total(HoldsOf(ss), Transfer) <= BufferTotal

LEMMA LighterFlow ==
    ASSUME FlowTypes, Flow, Lighter
    PROVE  Flow'
<1>1. ASSUME NEW t \in Transfer
      PROVE  FlowOf(down'[t], stream'[t], read'[t], Size[t])
  <2>1. FlowOf(down[t], stream[t], read[t], Size[t])
    BY DEF Flow
  <2>2. Lightens(down[t], stream[t], read[t], down'[t], stream'[t], read'[t])
    BY DEF Lighter
  <2> QED BY <2>1, <2>2 DEF FlowOf, Lightens
<1> QED BY <1>1 DEF Flow

LEMMA LighterWindows ==
    ASSUME DownloadAssumption, FlowTypes, Flow, Lighter, WindowsOf(down)
    PROVE  WindowsOf(down')
<1>0. down \in Downloads /\ down' \in Downloads
  BY DEF FlowTypes, Lighter
<1>1. ASSUME NEW t \in Transfer
      PROVE  /\ UnackOf(down')[t] \in Int /\ UnackOf(down)[t] \in Int
             /\ UnackOf(down')[t] <= UnackOf(down)[t]
  <2>1. \A d \in DownloadType : d.acked \in Nat /\ d.sent \in Nat
    BY DEF DownloadType
  <2>2. /\ down[t].acked \in Nat /\ down[t].sent \in Nat /\ down'[t].acked \in Nat
        /\ down'[t].sent \in Nat
    BY <1>0, <2>1 DEF Downloads
  <2>3. /\ down'[t].present => down[t].present
        /\ down'[t].sent = down[t].sent /\ down[t].acked <= down'[t].acked
        /\ down[t].acked <= down[t].sent
    BY DEF Lighter, Lightens, Flow, FlowOf
  <2>4. /\ UnackOf(down)[t] = IF down[t].present THEN down[t].sent - down[t].acked ELSE 0
        /\ UnackOf(down')[t] = IF down'[t].present THEN down'[t].sent - down'[t].acked ELSE 0
    BY DEF UnackOf
  <2> QED BY <2>2, <2>3, <2>4
<1>2. ASSUME NEW c \in BOOLEAN
      PROVE  Total(UnackOf(down'), Of(c)) <= ClassWindow(c)
  <2>1. IsFiniteSet(Of(c)) /\ \A t \in Of(c) : t \in Transfer
    BY Finite
  <2>2. Total(UnackOf(down'), Of(c)) <= Total(UnackOf(down), Of(c))
    BY <1>1, <2>1, TotalMonotone
  <2>3. Total(UnackOf(down'), Of(c)) \in Int /\ Total(UnackOf(down), Of(c)) \in Int
    BY <1>0, UnackFacts
  <2> QED BY <2>2, <2>3, Sizes DEF WindowsOf
<1> QED BY <1>2 DEF WindowsOf

LEMMA LighterBudget ==
    ASSUME DownloadAssumption, FlowTypes, Flow, Lighter, BudgetOf(stream)
    PROVE  BudgetOf(stream')
<1>0. stream \in Streams /\ stream' \in Streams
  BY DEF FlowTypes, Lighter
<1>1. ASSUME NEW t \in Transfer
      PROVE  /\ HoldsOf(stream')[t] \in Int /\ HoldsOf(stream)[t] \in Int
             /\ HoldsOf(stream')[t] <= HoldsOf(stream)[t]
  <2>1. /\ stream[t].hold \in Nat /\ stream'[t].hold \in Nat
        /\ HoldsOf(stream)[t] = stream[t].hold /\ HoldsOf(stream')[t] = stream'[t].hold
    BY <1>0, HoldFacts
  <2>2. stream'[t].hold = stream[t].hold \/ stream'[t].hold = 0
    BY DEF Lighter, Lightens
  <2> QED BY <2>1, <2>2
<1>2. ASSUME NEW S \in SUBSET Transfer
      PROVE  Total(HoldsOf(stream'), S) <= Total(HoldsOf(stream), S)
  BY <1>1, Finite, FS_Subset, TotalMonotone
<1>3. /\ Total(HoldsOf(stream'), Of(FALSE)) <= Total(HoldsOf(stream), Of(FALSE))
      /\ Total(HoldsOf(stream'), Transfer) <= Total(HoldsOf(stream), Transfer)
  BY <1>2, Finite
<1>4. /\ Total(HoldsOf(stream'), Of(FALSE)) \in Nat /\ Total(HoldsOf(stream), Of(FALSE)) \in Nat
      /\ Total(HoldsOf(stream'), Transfer) \in Nat /\ Total(HoldsOf(stream), Transfer) \in Nat
  BY <1>0, HoldFacts
<1>5. BufferData \in Nat /\ BufferTotal \in Nat
  BY Sizes
<1>6. Total(HoldsOf(stream), Of(FALSE)) <= BufferData /\ Total(HoldsOf(stream), Transfer) <= BufferTotal
  BY DEF BudgetOf
<1>7. \A a, b, c \in Nat : a <= b /\ b <= c => a <= c
  OBVIOUS
<1>8. Total(HoldsOf(stream'), Of(FALSE)) <= BufferData /\ Total(HoldsOf(stream'), Transfer) <= BufferTotal
  BY <1>3, <1>4, <1>5, <1>6, <1>7, Zenon
<1> QED BY <1>8 DEF BudgetOf

(* The reads of a class.  Started says that the file of a transfer may be  *)
(* read: the download has started, or an abandoned read goes on.           *)
ActiveIn(ds, c) == {t \in Transfer : ds[t].present /\ Control(t) = c}

MayRead(ds, rs, c) ==
    {t \in Of(c) : (ds[t].present /\ ds[t].started) \/ rs[t] = "orphan"}

SlotsOf(ds, rs) ==
    \A c \in BOOLEAN : /\ Cardinality(ActiveIn(ds, c)) <= Limit(c)
                       /\ Cardinality(MayRead(ds, rs, c)) <= Limit(c)

ReadsStarted == \A t \in Transfer : read[t] # "none" => down[t].started

LEMMA Fewer ==
    ASSUME DownloadAssumption, NEW S, NEW R \in SUBSET Transfer, S \subseteq R,
           NEW c \in BOOLEAN, Cardinality(R) <= Limit(c)
    PROVE  Cardinality(S) <= Limit(c)
<1>1. IsFiniteSet(R) /\ IsFiniteSet(S)
  BY Finite, FS_Subset
<1>2. Cardinality(S) <= Cardinality(R) /\ Cardinality(S) \in Nat /\ Cardinality(R) \in Nat
  BY <1>1, FS_Subset, FS_CardinalityType
<1> QED BY <1>2, Sizes

LEMMA LighterSlots ==
    ASSUME DownloadAssumption, FlowTypes, Flow, ReadsStarted, Lighter, SlotsOf(down, read)
    PROVE  SlotsOf(down', read') /\ ReadsStarted'
<1>1. ASSUME NEW t \in Transfer
      PROVE  /\ down'[t].present => down[t].present
             /\ down'[t].started = down[t].started
             /\ read'[t] = "orphan" => (down[t].present /\ down[t].started) \/ read[t] = "orphan"
             /\ read'[t] # "none" => read[t] # "none"
  <2>1. read'[t] # "none" => read[t] # "none"
    BY DEF Lighter, Lightens
  <2>2. read[t] = "live" => down[t].present /\ down[t].started
    BY DEF Flow, FlowOf, ReadsStarted
  <2>3. read[t] \in {"none", "live", "orphan"}
    BY At1
  <2> QED BY <2>1, <2>2, <2>3 DEF Lighter, Lightens
<1>2. ASSUME NEW c \in BOOLEAN
      PROVE  /\ Cardinality(ActiveIn(down', c)) <= Limit(c)
             /\ Cardinality(MayRead(down', read', c)) <= Limit(c)
  <2>1. /\ ActiveIn(down', c) \subseteq ActiveIn(down, c)
        /\ ActiveIn(down, c) \in SUBSET Transfer
    BY <1>1 DEF ActiveIn
  <2>2. /\ MayRead(down', read', c) \subseteq MayRead(down, read, c)
        /\ MayRead(down, read, c) \in SUBSET Transfer
    BY <1>1 DEF MayRead, Of
  <2> QED BY <2>1, <2>2, Fewer DEF SlotsOf
<1>3. ReadsStarted'
  BY <1>1 DEF ReadsStarted
<1> QED BY <1>2, <1>3 DEF SlotsOf
-----------------------------------------------------------------------------
(* The requests: each is sent, and so queued, once; what the phone may ask *)
(* of a download it learnt from the answer to its begin.                   *)

Pending(c, op, t, S) ==
    \E q \in Queue : \E i \in 1 .. Len(c[q]) :
        c[q][i].op = op /\ c[q][i].of = t /\ c[q][i].step \in S

Once(c) ==
    \A q, r \in Queue : \A i \in 1 .. Len(c[q]), j \in 1 .. Len(c[r]) :
        c[q][i].op = c[r][j].op /\ c[q][i].of = c[r][j].of => q = r /\ i = j

LEMMA HeadPending ==
    ASSUME ctl \in Queues, NEW q \in Queue, ctl[q] # << >>, NEW S, Head1(q).step \in S
    PROVE  Pending(ctl, Head1(q).op, Head1(q).of, S)
BY HeadFacts DEF Pending, Head1

LEMMA PendingMore ==
    ASSUME NEW c, NEW op, NEW t, NEW S, NEW R, S \subseteq R, Pending(c, op, t, S)
    PROVE  Pending(c, op, t, R)
BY DEF Pending

LEMMA PendingAdded ==
    ASSUME ctl \in Queues, Once(ctl), NEW q \in Queue, NEW k \in TaskType,
           ~Pending(ctl, k.op, k.of, TaskStep)
    PROVE  /\ Once(Added(q, k))
           /\ \A op, t, S : Pending(Added(q, k), op, t, S) =>
                 Pending(ctl, op, t, S) \/ (op = k.op /\ t = k.of /\ k.step \in S)
<1> DEFINE c == Added(q, k)
           n == Len(ctl[q]) + 1
<1>1. /\ n \in Nat /\ n >= 1 /\ Len(ctl[q]) \in Nat /\ Len(c[q]) = n /\ c[q][n] = k
      /\ \A i \in 1 .. n : i # n => i \in 1 .. Len(ctl[q]) /\ c[q][i] = ctl[q][i]
      /\ \A r \in Queue \ {q} : c[r] = ctl[r]
  BY AddedFacts
<1> HIDE DEF c, n
<1>2. ASSUME NEW r \in Queue, NEW i \in 1 .. Len(c[r])
      PROVE  \/ r = q /\ i = n /\ c[r][i] = k
             \/ ~(r = q /\ i = n) /\ i \in 1 .. Len(ctl[r]) /\ c[r][i] = ctl[r][i]
  <2>1. CASE r = q
    BY <1>1, <1>2, <2>1
  <2>2. CASE r # q
    BY <1>1, <1>2, <2>2
  <2> QED BY <2>1, <2>2
<1>3. ASSUME NEW r \in Queue, NEW i \in 1 .. Len(ctl[r])
      PROVE  ~(ctl[r][i].op = k.op /\ ctl[r][i].of = k.of)
  <2>1. ctl[r][i].step \in TaskStep
    <3>1. ctl[r] \in Seq(TaskType)
      BY DEF Queues
    <3>2. ctl[r][i] \in TaskType
      BY <3>1
    <3> QED BY <3>2 DEF TaskType
  <2> QED BY <2>1 DEF Pending
<1>4. Once(c)
  <2> SUFFICES ASSUME NEW r \in Queue, NEW s \in Queue, NEW i \in 1 .. Len(c[r]),
                      NEW j \in 1 .. Len(c[s]),
                      c[r][i].op = c[s][j].op, c[r][i].of = c[s][j].of
               PROVE  r = s /\ i = j
    BY DEF Once
  <2>1. CASE r = q /\ i = n /\ c[r][i] = k
    <3>1. s = q /\ j = n
      BY <1>2, <1>3, <2>1
    <3> QED BY <2>1, <3>1
  <2>2. CASE i \in 1 .. Len(ctl[r]) /\ c[r][i] = ctl[r][i]
    <3>1. j \in 1 .. Len(ctl[s]) /\ c[s][j] = ctl[s][j]
      BY <1>2, <1>3, <2>2
    <3> QED BY <2>2, <3>1 DEF Once
  <2> QED BY <1>2, <2>1, <2>2
<1>5. ASSUME NEW op, NEW t, NEW S, Pending(c, op, t, S)
      PROVE  Pending(ctl, op, t, S) \/ (op = k.op /\ t = k.of /\ k.step \in S)
  <2>0. PICK r \in Queue : \E i \in 1 .. Len(c[r]) :
           c[r][i].op = op /\ c[r][i].of = t /\ c[r][i].step \in S
    BY <1>5 DEF Pending
  <2>1. PICK i \in 1 .. Len(c[r]) : c[r][i].op = op /\ c[r][i].of = t /\ c[r][i].step \in S
    BY <2>0
  <2>2. CASE r = q /\ i = n /\ c[r][i] = k
    BY <2>1, <2>2
  <2>3. CASE i \in 1 .. Len(ctl[r]) /\ c[r][i] = ctl[r][i]
    BY <2>1, <2>3 DEF Pending
  <2> QED BY <1>2, <2>2, <2>3
<1> QED BY <1>4, <1>5 DEF c

LEMMA PendingStepped ==
    ASSUME ctl \in Queues, Once(ctl), NEW q \in Queue, ctl[q] # << >>, NEW step \in TaskStep
    PROVE  /\ Once(Stepped(q, step))
           /\ \A op, t, S : Pending(Stepped(q, step), op, t, S) =>
                 IF op = Head1(q).op /\ t = Head1(q).of THEN step \in S ELSE Pending(ctl, op, t, S)
<1> DEFINE c == Stepped(q, step)
<1>1. /\ 1 \in 1 .. Len(ctl[q]) /\ Len(c[q]) = Len(ctl[q]) /\ Len(ctl[q]) \in Nat
      /\ c[q][1].op = ctl[q][1].op /\ c[q][1].of = ctl[q][1].of /\ c[q][1].step = step
      /\ \A i \in 2 .. Len(ctl[q]) : c[q][i] = ctl[q][i]
      /\ \A r \in Queue \ {q} : c[r] = ctl[r]
  BY SteppedFacts, HeadFacts DEF Head1
<1> HIDE DEF c
<1>2. ASSUME NEW r \in Queue, NEW i \in 1 .. Len(c[r])
      PROVE  /\ i \in 1 .. Len(ctl[r]) /\ c[r][i].op = ctl[r][i].op /\ c[r][i].of = ctl[r][i].of
             /\ IF r = q /\ i = 1 THEN c[r][i].step = step ELSE c[r][i] = ctl[r][i]
  <2>1. CASE r = q
    BY <1>1, <1>2, <2>1
  <2>2. CASE r # q
    BY <1>1, <1>2, <2>2
  <2> QED BY <2>1, <2>2
<1>3. Once(c)
  BY <1>2 DEF Once
<1>4. ASSUME NEW op, NEW t, NEW S, Pending(c, op, t, S)
      PROVE  IF op = Head1(q).op /\ t = Head1(q).of THEN step \in S ELSE Pending(ctl, op, t, S)
  <2>0. PICK r \in Queue : \E i \in 1 .. Len(c[r]) :
           c[r][i].op = op /\ c[r][i].of = t /\ c[r][i].step \in S
    BY <1>4 DEF Pending
  <2>1. PICK i \in 1 .. Len(c[r]) : c[r][i].op = op /\ c[r][i].of = t /\ c[r][i].step \in S
    BY <2>0
  <2>2. CASE r = q /\ i = 1
    <3>1. op = ctl[q][1].op /\ t = ctl[q][1].of /\ step \in S
      BY <1>2, <2>1, <2>2
    <3> QED BY <3>1 DEF Head1
  <2>3. CASE ~(r = q /\ i = 1)
    <3>1. i \in 1 .. Len(ctl[r]) /\ c[r][i] = ctl[r][i]
      BY <1>2, <2>3
    <3>2. Pending(ctl, op, t, S)
      BY <2>1, <3>1 DEF Pending
    <3>3. ~(op = Head1(q).op /\ t = Head1(q).of)
      BY <1>1, <2>1, <2>3, <3>1 DEF Once, Head1
    <3> QED BY <3>2, <3>3
  <2> QED BY <2>2, <2>3
<1> QED BY <1>3, <1>4 DEF c

LEMMA PendingDropped ==
    ASSUME ctl \in Queues, Once(ctl), NEW q \in Queue, ctl[q] # << >>
    PROVE  /\ Once(Dropped(q))
           /\ \A op, t, S : Pending(Dropped(q), op, t, S) =>
                 Pending(ctl, op, t, S) /\ ~(op = Head1(q).op /\ t = Head1(q).of)
<1> DEFINE c == Dropped(q)
           To1(r, i) == IF r = q THEN i + 1 ELSE i
<1>1. /\ 1 \in 1 .. Len(ctl[q]) /\ Len(ctl[q]) \in Nat /\ Len(c[q]) = Len(ctl[q]) - 1
      /\ \A i \in 1 .. Len(ctl[q]) - 1 : c[q][i] = ctl[q][i + 1]
      /\ \A r \in Queue \ {q} : c[r] = ctl[r]
  BY DroppedFacts, HeadFacts
<1> HIDE DEF c
<1>2. ASSUME NEW r \in Queue, NEW i \in 1 .. Len(c[r])
      PROVE  /\ i \in Int /\ To1(r, i) \in 1 .. Len(ctl[r]) /\ c[r][i] = ctl[r][To1(r, i)]
             /\ ~(r = q /\ To1(r, i) = 1)
  <2>1. CASE r = q
    BY <1>1, <1>2, <2>1
  <2>2. CASE r # q
    BY <1>1, <1>2, <2>2
  <2> QED BY <2>1, <2>2
<1>3. Once(c)
  <2> SUFFICES ASSUME NEW r \in Queue, NEW s \in Queue, NEW i \in 1 .. Len(c[r]),
                      NEW j \in 1 .. Len(c[s]),
                      c[r][i].op = c[s][j].op, c[r][i].of = c[s][j].of
               PROVE  r = s /\ i = j
    BY DEF Once
  <2>0. \A m \in 1 .. Len(ctl[r]), n \in 1 .. Len(ctl[s]) :
           ctl[r][m].op = ctl[s][n].op /\ ctl[r][m].of = ctl[s][n].of => r = s /\ m = n
    BY DEF Once
  <2>1. r = s /\ To1(r, i) = To1(s, j)
    <3>1. PICK m \in 1 .. Len(ctl[r]) : m = To1(r, i) /\ c[r][i] = ctl[r][m]
      BY <1>2
    <3>2. PICK n \in 1 .. Len(ctl[s]) : n = To1(s, j) /\ c[s][j] = ctl[s][n]
      BY <1>2
    <3> HIDE DEF To1
    <3>3. r = s /\ m = n
      BY <2>0, <3>1, <3>2
    <3> QED BY <3>1, <3>2, <3>3
  <2>2. i \in Int /\ j \in Int
    BY <1>2
  <2> QED BY <2>1, <2>2
<1>4. ASSUME NEW op, NEW t, NEW S, Pending(c, op, t, S)
      PROVE  Pending(ctl, op, t, S) /\ ~(op = Head1(q).op /\ t = Head1(q).of)
  <2>0. PICK r \in Queue : \E i \in 1 .. Len(c[r]) :
           c[r][i].op = op /\ c[r][i].of = t /\ c[r][i].step \in S
    BY <1>4 DEF Pending
  <2>1. PICK i \in 1 .. Len(c[r]) : c[r][i].op = op /\ c[r][i].of = t /\ c[r][i].step \in S
    BY <2>0
  <2>2. To1(r, i) \in 1 .. Len(ctl[r]) /\ c[r][i] = ctl[r][To1(r, i)] /\ ~(r = q /\ To1(r, i) = 1)
    BY <1>2
  <2> HIDE DEF To1
  <2>3. Pending(ctl, op, t, S)
    BY <2>1, <2>2 DEF Pending
  <2>4. ~(op = Head1(q).op /\ t = Head1(q).of)
    BY <1>1, <2>1, <2>2 DEF Once, Head1
  <2> QED BY <2>3, <2>4
<1> QED BY <1>3, <1>4 DEF c
-----------------------------------------------------------------------------
(* The books: what the queues, the phone and a transfer know of each other *)

BookAt(c, ph, d, s, r, t) ==
    /\ \A op : Pending(c, op, t, TaskStep) => <<op, t>> \in ph.sent
    /\ \A op : Pending(c, op, t, {"file"}) => op = "begin"
    /\ Pending(c, "begin", t, TaskStep) => t \notin ph.told
    /\ Pending(c, "begin", t, {"queued", "file"}) => ~d.present
    /\ Pending(c, "start", t, TaskStep) => s.at = "none"
    /\ Pending(c, "start", t, {"respond"}) => d.started
    /\ \A op : <<op, t>> \in ph.sent /\ op # "begin" => t \in ph.told
    /\ t \in ph.told => <<"begin", t>> \in ph.sent
    /\ d.started => <<"start", t>> \in ph.sent
    /\ s.at # "none" => d.started
    /\ r # "none" => d.started
    /\ <<"begin", t>> \notin ph.sent => ~d.present

Book ==
    /\ Once(ctl)
    /\ \A t \in Transfer : BookAt(ctl, phone, down[t], stream[t], read[t], t)

(* How a step may move a transfer, the queues and what the phone knows.    *)
Follows(t) ==
    /\ \/ down'[t].present => down[t].present
       \/ ~Pending(ctl', "begin", t, {"queued", "file"}) /\ <<"begin", t>> \in phone.sent
    /\ down[t].started => down'[t].started
    /\ down'[t].started => down[t].started \/ <<"start", t>> \in phone.sent
    /\ stream'[t].at # "none" => stream[t].at # "none" \/ down[t].started
    /\ stream[t].at = "none" => stream'[t].at = "none" \/ ~Pending(ctl', "start", t, TaskStep)
    /\ read'[t] # "none" => read[t] # "none" \/ stream[t].at # "none"

Queued(t) ==
    /\ \A op : Pending(ctl', op, t, TaskStep) => Pending(ctl, op, t, TaskStep)
    /\ \A op : Pending(ctl', op, t, {"file"}) => op = "begin"
    /\ Pending(ctl', "begin", t, {"queued", "file"}) => Pending(ctl, "begin", t, {"queued", "file"})
    /\ Pending(ctl', "start", t, {"respond"}) =>
          Pending(ctl, "start", t, {"respond"}) \/ down'[t].started

Told(t) ==
    /\ t \in phone.told => t \in phone'.told
    /\ t \in phone'.told =>
          t \in phone.told \/ (~Pending(ctl', "begin", t, TaskStep) /\ <<"begin", t>> \in phone.sent)

LEMMA BookKept ==
    ASSUME Book, Once(ctl'), phone'.sent = phone.sent,
           \A t \in Transfer : Follows(t) /\ Queued(t) /\ Told(t)
    PROVE  Book'
<1>1. ASSUME NEW t \in Transfer
      PROVE  BookAt(ctl', phone', down'[t], stream'[t], read'[t], t)
  <2>1. BookAt(ctl, phone, down[t], stream[t], read[t], t)
    BY DEF Book
  <2>2. Follows(t) /\ Queued(t) /\ Told(t) /\ phone'.sent = phone.sent
    OBVIOUS
  <2>3. /\ \A op : Pending(ctl', op, t, TaskStep) => <<op, t>> \in phone'.sent
        /\ \A op : Pending(ctl', op, t, {"file"}) => op = "begin"
        /\ \A op : <<op, t>> \in phone'.sent /\ op # "begin" => t \in phone'.told
        /\ t \in phone'.told => <<"begin", t>> \in phone'.sent
    BY <2>1, <2>2 DEF BookAt, Queued, Told
  <2>4. Pending(ctl', "begin", t, TaskStep) => t \notin phone'.told
    BY <2>1, <2>2 DEF BookAt, Queued, Told
  <2>5. Pending(ctl', "begin", t, {"queued", "file"}) => ~down'[t].present
    BY <2>1, <2>2 DEF BookAt, Queued, Follows
  <2>6. Pending(ctl', "start", t, TaskStep) => stream'[t].at = "none"
    BY <2>1, <2>2 DEF BookAt, Queued, Follows
  <2>7. Pending(ctl', "start", t, {"respond"}) => down'[t].started
    BY <2>1, <2>2 DEF BookAt, Queued, Follows
  <2>8. /\ down'[t].started => <<"start", t>> \in phone'.sent
        /\ stream'[t].at # "none" => down'[t].started
        /\ read'[t] # "none" => down'[t].started
        /\ <<"begin", t>> \notin phone'.sent => ~down'[t].present
    BY <2>1, <2>2 DEF BookAt, Follows
  <2> QED BY <2>3, <2>4, <2>5, <2>6, <2>7, <2>8 DEF BookAt
<1> QED BY <1>1 DEF Book

LEMMA EasedFollows ==
    ASSUME Eased, Book, NEW t \in Transfer
    PROVE  Follows(t)
BY DEF Eased, Eases, EasesOne, Lightens, Follows, Book, BookAt

(* The task at the head of a queue goes on at another step.                *)
LEMMA QueueStepped ==
    ASSUME ctl \in Queues, Book, NEW q \in Queue, ctl[q] # << >>,
           NEW step \in TaskStep \ {"queued"}, ctl' = Stepped(q, step),
           step = "file" => Head1(q).op = "begin" /\ Head1(q).step = "queued",
           step = "respond" /\ Head1(q).op = "start" => down'[Head1(q).of].started
    PROVE  /\ ctl' \in Queues /\ Once(ctl')
           /\ \A t \in Transfer : Queued(t)
           /\ step # "file" => ~Pending(ctl', Head1(q).op, Head1(q).of, {"queued", "file"})
<1>1. /\ Once(ctl') /\ ctl' \in Queues
      /\ \A op, t, S : Pending(ctl', op, t, S) =>
            IF op = Head1(q).op /\ t = Head1(q).of THEN step \in S ELSE Pending(ctl, op, t, S)
  BY PendingStepped, SteppedFacts DEF Book
<1>2. Pending(ctl, Head1(q).op, Head1(q).of, TaskStep)
  BY HeadPending, HeadFacts
<1>3. step = "file" => Pending(ctl, "begin", Head1(q).of, {"queued", "file"})
  BY HeadPending
<1>4. ASSUME NEW t \in Transfer PROVE Queued(t)
  <2>0. BookAt(ctl, phone, down[t], stream[t], read[t], t)
    BY DEF Book
  <2>1. \A op : Pending(ctl', op, t, TaskStep) => Pending(ctl, op, t, TaskStep)
    BY <1>1, <1>2
  <2>2. \A op : Pending(ctl', op, t, {"file"}) => op = "begin"
    BY <1>1, <2>0 DEF BookAt
  <2>3. Pending(ctl', "begin", t, {"queued", "file"}) => Pending(ctl, "begin", t, {"queued", "file"})
    BY <1>1, <1>3
  <2>4. Pending(ctl', "start", t, {"respond"}) =>
           Pending(ctl, "start", t, {"respond"}) \/ down'[t].started
    BY <1>1
  <2> QED BY <2>1, <2>2, <2>3, <2>4 DEF Queued
<1>5. step # "file" => ~Pending(ctl', Head1(q).op, Head1(q).of, {"queued", "file"})
  BY <1>1
<1> QED BY <1>1, <1>4, <1>5

LEMMA QueueDropped ==
    ASSUME ctl \in Queues, Book, NEW q \in Queue, ctl[q] # << >>, ctl' = Dropped(q)
    PROVE  /\ ctl' \in Queues /\ Once(ctl')
           /\ \A t \in Transfer : Queued(t)
           /\ ~Pending(ctl', Head1(q).op, Head1(q).of, TaskStep)
<1>1. /\ Once(ctl') /\ ctl' \in Queues
      /\ \A op, t, S : Pending(ctl', op, t, S) =>
            Pending(ctl, op, t, S) /\ ~(op = Head1(q).op /\ t = Head1(q).of)
  BY PendingDropped, DroppedFacts DEF Book
<1>2. ASSUME NEW t \in Transfer PROVE Queued(t)
  <2>1. BookAt(ctl, phone, down[t], stream[t], read[t], t)
    BY DEF Book
  <2> QED BY <1>1, <2>1 DEF Queued, BookAt
<1>3. ~Pending(ctl', Head1(q).op, Head1(q).of, TaskStep)
  BY <1>1
<1> QED BY <1>1, <1>2, <1>3

LEMMA QueueSame ==
    ASSUME Book, ctl' = ctl
    PROVE  Once(ctl') /\ \A t \in Transfer : Queued(t)
BY DEF Book, BookAt, Queued
-----------------------------------------------------------------------------
(* Why streams wait, and how far quiescence is.                            *)

ReasonsOf(ds, ss) ==
    \A t \in Transfer : ss[t].at = "parked" /\ ds[t].present =>
        NextOf(ds, t) = 0 \/ Total(HoldsOf(ss), Transfer) > 0

Staged ==
    /\ stage \in {"lockQueue", "tasks", "reads", "quiet"} => ctl["queue"] = << >>
    /\ stage \in {"tasks", "reads", "quiet"} =>
          ctl["lockQueue"] = << >> /\ \A t \in Transfer : ~down[t].present
    /\ stage \in {"reads", "quiet"} => TasksEnded
    /\ stage = "quiet" => \A t \in Transfer : read[t] # "orphan"

Rest ==
    /\ ctl \in Queues
    /\ chan \in [open : BOOLEAN, buffered : Nat]
    /\ stage \in Stages
    /\ phone \in [sent : SUBSET Requests, told : SUBSET Transfer]

Inv ==
    /\ FlowTypes /\ Rest
    /\ Flow /\ Book
    /\ WindowsOf(down) /\ BudgetOf(stream) /\ SlotsOf(down, read)
    /\ ReasonsOf(down, stream)
    /\ Staged

LEMMA CalmReasons ==
    ASSUME DownloadAssumption, FlowTypes, Lighter, Woke \/ Calm, ReasonsOf(down, stream)
    PROVE  ReasonsOf(down', stream')
<1>1. CASE Woke
  BY <1>1 DEF Woke, ReasonsOf
<1>2. CASE Calm
  <2>1. UnackOf(down') = UnackOf(down)
    BY <1>2 DEF Calm, Lighter, Lightens, UnackOf
  <2>2. HoldsOf(stream') = HoldsOf(stream)
    BY <1>2 DEF Calm, HoldsOf
  <2>3. ASSUME NEW t \in Transfer PROVE NextOf(down', t) = NextOf(down, t)
    <3>1. down'[t].sent = down[t].sent
      BY DEF Lighter, Lightens
    <3> QED BY <2>1, <3>1 DEF NextOf
  <2>4. \A t \in Transfer : /\ down'[t].present = down[t].present
                            /\ stream'[t].at = "parked" => stream[t].at = "parked"
    BY <1>2 DEF Calm
  <2> QED BY <2>2, <2>3, <2>4 DEF ReasonsOf
<1> QED BY <1>1, <1>2

LEMMA BookReads ==
    ASSUME Book
    PROVE  ReadsStarted
BY DEF Book, BookAt, ReadsStarted

LEMMA LighterInv ==
    ASSUME DownloadAssumption, Inv, Lighter, Woke \/ Calm, Rest', Book', Staged'
    PROVE  Inv'
<1>1. FlowTypes'
  BY DEF Lighter
<1>2. Flow'
  BY LighterFlow DEF Inv
<1>3. WindowsOf(down') /\ BudgetOf(stream') /\ SlotsOf(down', read')
  BY LighterWindows, LighterBudget, LighterSlots, BookReads DEF Inv
<1>4. ReasonsOf(down', stream')
  BY CalmReasons DEF Inv
<1> QED BY <1>1, <1>2, <1>3, <1>4 DEF Inv

LEMMA EasedInv ==
    ASSUME DownloadAssumption, Inv, Eased, Rest', Book', Staged'
    PROVE  Inv'
<1>1. Lighter /\ (Woke \/ Calm)
  BY DEF Eased, Eases, EasesOne, Lighter
<1> QED BY <1>1, LighterInv

LEMMA StagedControl ==
    ASSUME Staged, NEW q \in Queue, ctl[q] # << >>,
           \A r \in Queue \ {q} : ctl'[r] = ctl[r], stage' = stage
    PROVE  Staged'
<1>1. stage \notin {"tasks", "reads", "quiet"}
  BY DEF Staged, Queue
<1>2. stage = "lockQueue" => q = "lockQueue" /\ ctl'["queue"] = << >>
  BY DEF Staged, Queue
<1> QED BY <1>1, <1>2 DEF Staged

LEMMA StagedFlow ==
    ASSUME FlowTypes, Flow, Staged, Eased, ctl' = ctl, stage' = stage
    PROVE  Staged'
<1>1. ASSUME NEW t \in Transfer
      PROVE  /\ down'[t].present => down[t].present
             /\ stream[t].at \in {"none", "ended"} => stream'[t].at \in {"none", "ended"}
             /\ stream[t].at \in {"none", "ended"} /\ read[t] # "orphan" => read'[t] # "orphan"
  <2>1. read[t] = "live" => stream[t].at = "reading"
    BY DEF Flow, FlowOf
  <2>2. EasesOne(down[t], stream[t], read[t], down'[t], stream'[t], read'[t])
    BY DEF Eased, Eases
  <2>3. read[t] \in {"none", "live", "orphan"}
    BY At1
  <2> QED BY <2>1, <2>2, <2>3 DEF EasesOne, Lightens
<1>2. TasksEnded => TasksEnded'
  BY <1>1 DEF TasksEnded
<1>3. TasksEnded /\ (\A t \in Transfer : read[t] # "orphan") => \A t \in Transfer : read'[t] # "orphan"
  BY <1>1 DEF TasksEnded
<1>4. (\A t \in Transfer : ~down[t].present) => \A t \in Transfer : ~down'[t].present
  BY <1>1
<1> QED BY <1>2, <1>3, <1>4 DEF Staged

(* A step that eases the flow and leaves queues, stage and phone alone.    *)
LEMMA FlowStep ==
    ASSUME DownloadAssumption, Inv, Eased, ctl' = ctl, phone' = phone,
           chan' \in [open : BOOLEAN, buffered : Nat],
           stage' = stage \/ (stage' \in Stages /\ Staged')
    PROVE  Inv'
<1>1. Rest'
  BY DEF Inv, Rest
<1>2. Book'
  <2>1. \A t \in Transfer : Told(t)
    BY DEF Told
  <2>2. \A t \in Transfer : Follows(t)
    BY EasedFollows DEF Inv
  <2> QED BY <2>1, <2>2, QueueSame, BookKept DEF Inv
<1>3. Staged'
  BY StagedFlow DEF Inv
<1> QED BY <1>1, <1>2, <1>3, EasedInv

(* A control task goes a step further, or ends.                            *)
LEMMA TaskSteps ==
    ASSUME DownloadAssumption, Inv, Eased, NEW q \in Queue, ctl[q] # << >>,
           NEW step \in TaskStep \ {"queued"}, ctl' = Stepped(q, step),
           step = "file" => Head1(q).op = "begin" /\ Head1(q).step = "queued",
           step = "respond" => Head1(q).op # "start",
           UNCHANGED <<chan, stage, phone>>
    PROVE  Inv'
<1>1. /\ ctl' \in Queues /\ Once(ctl') /\ \A t \in Transfer : Queued(t)
      /\ \A r \in Queue \ {q} : ctl'[r] = ctl[r]
  BY QueueStepped, SteppedFacts DEF Inv, Rest
<1>2. Rest'
  BY <1>1 DEF Inv, Rest
<1>3. Book'
  <2>1. \A t \in Transfer : Told(t)
    BY DEF Told
  <2>2. \A t \in Transfer : Follows(t)
    BY EasedFollows DEF Inv
  <2> QED BY <1>1, <2>1, <2>2, BookKept DEF Inv
<1>4. Staged'
  BY <1>1, StagedControl DEF Inv
<1> QED BY <1>2, <1>3, <1>4, EasedInv

LEMMA TaskEnds ==
    ASSUME DownloadAssumption, Inv, Eased, NEW q \in Queue, ctl[q] # << >>,
           ctl' = Dropped(q), stage' = stage,
           chan' \in [open : BOOLEAN, buffered : Nat],
           \/ phone' = phone
           \/ Head1(q).op = "begin" /\ phone' = [phone EXCEPT !.told = @ \cup {Head1(q).of}]
    PROVE  Inv'
<1>1. /\ ctl' \in Queues /\ Once(ctl') /\ \A t \in Transfer : Queued(t)
      /\ ~Pending(ctl', Head1(q).op, Head1(q).of, TaskStep)
      /\ \A r \in Queue \ {q} : ctl'[r] = ctl[r]
  BY QueueDropped, DroppedFacts DEF Inv, Rest
<1>2. Head1(q).of \in Transfer
  BY HeadFacts DEF Inv, Rest
<1>3. /\ phone' \in [sent : SUBSET Requests, told : SUBSET Transfer] /\ phone'.sent = phone.sent
      /\ \/ phone'.told = phone.told
         \/ Head1(q).op = "begin" /\ phone'.told = phone.told \cup {Head1(q).of}
  BY <1>2 DEF Inv, Rest
<1>4. Rest'
  BY <1>1, <1>3 DEF Inv, Rest
<1>5. Book'
  <2>1. ASSUME NEW t \in Transfer PROVE Told(t)
    <3>1. CASE phone'.told = phone.told
      BY <3>1 DEF Told
    <3>2. CASE Head1(q).op = "begin" /\ phone'.told = phone.told \cup {Head1(q).of}
      <4>0. ctl \in Queues /\ Head1(q).step \in TaskStep
        BY HeadFacts DEF Inv, Rest
      <4>1. Pending(ctl, "begin", Head1(q).of, TaskStep)
        BY <3>2, <4>0, HeadPending
      <4>2. <<"begin", Head1(q).of>> \in phone.sent
        BY <1>2, <4>1 DEF Inv, Book, BookAt
      <4> QED BY <1>1, <3>2, <4>2 DEF Told
    <3> QED BY <1>3, <3>1, <3>2
  <2>2. \A t \in Transfer : Follows(t)
    BY EasedFollows DEF Inv
  <2> QED BY <1>1, <1>3, <2>1, <2>2, BookKept DEF Inv
<1>6. Staged'
  BY <1>1, StagedControl DEF Inv
<1> QED BY <1>4, <1>5, <1>6, EasedInv
-----------------------------------------------------------------------------
(* The steps, one by one.                                                  *)

LEMMA InvFacts ==
    ASSUME Inv
    PROVE  /\ FlowTypes /\ Flow /\ Book /\ ctl \in Queues /\ down \in Downloads /\ stream \in Streams
           /\ read \in Reads
           /\ chan \in [open : BOOLEAN, buffered : Nat] /\ chan.open \in BOOLEAN /\ chan.buffered \in Nat
           /\ stage \in Stages /\ phone \in [sent : SUBSET Requests, told : SUBSET Transfer]
BY DEF Inv, Rest, FlowTypes

LEMMA StagedEarly ==
    ASSUME stage' \in {"live", "queue"}
    PROVE  Staged' /\ stage' \in Stages
BY DEF Staged, Stages

LEMMA InvReceiveRequest ==
    ASSUME DownloadAssumption, Inv, NEW op, NEW t, <<op, t>> \in Requests, ReceiveRequest(op, t)
    PROVE  Inv'
<1> DEFINE k == [op |-> op, of |-> t, step |-> "queued"]
           q == IF UsesLockQueue(op, t) THEN "lockQueue" ELSE "queue"
<1>1. op \in Op /\ t \in Transfer /\ q \in Queue /\ k \in TaskType
  BY DEF DownloadAssumption, Op, Queue, TaskType, TaskStep
<1>2. /\ ctl' = Added(q, k) /\ stage' = stage /\ chan' = chan
      /\ phone'.told = phone.told /\ phone'.sent = phone.sent \cup {<<op, t>>}
      /\ phone' \in [sent : SUBSET Requests, told : SUBSET Transfer]
      /\ <<op, t>> \notin phone.sent /\ (op # "begin" => t \in phone.told)
      /\ stage = "live"
  BY InvFacts DEF ReceiveRequest, Added, Listening, Disposed
<1>k. k.op = op /\ k.of = t /\ k.step = "queued"
  OBVIOUS
<1> HIDE DEF k, q
<1>3. Eased
  BY <1>1, EasedReceiveRequest, InvFacts
<1>4. ~Pending(ctl, op, t, TaskStep)
  BY <1>1, <1>2, InvFacts DEF Book, BookAt
<1>5. /\ Once(ctl') /\ ctl' \in Queues
      /\ \A o, u, S : Pending(ctl', o, u, S) =>
            Pending(ctl, o, u, S) \/ (o = op /\ u = t /\ "queued" \in S)
  BY <1>k, <1>1, <1>2, <1>4, AddedFacts, PendingAdded, InvFacts DEF Book
<1>6. Rest'
  BY <1>2, <1>5, InvFacts DEF Rest
<1>7. ASSUME NEW u \in Transfer
      PROVE  BookAt(ctl', phone', down'[u], stream'[u], read'[u], u)
  <2>1. BookAt(ctl, phone, down[u], stream[u], read[u], u)
    BY InvFacts DEF Book
  <2>2. /\ down'[u].present => down[u].present
        /\ down'[u].started = down[u].started
        /\ stream'[u].at = "none" <=> stream[u].at = "none"
        /\ read'[u] # "none" => read[u] # "none"
    BY <1>3 DEF Eased, Eases, EasesOne, Lightens
  <2>3. \A o : Pending(ctl', o, u, TaskStep) => <<o, u>> \in phone'.sent
    BY <1>2, <1>5, <2>1 DEF BookAt
  <2>4. \A o : Pending(ctl', o, u, {"file"}) => o = "begin"
    BY <1>5, <2>1 DEF BookAt
  <2>5. Pending(ctl', "begin", u, TaskStep) => u \notin phone'.told
    BY <1>2, <1>5, <2>1 DEF BookAt
  <2>6. Pending(ctl', "begin", u, {"queued", "file"}) => ~down'[u].present
    BY <1>2, <1>5, <2>1, <2>2 DEF BookAt
  <2>7. Pending(ctl', "start", u, TaskStep) => stream'[u].at = "none"
    BY <1>2, <1>5, <2>1, <2>2 DEF BookAt
  <2>8. Pending(ctl', "start", u, {"respond"}) => down'[u].started
    BY <1>5, <2>1, <2>2 DEF BookAt
  <2>9. /\ \A o : <<o, u>> \in phone'.sent /\ o # "begin" => u \in phone'.told
        /\ u \in phone'.told => <<"begin", u>> \in phone'.sent
        /\ down'[u].started => <<"start", u>> \in phone'.sent
        /\ stream'[u].at # "none" => down'[u].started
        /\ read'[u] # "none" => down'[u].started
        /\ <<"begin", u>> \notin phone'.sent => ~down'[u].present
    BY <1>2, <2>1, <2>2 DEF BookAt
  <2> QED BY <2>3, <2>4, <2>5, <2>6, <2>7, <2>8, <2>9 DEF BookAt
<1>8. Book'
  BY <1>5, <1>7 DEF Book
<1>9. Staged'
  BY <1>2, StagedEarly
<1> QED BY <1>3, <1>6, <1>8, <1>9, EasedInv

LEMMA Disposes ==
    ASSUME stage \in Stages, chan \in [open : BOOLEAN, buffered : Nat],
           NEW closing \in BOOLEAN, Dispose(closing), ~Disposed
    PROVE  chan' \in [open : BOOLEAN, buffered : Nat] /\ stage' = "queue"
BY DEF Dispose

LEMMA InvAcknowledge ==
    ASSUME DownloadAssumption, Inv, NEW t \in Transfer, NEW size \in 0 .. Size[t],
           Acknowledge(t, size)
    PROVE  Inv'
<1>1. Eased
  BY EasedAcknowledge, InvFacts
<1>2. ctl' = ctl /\ phone' = phone /\ ~Disposed
  BY DEF Acknowledge, Listening
<1>3. /\ chan' \in [open : BOOLEAN, buffered : Nat]
      /\ stage' = stage \/ stage' = "queue"
  BY <1>2, Disposes, InvFacts DEF Acknowledge
<1> QED BY <1>1, <1>2, <1>3, StagedEarly, FlowStep

LEMMA InvSkipTask ==
    ASSUME DownloadAssumption, Inv, NEW q \in Queue, SkipTask(q)
    PROVE  Inv'
<1>1. /\ ctl[q] # << >> /\ ctl' = Dropped(q) /\ stage' = stage /\ phone' = phone /\ chan' = chan
      /\ UNCHANGED <<down, stream, read>>
  BY DEF SkipTask, At, Dropped
<1>2. Eased
  BY <1>1, EasedSame, InvFacts
<1> QED BY <1>1, <1>2, TaskEnds, InvFacts

LEMMA InvBeginDownload ==
    ASSUME DownloadAssumption, Inv, NEW q \in Queue, BeginDownload(q)
    PROVE  Inv'
<1> DEFINE step == IF Orphaned # {} THEN "fail" ELSE "file"
<1>1. /\ ctl[q] # << >> /\ ctl' = Stepped(q, step)
      /\ Head1(q).op = "begin" /\ Head1(q).step = "queued"
      /\ UNCHANGED <<chan, stage, phone>> /\ UNCHANGED <<down, stream, read>>
  BY DEF BeginDownload, Starting, At, To, Stepped
<1>2. step \in TaskStep \ {"queued"} /\ step # "respond"
  BY DEF TaskStep
<1> HIDE DEF step
<1>3. Eased
  BY <1>1, EasedSame, InvFacts
<1> QED BY <1>1, <1>2, <1>3, TaskSteps

LEMMA InvFinishDownload ==
    ASSUME DownloadAssumption, Inv, NEW q \in Queue, FinishDownload(q)
    PROVE  Inv'
<1>1. ctl[q] # << >> /\ Head1(q).op = "finish" /\ UNCHANGED <<chan, stage, phone>>
  BY DEF FinishDownload, Starting, At
<1>2. ctl' = Stepped(q, "respond") \/ ctl' = Stepped(q, "fail")
  BY DEF FinishDownload, To, Stepped
<1>3. Eased
  BY EasedFinish, InvFacts
<1>4. "respond" \in TaskStep \ {"queued"} /\ "fail" \in TaskStep \ {"queued"}
  BY DEF TaskStep
<1> QED BY <1>1, <1>2, <1>3, <1>4, TaskSteps

LEMMA InvAbortRequest ==
    ASSUME DownloadAssumption, Inv, NEW q \in Queue, AbortRequest(q)
    PROVE  Inv'
<1>1. /\ ctl[q] # << >> /\ Head1(q).op = "abort" /\ UNCHANGED <<chan, stage, phone>>
      /\ ctl' = Stepped(q, "respond")
  BY DEF AbortRequest, Starting, At, To, Stepped
<1>2. Eased
  BY EasedAbortRequest, InvFacts
<1>3. "respond" \in TaskStep \ {"queued"}
  BY DEF TaskStep
<1> QED BY <1>1, <1>2, <1>3, TaskSteps

LEMMA BufferedType ==
    ASSUME chan \in [open : BOOLEAN, buffered : Nat], NEW n \in Nat, Buffered(n)
    PROVE  chan' \in [open : BOOLEAN, buffered : Nat]
<1>1. chan.buffered + n \in Nat
  OBVIOUS
<1> QED BY <1>1 DEF Buffered

LEMMA InvFail ==
    ASSUME DownloadAssumption, Inv, NEW q \in Queue, Fail(q)
    PROVE  Inv'
<1>1. ctl[q] # << >> /\ ctl' = Dropped(q) /\ stage' = stage /\ phone' = phone
  BY DEF Fail, At, EndTask, Dropped
<1>2. Eased
  BY EasedFail, InvFacts
<1>3. chan' \in [open : BOOLEAN, buffered : Nat]
  BY BufferedType, InvFacts, Sizes DEF Fail
<1> QED BY <1>1, <1>2, <1>3, TaskEnds
LEMMA InvFindCapacity ==
    ASSUME DownloadAssumption, Inv, NEW t \in Transfer, FindCapacity(t)
    PROVE  Inv'
<1>1. Eased
  BY EasedFindCapacity, InvFacts
<1>2. UNCHANGED <<ctl, chan, stage, phone>>
  BY DEF FindCapacity
<1> QED BY <1>1, <1>2, FlowStep, InvFacts

LEMMA InvReadSettles ==
    ASSUME DownloadAssumption, Inv, NEW t \in Transfer, ReadSettles(t)
    PROVE  Inv'
<1>1. Eased
  BY EasedReadSettles, InvFacts
<1>2. UNCHANGED <<ctl, chan, stage, phone>>
  BY DEF ReadSettles
<1> QED BY <1>1, <1>2, FlowStep, InvFacts

LEMMA InvReadCancelled ==
    ASSUME DownloadAssumption, Inv, NEW t \in Transfer, ReadCancelled(t)
    PROVE  Inv'
<1>1. Eased
  BY EasedReadCancelled, InvFacts
<1>2. UNCHANGED <<ctl, chan, stage, phone>>
  BY DEF ReadCancelled
<1> QED BY <1>1, <1>2, FlowStep, InvFacts

LEMMA InvSendFrame ==
    ASSUME DownloadAssumption, Inv, NEW t \in Transfer, SendFrame(t)
    PROVE  Inv'
<1>1. Eased
  BY EasedSendFrame, InvFacts
<1>2. UNCHANGED <<ctl, stage, phone>>
  BY DEF SendFrame
<1>3. stream[t].hold \in Nat
  BY InvFacts DEF Streams, StreamType
<1>4. chan' \in [open : BOOLEAN, buffered : Nat]
  BY <1>3, BufferedType, InvFacts DEF SendFrame
<1> QED BY <1>1, <1>2, <1>4, FlowStep

LEMMA InvOrphanSettles ==
    ASSUME DownloadAssumption, Inv, NEW t \in Transfer, OrphanSettles(t)
    PROVE  Inv'
<1>1. Eased
  BY EasedOrphanSettles, InvFacts
<1>2. UNCHANGED <<ctl, chan, stage, phone>>
  BY DEF OrphanSettles
<1> QED BY <1>1, <1>2, FlowStep, InvFacts

LEMMA InvExpire ==
    ASSUME DownloadAssumption, Inv, NEW t \in Transfer, Expire(t)
    PROVE  Inv'
<1>1. Eased
  BY EasedExpire, InvFacts
<1>2. UNCHANGED <<ctl, chan, stage, phone>>
  BY DEF Expire
<1> QED BY <1>1, <1>2, FlowStep, InvFacts

LEMMA InvChannel ==
    ASSUME DownloadAssumption, Inv, Drain \/ ChannelCloses \/ PageDisposes
    PROVE  Inv'
<1>1. UNCHANGED <<down, stream, read>> /\ UNCHANGED <<ctl, phone>>
  BY DEF Drain, ChannelCloses, PageDisposes
<1>2. Eased
  BY <1>1, EasedSame, InvFacts
<1>3. CASE Drain
  <2>1. PICK left \in 0 .. chan.buffered - 1 : chan' = [chan EXCEPT !.buffered = left]
    BY <1>3 DEF Drain
  <2>2. left \in Nat
    BY InvFacts
  <2>3. chan' \in [open : BOOLEAN, buffered : Nat]
    BY <2>1, <2>2, InvFacts
  <2> QED BY <1>1, <1>2, <1>3, <2>3, FlowStep DEF Drain
<1>4. CASE ChannelCloses
  <2>1. chan' \in [open : BOOLEAN, buffered : Nat]
    BY <1>4, InvFacts DEF ChannelCloses
  <2> QED BY <1>1, <1>2, <1>4, <2>1, FlowStep DEF ChannelCloses
<1>5. CASE PageDisposes
  <2>1. PICK closing \in BOOLEAN : Dispose(closing)
    BY <1>5 DEF PageDisposes
  <2>2. chan' \in [open : BOOLEAN, buffered : Nat] /\ stage' = "queue"
    BY <1>5, <2>1, Disposes, InvFacts DEF PageDisposes
  <2> QED BY <1>1, <1>2, <2>2, FlowStep, StagedEarly
<1> QED BY <1>3, <1>4, <1>5

LEMMA InvQuiesce ==
    ASSUME DownloadAssumption, Inv, QuiesceQueues \/ QuiesceReads
    PROVE  Inv'
<1>1. UNCHANGED <<ctl, chan, phone>>
  BY DEF QuiesceQueues, QuiesceReads
<1>2. CASE /\ stage = "queue" /\ ctl["queue"] = << >> /\ stage' = "lockQueue"
           /\ UNCHANGED <<down, stream, read>>
  <2>1. Eased
    BY <1>2, EasedSame, InvFacts
  <2>2. Staged' /\ stage' \in Stages
    BY <1>1, <1>2 DEF Staged, Stages
  <2> QED BY <1>1, <2>1, <2>2, FlowStep, InvFacts
<1>3. CASE /\ stage = "lockQueue" /\ ctl["lockQueue"] = << >> /\ stage' = "tasks"
           /\ AbortAll(Transfer)
  <2>1. Eased /\ \A t \in Transfer \cap Transfer : ~down'[t].present
    BY <1>3, EasedAbort, InvFacts
  <2>2. Staged' /\ stage' \in Stages
    BY <1>1, <1>3, <2>1 DEF Inv, Staged, Stages
  <2> QED BY <1>1, <2>1, <2>2, FlowStep, InvFacts
<1>4. CASE /\ stage = "tasks" /\ TasksEnded /\ stage' = "reads"
           /\ UNCHANGED <<down, stream, read>>
  <2>1. Eased
    BY <1>4, EasedSame, InvFacts
  <2>2. Staged' /\ stage' \in Stages
    BY <1>1, <1>4 DEF Inv, Staged, Stages, TasksEnded
  <2> QED BY <1>1, <2>1, <2>2, FlowStep, InvFacts
<1>5. CASE /\ stage = "reads" /\ Orphaned = {} /\ stage' = "quiet"
           /\ UNCHANGED <<down, stream, read>>
  <2>1. Eased
    BY <1>5, EasedSame, InvFacts
  <2>2. \A t \in Transfer : read'[t] # "orphan"
    BY <1>5 DEF Orphaned
  <2>3. Staged' /\ stage' \in Stages
    BY <1>1, <1>5, <2>2 DEF Inv, Staged, Stages, TasksEnded
  <2> QED BY <1>1, <2>1, <2>3, FlowStep, InvFacts
<1> QED BY <1>2, <1>3, <1>4, <1>5 DEF QuiesceQueues, QuiesceReads

-----------------------------------------------------------------------------
(* An answer; one to a start begins a stream.                              *)

LEMMA InvRespond ==
    ASSUME DownloadAssumption, Inv, NEW q \in Queue, Respond(q)
    PROVE  Inv'
<1> DEFINE t == Head1(q).of
<1>1. ctl[q] # << >> /\ ctl' = Dropped(q) /\ stage' = stage /\ Head1(q).step = "respond"
  BY DEF Respond, At, EndTask, Dropped
<1>2. t \in Transfer
  BY <1>1, HeadFacts, InvFacts
<1>3. chan' \in [open : BOOLEAN, buffered : Nat]
  BY BufferedType, InvFacts, Sizes DEF Respond
<1>4. \/ phone' = phone
      \/ Head1(q).op = "begin" /\ phone' = [phone EXCEPT !.told = @ \cup {t}]
  BY DEF Respond
<1>5. Head1(q).op = "start" => stream[t].at = "none" /\ down[t].started
  <2> SUFFICES ASSUME Head1(q).op = "start" PROVE stream[t].at = "none" /\ down[t].started
    OBVIOUS
  <2>1. "respond" \in {"respond"} /\ "respond" \in TaskStep
    BY DEF TaskStep
  <2>0. ctl \in Queues /\ Head1(q).step \in {"respond"} /\ Head1(q).step \in TaskStep
    BY <1>1, <2>1, InvFacts
  <2>a. Pending(ctl, Head1(q).op, Head1(q).of, TaskStep)
    BY <1>1, <2>0, HeadPending
  <2>b. Pending(ctl, Head1(q).op, Head1(q).of, {"respond"})
    BY <1>1, <2>0, HeadPending
  <2>2. Pending(ctl, "start", t, TaskStep) /\ Pending(ctl, "start", t, {"respond"})
    BY <2>a, <2>b
  <2>3. BookAt(ctl, phone, down[t], stream[t], read[t], t)
    BY <1>2, InvFacts DEF Book
  <2> QED BY <2>2, <2>3 DEF BookAt
<1>6. CASE Eased
  BY <1>1, <1>3, <1>4, <1>6, TaskEnds
<1>7. CASE StreamBegins(q) /\ UNCHANGED read /\ EndTask(q, down)
  <2>1. Head1(q).op = "start"
    BY <1>7 DEF StreamBegins
  <2>2. phone' = phone
    BY <1>4, <2>1
  <2>3. /\ Lighter /\ Calm
        /\ \A u \in Transfer : u # t => stream'[u] = stream[u]
    BY <1>2, <1>5, <1>7, <2>1, LighterBegins, InvFacts
  <2>4. /\ ctl' \in Queues /\ Once(ctl') /\ \A u \in Transfer : Queued(u)
        /\ ~Pending(ctl', Head1(q).op, t, TaskStep)
        /\ \A r \in Queue \ {q} : ctl'[r] = ctl[r]
    BY <1>1, QueueDropped, DroppedFacts, InvFacts
  <2>5. Rest'
    BY <1>1, <1>3, <2>2, <2>4, InvFacts DEF Rest
  <2>6. Book'
    <3>1. ASSUME NEW u \in Transfer PROVE Told(u)
      BY <2>2 DEF Told
    <3>2. ASSUME NEW u \in Transfer PROVE Follows(u)
      <4>1. CASE u = t
        BY <1>5, <1>7, <2>1, <2>3, <2>4, <4>1 DEF Lighter, Lightens, Follows
      <4>2. CASE u # t
        BY <1>7, <2>3, <4>2 DEF Lighter, Lightens, Follows
      <4> QED BY <4>1, <4>2
    <3> QED BY <2>2, <2>4, <3>1, <3>2, BookKept, InvFacts
  <2>7. Staged'
    BY <1>1, <2>4, StagedControl DEF Inv
  <2> QED BY <2>3, <2>5, <2>6, <2>7, LighterInv
<1> QED BY <1>5, <1>6, <1>7, EasedRespond, InvFacts
-----------------------------------------------------------------------------
(* The insertion of a download and its start.                              *)

(* Downloads that keep what they sent and have acknowledged keep the       *)
(* windows, and the streams their reasons to wait.                         *)
LEMMA SameUnack ==
    ASSUME down \in Downloads, WindowsOf(down), ReasonsOf(down, stream), stream' = stream,
           UnackOf(down') = UnackOf(down),
           \A t \in Transfer : stream[t].at = "parked" =>
              down'[t].sent = down[t].sent /\ down'[t].present = down[t].present
    PROVE  WindowsOf(down') /\ ReasonsOf(down', stream')
<1>1. WindowsOf(down')
  BY DEF WindowsOf
<1>2. \A t \in Transfer : stream[t].at = "parked" => NextOf(down', t) = NextOf(down, t)
  BY DEF NextOf
<1> QED BY <1>1, <1>2 DEF ReasonsOf

LEMMA InvInserted ==
    ASSUME DownloadAssumption, Inv, NEW q \in Queue, ctl[q] # << >>, Head1(q).step = "file",
           ~Disposed, Cardinality(ActiveOf(Control(Head1(q).of))) < Limit(Control(Head1(q).of)),
           down' = [down EXCEPT ![Head1(q).of] = [Absent EXCEPT !.present = TRUE, !.idle = TRUE]],
           ctl' = Stepped(q, "respond"), UNCHANGED <<stream, read, chan, stage, phone>>
    PROVE  Inv'
<1> DEFINE t == Head1(q).of
           n == [Absent EXCEPT !.present = TRUE, !.idle = TRUE]
<1>1. /\ n \in DownloadType /\ n.present /\ ~n.started /\ n.sent = 0 /\ n.acked = 0
  BY DEF Absent, DownloadType
<1>2. t \in Transfer
  BY HeadFacts, InvFacts
<1>3. /\ down' \in Downloads /\ down'[t] = n
      /\ \A u \in Transfer \ {t} : down'[u] = down[u]
  BY <1>1, <1>2, InvFacts DEF Downloads
<1> HIDE DEF n
<1>4. Pending(ctl, Head1(q).op, t, {"file"}) /\ Pending(ctl, Head1(q).op, t, {"queued", "file"})
      /\ Pending(ctl, Head1(q).op, t, TaskStep)
  <2>1. Head1(q).step \in {"file"} /\ Head1(q).step \in {"queued", "file"} /\ Head1(q).step \in TaskStep
    BY DEF TaskStep
  <2>2. Pending(ctl, Head1(q).op, Head1(q).of, {"file"})
    BY <2>1, HeadPending, InvFacts
  <2>3. Pending(ctl, Head1(q).op, Head1(q).of, {"queued", "file"})
    BY <2>1, HeadPending, InvFacts
  <2>4. Pending(ctl, Head1(q).op, Head1(q).of, TaskStep)
    BY <2>1, HeadPending, InvFacts
  <2> QED BY <2>2, <2>3, <2>4
<1>5. /\ Head1(q).op = "begin" /\ ~down[t].present /\ t \notin phone.told
      /\ <<"begin", t>> \in phone.sent
      /\ ~down[t].started /\ stream[t].at = "none" /\ read[t] = "none"
  <2>1. BookAt(ctl, phone, down[t], stream[t], read[t], t)
    BY <1>2, InvFacts DEF Book
  <2>2. Head1(q).op = "begin" /\ <<"begin", t>> \in phone.sent
    BY <1>4, <2>1 DEF BookAt
  <2>3. ~down[t].present /\ t \notin phone.told
    BY <1>4, <2>1, <2>2 DEF BookAt
  <2>4. <<"start", t>> \notin phone.sent
    BY <2>1, <2>3 DEF BookAt
  <2>5. ~down[t].started
    BY <2>1, <2>4 DEF BookAt
  <2> QED BY <2>1, <2>2, <2>3, <2>5 DEF BookAt
<1>6. /\ ctl' \in Queues /\ Once(ctl') /\ \A u \in Transfer : Queued(u)
      /\ ~Pending(ctl', "begin", t, {"queued", "file"})
  <2>1. "respond" \in TaskStep \ {"queued"}
    BY DEF TaskStep
  <2> QED BY <1>5, <2>1, QueueStepped, InvFacts
<1>k. /\ down'[t].present /\ ~down'[t].started /\ down'[t].sent = 0 /\ down'[t].acked = 0
      /\ stream'[t] = stream[t] /\ read'[t] = read[t]
  BY <1>1, <1>3
<1>m. ASSUME NEW c \in BOOLEAN
      PROVE  Cardinality(MayRead(down', read', c)) <= Limit(c)
  <2>1. \A u \in Transfer : down'[u].present /\ down'[u].started => down[u].present /\ down[u].started
    BY <1>1, <1>3
  <2>2. read' = read /\ \A u \in Of(c) : u \in Transfer
    BY DEF Of
  <2>3. MayRead(down', read', c) \subseteq MayRead(down, read, c)
    BY <2>1, <2>2 DEF MayRead
  <2>4. MayRead(down, read, c) \in SUBSET Transfer /\ Cardinality(MayRead(down, read, c)) <= Limit(c)
    BY DEF Inv, SlotsOf, MayRead, Of
  <2> QED BY <2>3, <2>4, Fewer
<1>7. FlowTypes' /\ Rest'
  BY <1>3, <1>6, InvFacts DEF FlowTypes, Rest
<1>8. Flow'
  <2>1. FlowOf(n, stream[t], read[t], Size[t])
    <3>1. FlowOf(down[t], stream[t], read[t], Size[t]) /\ Size[t] \in Nat
      BY <1>2, InvFacts, Sizes DEF Flow
    <3> QED BY <1>1, <1>5, <3>1 DEF FlowOf
  <2>2. ASSUME NEW u \in Transfer PROVE FlowOf(down'[u], stream[u], read[u], Size[u])
    <3>1. FlowOf(down[u], stream[u], read[u], Size[u])
      BY InvFacts DEF Flow
    <3> QED BY <1>3, <2>1, <3>1
  <2> QED BY <2>2 DEF Flow
<1>9. Book'
  <2>1. ASSUME NEW u \in Transfer PROVE Told(u) /\ Follows(u)
    <3>1. CASE u = t
      <4>1. Told(t)
        BY DEF Told
      <4>2. Follows(t)
        <5> HIDE DEF t
        <5> QED BY <1>5, <1>6, <1>k DEF Follows
      <4> QED BY <3>1, <4>1, <4>2
    <3>2. CASE u # t
      BY <1>3, <3>2 DEF Told, Follows
    <3> QED BY <3>1, <3>2
  <2> QED BY <1>6, <2>1, BookKept, InvFacts
<1>10. UnackOf(down') = UnackOf(down)
  <2>1. ASSUME NEW u \in Transfer
        PROVE  (IF down'[u].present THEN down'[u].sent - down'[u].acked ELSE 0)
                  = (IF down[u].present THEN down[u].sent - down[u].acked ELSE 0)
    <3>1. CASE u = t
      <4>1. down'[t].sent - down'[t].acked = 0
        BY <1>k
      <4> QED BY <1>5, <3>1, <4>1
    <3>2. CASE u # t
      BY <1>3, <3>2
    <3> QED BY <3>1, <3>2
  <2> QED BY <2>1 DEF UnackOf
<1>11. WindowsOf(down') /\ ReasonsOf(down', stream')
  <2>1. \A u \in Transfer : stream[u].at = "parked" => u # t
    BY <1>5
  <2> QED BY <1>3, <1>10, <2>1, SameUnack, InvFacts DEF Inv
<1>12. BudgetOf(stream')
  BY DEF Inv
<1>13. SlotsOf(down', read')
  <2>1. ASSUME NEW c \in BOOLEAN
        PROVE  /\ Cardinality(ActiveIn(down', c)) <= Limit(c)
               /\ Cardinality(MayRead(down', read', c)) <= Limit(c)
    <3>1. /\ ActiveIn(down, c) \in SUBSET Transfer /\ IsFiniteSet(ActiveIn(down, c))
          /\ Cardinality(ActiveIn(down, c)) \in Nat /\ Limit(c) \in Nat
          /\ Cardinality(ActiveIn(down, c)) <= Limit(c)
      <4>1. ActiveIn(down, c) \in SUBSET Transfer
        BY DEF ActiveIn
      <4>2. Cardinality(ActiveIn(down, c)) <= Limit(c)
        BY DEF Inv, SlotsOf
      <4> QED BY <4>1, <4>2, Finite, Sizes, FS_Subset, FS_CardinalityType
    <3>2. CASE c = Control(t)
      <4>1. ActiveIn(down', c) = ActiveIn(down, c) \cup {t} /\ t \notin ActiveIn(down, c)
        BY <1>1, <1>2, <1>3, <1>5, <3>2 DEF ActiveIn
      <4>2. ActiveIn(down, c) = ActiveOf(Control(t))
        BY <3>2 DEF ActiveIn, ActiveOf
      <4>3. Cardinality(ActiveIn(down', c)) = Cardinality(ActiveIn(down, c)) + 1
        BY <3>1, <4>1, FS_AddElement
      <4>4. Cardinality(ActiveIn(down, c)) < Limit(c)
        BY <3>2, <4>2
      <4>5. Cardinality(ActiveIn(down', c)) <= Limit(c)
        BY <3>1, <4>3, <4>4
      <4> QED BY <1>m, <4>5
    <3>3. CASE c # Control(t)
      <4>1. ActiveIn(down', c) = ActiveIn(down, c)
        BY <1>3, <3>3 DEF ActiveIn
      <4> QED BY <1>m, <3>1, <4>1
    <3> QED BY <3>2, <3>3
  <2> QED BY <2>1 DEF SlotsOf
<1>15. Staged'
  BY InvFacts, StagedEarly DEF Disposed
<1> QED BY <1>7, <1>8, <1>9, <1>11, <1>12, <1>13, <1>15 DEF Inv
LEMMA InvFileFound ==
    ASSUME DownloadAssumption, Inv, NEW q \in Queue, FileFound(q)
    PROVE  Inv'
<1>1. ctl[q] # << >> /\ Head1(q).step = "file" /\ UNCHANGED <<chan, stage, phone>>
  BY DEF FileFound, At
<1>2. CASE ctl' = Stepped(q, "fail") /\ UNCHANGED <<down, stream, read>>
  <2>1. Eased
    BY <1>2, EasedSame, InvFacts
  <2>2. "fail" \in TaskStep \ {"queued"}
    BY DEF TaskStep
  <2> QED BY <1>1, <1>2, <2>1, <2>2, TaskSteps
<1>3. CASE AbortAll(Transfer) /\ ctl' = Dropped(q)
  <2>1. Eased
    BY <1>3, EasedAbort, InvFacts
  <2> QED BY <1>1, <1>3, <2>1, TaskEnds, InvFacts
<1>4. CASE /\ Cardinality(ActiveOf(Control(Head1(q).of))) < Limit(Control(Head1(q).of))
           /\ ~Disposed /\ ctl' = Stepped(q, "respond")
           /\ down' = [down EXCEPT ![Head1(q).of] = [Absent EXCEPT !.present = TRUE, !.idle = TRUE]]
           /\ UNCHANGED <<stream, read>>
  BY <1>1, <1>4, InvInserted
<1>5. ASSUME ~(Cardinality(ActiveOf(Control(Head1(q).of))) >= Limit(Control(Head1(q).of)))
      PROVE  Cardinality(ActiveOf(Control(Head1(q).of))) < Limit(Control(Head1(q).of))
  <2>1. ActiveOf(Control(Head1(q).of)) \in SUBSET Transfer
    BY DEF ActiveOf
  <2>2. IsFiniteSet(ActiveOf(Control(Head1(q).of)))
    BY <2>1, Finite, FS_Subset
  <2>3. Cardinality(ActiveOf(Control(Head1(q).of))) \in Nat
    BY <2>2, FS_CardinalityType
  <2>4. Head1(q).of \in Transfer
    BY <1>1, HeadFacts, InvFacts
  <2>5. Limit(Control(Head1(q).of)) \in Nat
    BY <2>4, Sizes
  <2> QED BY <1>5, <2>3, <2>5
<1> QED BY <1>2, <1>3, <1>4, <1>5 DEF FileFound, To, Stepped, Dropped

LEMMA InvStarted ==
    ASSUME DownloadAssumption, Inv, NEW q \in Queue, ctl[q] # << >>, Head1(q).op = "start",
           Orphaned = {}, down[Head1(q).of].present,
           down' = [down EXCEPT ![Head1(q).of].started = TRUE],
           ctl' = Stepped(q, "respond"), UNCHANGED <<stream, read, chan, stage, phone>>
    PROVE  Inv'
<1> DEFINE t == Head1(q).of
<1>1. t \in Transfer
  BY HeadFacts, InvFacts
<1>2. /\ down' \in Downloads /\ down'[t].started
      /\ down'[t].present = down[t].present /\ down'[t].sent = down[t].sent
      /\ down'[t].acked = down[t].acked /\ down'[t].idle = down[t].idle
      /\ \A u \in Transfer \ {t} : down'[u] = down[u]
  BY <1>1, InvFacts DEF Downloads, DownloadType
<1>3. <<"start", t>> \in phone.sent
  <2>1. ctl \in Queues /\ Head1(q).step \in TaskStep
    BY HeadFacts, InvFacts
  <2>2. Pending(ctl, Head1(q).op, Head1(q).of, TaskStep)
    BY <2>1, HeadPending
  <2> QED BY <1>1, <2>2, InvFacts DEF Book, BookAt
<1>4. /\ ctl' \in Queues /\ Once(ctl') /\ \A u \in Transfer : Queued(u)
      /\ \A r \in Queue \ {q} : ctl'[r] = ctl[r]
  <2>1. "respond" \in TaskStep \ {"queued"} /\ "respond" \in TaskStep
    BY DEF TaskStep
  <2>2. ctl \in Queues /\ Book /\ down'[Head1(q).of].started
    BY <1>2, InvFacts
  <2>3. ctl' \in Queues /\ Once(ctl') /\ \A u \in Transfer : Queued(u)
    BY <2>1, <2>2, QueueStepped
  <2>4. \A r \in Queue \ {q} : ctl'[r] = ctl[r]
    BY <2>1, <2>2, SteppedFacts
  <2> QED BY <2>3, <2>4
<1> HIDE DEF t
<1>5. \A u \in Transfer : /\ down'[u].present = down[u].present /\ down'[u].sent = down[u].sent
                          /\ down'[u].acked = down[u].acked /\ down'[u].idle = down[u].idle
                          /\ u # t => down'[u].started = down[u].started
  BY <1>2
<1>6. FlowTypes' /\ Rest'
  BY <1>2, <1>4, InvFacts DEF FlowTypes, Rest
<1>7. Flow'
  BY <1>5, InvFacts DEF Flow, FlowOf
<1>8. Book'
  <2>1. ASSUME NEW u \in Transfer PROVE Told(u) /\ Follows(u)
    <3>1. Told(u)
      BY DEF Told
    <3>2. CASE u = t
      BY <1>2, <1>3, <1>5, <3>1, <3>2 DEF Follows
    <3>3. CASE u # t
      BY <1>5, <3>1, <3>3 DEF Follows
    <3> QED BY <3>2, <3>3
  <2> QED BY <1>4, <2>1, BookKept, InvFacts
<1>9. WindowsOf(down') /\ ReasonsOf(down', stream')
  <2>1. UnackOf(down') = UnackOf(down)
    BY <1>5 DEF UnackOf
  <2> QED BY <1>5, <2>1, SameUnack, InvFacts DEF Inv
<1>10. BudgetOf(stream')
  BY DEF Inv
<1>11. SlotsOf(down', read')
  <2>1. ASSUME NEW c \in BOOLEAN
        PROVE  /\ Cardinality(ActiveIn(down', c)) <= Limit(c)
               /\ Cardinality(MayRead(down', read', c)) <= Limit(c)
    <3>1. ActiveIn(down', c) \subseteq ActiveIn(down, c) /\ ActiveIn(down, c) \in SUBSET Transfer
      BY <1>5 DEF ActiveIn
    <3>2. \A u \in Transfer : read[u] # "orphan"
      BY DEF Orphaned
    <3>3. MayRead(down', read', c) \subseteq ActiveIn(down, c)
      BY <1>5, <3>2 DEF MayRead, ActiveIn, Of
    <3>4. Cardinality(ActiveIn(down, c)) <= Limit(c)
      BY DEF Inv, SlotsOf
    <3> QED BY <3>1, <3>3, <3>4, Fewer
  <2> QED BY <2>1 DEF SlotsOf
<1>12. Staged'
  BY <1>4, StagedControl DEF Inv
<1> QED BY <1>6, <1>7, <1>8, <1>9, <1>10, <1>11, <1>12 DEF Inv

LEMMA InvStartDownload ==
    ASSUME DownloadAssumption, Inv, NEW q \in Queue, StartDownload(q)
    PROVE  Inv'
<1>1. /\ ctl[q] # << >> /\ Head1(q).op = "start" /\ UNCHANGED <<stream, read>>
      /\ UNCHANGED <<chan, stage, phone>>
  BY DEF StartDownload, Starting, At
<1>2. CASE StartRefused(Head1(q).of)
  <2>1. ctl' = Stepped(q, "fail") /\ down' = down
    BY <1>2 DEF StartDownload, To, Stepped
  <2>2. Eased
    BY <1>1, <2>1, EasedSame, InvFacts
  <2>3. "fail" \in TaskStep \ {"queued"}
    BY DEF TaskStep
  <2> QED BY <1>1, <2>1, <2>2, <2>3, TaskSteps
<1>3. CASE ~StartRefused(Head1(q).of)
  <2>1. ctl' = Stepped(q, "respond") /\ down' = [down EXCEPT ![Head1(q).of].started = TRUE]
    BY <1>3 DEF StartDownload, To, Stepped
  <2>2. Orphaned = {} /\ down[Head1(q).of].present
    BY <1>3 DEF StartRefused
  <2> QED BY <1>1, <2>1, <2>2, InvStarted
<1> QED BY <1>2, <1>3
-----------------------------------------------------------------------------
(* The planning of a frame.                                                *)

(* The set of waiters, for a stream with nothing to send or no room to     *)
(* hold it.                                                                *)
LEMMA InvParks ==
    ASSUME DownloadAssumption, Inv, NEW t \in Transfer, StreamAt(t, "plan"),
           StreamTo(t, "parked"), UNCHANGED <<down, read, ctl, chan, stage, phone>>,
           NextOf(down, t) = 0 \/ Total(HoldsOf(stream), Transfer) > 0
    PROVE  Inv'
<1>1. /\ stream[t].at = "plan" /\ stream' \in Streams /\ stream'[t].at = "parked"
      /\ stream'[t].hold = stream[t].hold
      /\ \A u \in Transfer \ {t} : stream'[u] = stream[u]
  <2>1. stream' = [stream EXCEPT ![t].at = "parked"] /\ stream \in Streams /\ stream[t] \in StreamType
    BY InvFacts, At1 DEF StreamTo
  <2>2. "parked" \in StreamStep
    BY DEF StreamStep
  <2> QED BY <2>1, <2>2 DEF StreamAt, Streams, StreamType
<1>2. \A u \in Transfer : /\ stream'[u].hold = stream[u].hold
                          /\ Sending(stream'[u]) <=> Sending(stream[u])
                          /\ stream'[u].at = "none" <=> stream[u].at = "none"
                          /\ stream'[u].at = "reading" <=> stream[u].at = "reading"
                          /\ stream'[u].at = "parked" => u = t \/ stream[u].at = "parked"
  BY <1>1 DEF Sending
<1>3. FlowTypes' /\ Rest'
  BY <1>1, InvFacts DEF FlowTypes, Rest
<1>4. Flow'
  BY <1>2, InvFacts DEF Flow, FlowOf
<1>5. Book'
  <2>1. ASSUME NEW u \in Transfer PROVE Told(u) /\ Follows(u)
    <3>1. Told(u)
      BY DEF Told
    <3> QED BY <1>2, <3>1 DEF Follows
  <2> QED BY <2>1, QueueSame, BookKept, InvFacts
<1>6. HoldsOf(stream') = HoldsOf(stream)
  BY <1>2 DEF HoldsOf
<1>7. BudgetOf(stream')
  BY <1>6 DEF BudgetOf, Inv
<1>8. ReasonsOf(down', stream')
  BY <1>2, <1>6 DEF ReasonsOf, Inv
<1>9. WindowsOf(down') /\ SlotsOf(down', read')
  BY DEF Inv
<1>10. Staged'
  <2>1. ~TasksEnded
    BY <1>1 DEF TasksEnded
  <2>2. stage \notin {"reads", "quiet"}
    BY <2>1 DEF Inv, Staged
  <2> QED BY <2>2 DEF Inv, Staged
<1> QED BY <1>3, <1>4, <1>5, <1>7, <1>8, <1>9, <1>10 DEF Inv

LEMMA WindowRaised ==
    ASSUME DownloadAssumption, NEW ds \in Downloads, NEW es \in Downloads, NEW t \in Transfer,
           NEW n \in Nat, ds[t].present, es[t].present, es[t].sent = ds[t].sent + n,
           es[t].acked = ds[t].acked, \A u \in Transfer \ {t} : es[u] = ds[u], WindowsOf(ds),
           Total(UnackOf(ds), Of(Control(t))) + n <= ClassWindow(Control(t))
    PROVE  WindowsOf(es)
<1>1. /\ UnackOf(ds)[t] \in Int /\ UnackOf(es)[t] = UnackOf(ds)[t] + n
      /\ UnackOf(es)[t] - UnackOf(ds)[t] = n
  <2>1. /\ UnackOf(ds)[t] = ds[t].sent - ds[t].acked
        /\ UnackOf(es)[t] = es[t].sent - es[t].acked
    BY DEF UnackOf
  <2>2. ds[t].sent \in Nat /\ ds[t].acked \in Nat
    BY DEF Downloads, DownloadType
  <2> QED BY <2>1, <2>2
<1>2. \A u \in Transfer \ {t} : UnackOf(ds)[u] = UnackOf(es)[u]
  BY DEF UnackOf
<1>3. \A u \in Transfer : UnackOf(ds)[u] \in Int /\ UnackOf(es)[u] \in Int
  BY UnackFacts
<1>4. ASSUME NEW c \in BOOLEAN
      PROVE  Total(UnackOf(es), Of(c)) <= ClassWindow(c)
  <2>1. IsFiniteSet(Of(c)) /\ Of(c) \in SUBSET Transfer
    BY Finite
  <2>2. Total(UnackOf(ds), Of(c)) \in Int /\ Total(UnackOf(ds), Of(c)) <= ClassWindow(c)
    BY UnackFacts DEF WindowsOf
  <2>3. /\ \A u \in Of(c) : UnackOf(ds)[u] \in Int /\ UnackOf(es)[u] \in Int
        /\ \A u \in Of(c) \ {t} : UnackOf(ds)[u] = UnackOf(es)[u]
    BY <1>2, <1>3, <2>1
  <2> DEFINE f == UnackOf(ds)
             g == UnackOf(es)
             S == Of(c)
  <2> HIDE DEF f, g, S
  <2>4. IsFiniteSet(S) /\ (\A u \in S : f[u] \in Int /\ g[u] \in Int) /\ \A u \in S \ {t} : f[u] = g[u]
    BY <2>1, <2>3 DEF f, g, S
  <2>5. Total(g, S) = Total(f, S) + (IF t \in S THEN g[t] - f[t] ELSE 0)
    BY <2>4, TotalChange
  <2>6. CASE t \in S
    <3>1. c = Control(t)
      BY <2>6 DEF Of, S
    <3>2. Total(f, S) + n <= ClassWindow(c)
      BY <3>1 DEF f, S
    <3>3. Total(g, S) = Total(f, S) + n
      BY <1>1, <2>5, <2>6 DEF f, g
    <3> QED BY <3>2, <3>3 DEF g, S
  <2>7. CASE t \notin S
    <3>1. Total(g, S) = Total(f, S) + 0
      BY <2>5, <2>7
    <3>2. Total(g, S) = Total(f, S)
      BY <2>2, <3>1 DEF f, S
    <3> QED BY <2>2, <3>2 DEF f, g, S
  <2> QED BY <2>6, <2>7
<1> QED BY <1>4 DEF WindowsOf

LEMMA BudgetRaised ==
    ASSUME DownloadAssumption, NEW ss \in Streams, NEW ws \in Streams, NEW t \in Transfer,
           NEW frame \in Nat, frame > 0, ss[t].hold = 0, ws[t].hold = frame,
           \A u \in Transfer \ {t} : ws[u] = ss[u], BudgetOf(ss), NEW b \in Nat,
           b + Total(HoldsOf(ss), Transfer) + frame <= BufferLimit(t)
    PROVE  BudgetOf(ws) /\ Total(HoldsOf(ws), Transfer) > 0
<1> DEFINE f == HoldsOf(ss)
           g == HoldsOf(ws)
           D == Of(FALSE)
<1>1. /\ \A u \in Transfer : /\ g[u] = ws[u].hold /\ ws[u].hold \in Nat
                              /\ f[u] = ss[u].hold /\ ss[u].hold \in Nat
      /\ Total(f, Transfer) \in Nat /\ Total(g, Transfer) \in Nat /\ Total(g, D) \in Nat
      /\ Total(g, D) <= Total(g, Transfer)
  BY HoldFacts
<1>2. IsFiniteSet(Transfer) /\ IsFiniteSet(D) /\ D \in SUBSET Transfer
  BY Finite
<1>3. Total(f, D) <= BufferData /\ b + Total(f, Transfer) + frame <= BufferLimit(t)
  BY DEF BudgetOf
<1>4. /\ BufferLimit(t) \in Nat /\ BufferLimit(t) <= BufferTotal /\ BufferData \in Nat
      /\ BufferTotal \in Nat
  BY Sizes
<1>5. Control(t) => t \notin D
  BY DEF Of
<1>6. BudgetOf(ws) <=> Total(g, D) <= BufferData /\ Total(g, Transfer) <= BufferTotal
  BY DEF BudgetOf
<1> HIDE DEF f, g, D
<1>7. /\ \A u \in Transfer : f[u] \in Int /\ g[u] \in Int
      /\ \A u \in Transfer \ {t} : f[u] = g[u]
      /\ g[t] - f[t] = frame
  BY <1>1
<1>8. Total(g, Transfer) = Total(f, Transfer) + (IF t \in Transfer THEN g[t] - f[t] ELSE 0)
  BY <1>2, <1>7, TotalChange
<1>9. Total(g, Transfer) = Total(f, Transfer) + frame
  BY <1>7, <1>8
<1>10. Total(g, Transfer) > 0 /\ Total(g, Transfer) <= BufferLimit(t) /\ Total(g, Transfer) <= BufferTotal
  BY <1>1, <1>3, <1>4, <1>9
<1>11. Total(g, D) <= BufferData
  <2>1. CASE Control(t)
    <3>1. \A u \in D : g[u] = f[u]
      BY <1>2, <1>5, <1>7, <2>1
    <3>2. Total(g, D) = Total(f, D)
      BY <1>2, <3>1, TotalSame
    <3> QED BY <1>3, <3>2
  <2>2. CASE ~Control(t)
    <3>1. BufferLimit(t) = BufferData
      BY <2>2 DEF BufferLimit
    <3> QED BY <1>1, <1>4, <1>10, <3>1
  <2> QED BY <2>1, <2>2
<1>12. Total(g, Transfer) > 0 /\ Total(g, Transfer) <= BufferTotal
  BY <1>10
<1>13. BudgetOf(ws)
  BY <1>6, <1>11, <1>12
<1> QED BY <1>12, <1>13 DEF g

(* The next states of the planning of a frame, field by field.             *)
Reserves(t, n, frame) ==
    /\ down' \in Downloads /\ down'[t].sent = down[t].sent + n
    /\ down'[t].present = down[t].present /\ down'[t].started = down[t].started
    /\ down'[t].acked = down[t].acked /\ down'[t].idle = down[t].idle
    /\ \A u \in Transfer \ {t} : down'[u] = down[u]
    /\ stream' \in Streams /\ stream'[t].at = "reading" /\ stream'[t].hold = frame
    /\ \A u \in Transfer \ {t} : stream'[u] = stream[u]
    /\ read' \in Reads /\ read'[t] = "live"
    /\ \A u \in Transfer \ {t} : read'[u] = read[u]

LEMMA Reserved ==
    ASSUME DownloadAssumption, Inv, NEW t \in Transfer, NEW n \in Nat, NEW frame \in Nat,
           down' = [down EXCEPT ![t].sent = @ + n],
           stream' = [stream EXCEPT ![t] = [at |-> "reading", hold |-> frame]],
           read' = [read EXCEPT ![t] = "live"]
    PROVE  Reserves(t, n, frame)
<1>1. down[t] \in DownloadType /\ down[t].sent \in Nat
  BY InvFacts DEF Downloads, DownloadType
<1>2. /\ down' \in Downloads /\ down'[t].sent = down[t].sent + n
      /\ down'[t].present = down[t].present /\ down'[t].started = down[t].started
      /\ down'[t].acked = down[t].acked /\ down'[t].idle = down[t].idle
      /\ \A u \in Transfer \ {t} : down'[u] = down[u]
  <2> DEFINE m == down[t].sent + n
  <2>1. m \in Nat
    BY <1>1
  <2>2. down' = [down EXCEPT ![t].sent = m]
    OBVIOUS
  <2> HIDE DEF m
  <2> DEFINE e == [down[t] EXCEPT !.sent = m]
  <2>3. /\ e \in DownloadType /\ e.sent = m /\ e.present = down[t].present
        /\ e.started = down[t].started /\ e.acked = down[t].acked /\ e.idle = down[t].idle
    BY <1>1, <2>1 DEF DownloadType
  <2>4. down' = [down EXCEPT ![t] = e] /\ down \in Downloads
    BY <2>2, InvFacts
  <2> HIDE DEF e
  <2>5. down' \in Downloads /\ down'[t] = e /\ \A u \in Transfer \ {t} : down'[u] = down[u]
    BY <2>3, <2>4 DEF Downloads
  <2> QED BY <2>3, <2>5 DEF m
<1>3. /\ stream' \in Streams /\ stream'[t].at = "reading" /\ stream'[t].hold = frame
      /\ \A u \in Transfer \ {t} : stream'[u] = stream[u]
  <2>1. [at |-> "reading", hold |-> frame] \in StreamType
    BY DEF StreamType, StreamStep
  <2> QED BY <2>1, InvFacts DEF Streams
<1>4. /\ read' \in Reads /\ read'[t] = "live"
      /\ \A u \in Transfer \ {t} : read'[u] = read[u]
  BY InvFacts DEF Reads
<1> QED BY <1>2, <1>3, <1>4 DEF Reserves

LEMMA InvReads ==
    ASSUME DownloadAssumption, Inv, NEW t \in Transfer, StreamAt(t, "plan"), down[t].present,
           NEW n, n = NextOf(down, t), n > 0, NEW frame, frame = Header + n,
           chan.buffered + Total(HoldsOf(stream), Transfer) + frame <= BufferLimit(t),
           Reserves(t, n, frame), UNCHANGED <<ctl, chan, stage, phone>>
    PROVE  Inv'
<1>1. /\ n \in Nat /\ n > 0 /\ down[t].sent + n <= Size[t]
      /\ Total(UnackOf(down), Of(Control(t))) + n <= ClassWindow(Control(t))
  BY NextFacts, InvFacts
<1>2. frame \in Nat /\ frame > 0 /\ Size[t] \in Nat
  <2>1. Header \in Nat /\ Size[t] \in Nat
    BY Sizes
  <2> QED BY <1>1, <2>1
<1>3. /\ down[t] \in DownloadType /\ down[t].sent \in Nat /\ down[t].acked \in Nat
      /\ down[t].acked <= down[t].sent /\ down[t].started
      /\ stream[t].at = "plan" /\ stream[t].hold = 0 /\ read[t] = "none"
  <2>1. down[t] \in DownloadType /\ stream[t] \in StreamType /\ read[t] \in {"none", "live", "orphan"}
    BY InvFacts, At1
  <2>2. FlowOf(down[t], stream[t], read[t], Size[t]) /\ stream[t].at = "plan"
    BY InvFacts DEF Flow, StreamAt
  <2>3. down[t].sent \in Nat /\ down[t].acked \in Nat /\ stream[t].hold \in Nat
    BY <2>1 DEF DownloadType, StreamType
  <2>4. down[t].started
    BY <2>2, InvFacts DEF Book, BookAt
  <2>5. ~(stream[t].hold > 0)
    BY <2>2 DEF FlowOf, Sending
  <2> QED BY <2>1, <2>2, <2>3, <2>4, <2>5 DEF FlowOf
<1>4. /\ down' \in Downloads /\ down'[t].sent = down[t].sent + n
      /\ down'[t].present = down[t].present /\ down'[t].started = down[t].started
      /\ down'[t].acked = down[t].acked /\ down'[t].idle = down[t].idle
      /\ \A u \in Transfer \ {t} : down'[u] = down[u]
  BY DEF Reserves
<1>5. /\ stream' \in Streams /\ stream'[t].at = "reading" /\ stream'[t].hold = frame
      /\ \A u \in Transfer \ {t} : stream'[u] = stream[u]
  BY DEF Reserves
<1>6. /\ read' \in Reads /\ read'[t] = "live"
      /\ \A u \in Transfer \ {t} : read'[u] = read[u]
  BY DEF Reserves
<1>7. FlowTypes' /\ Rest'
  BY <1>4, <1>5, <1>6, InvFacts DEF FlowTypes, Rest
<1>8. Flow'
  <2>1. ASSUME NEW u \in Transfer PROVE FlowOf(down'[u], stream'[u], read'[u], Size[u])
    <3>1. FlowOf(down[u], stream[u], read[u], Size[u])
      BY InvFacts DEF Flow
    <3>2. CASE u = t
      <4>1. down'[t].acked <= down'[t].sent /\ down'[t].sent <= Size[t]
        BY <1>1, <1>2, <1>3, <1>4
      <4> QED BY <1>2, <1>4, <1>5, <1>6, <3>1, <3>2, <4>1 DEF FlowOf, Sending
    <3>3. CASE u # t
      BY <1>4, <1>5, <1>6, <3>1, <3>3
    <3> QED BY <3>2, <3>3
  <2> QED BY <2>1 DEF Flow
<1>9. Book'
  <2>1. ASSUME NEW u \in Transfer PROVE Told(u) /\ Follows(u)
    <3>1. Told(u)
      BY DEF Told
    <3>2. CASE u = t
      BY <1>3, <1>4, <1>5, <1>6, <3>1, <3>2 DEF Follows
    <3>3. CASE u # t
      BY <1>4, <1>5, <1>6, <3>1, <3>3 DEF Follows
    <3> QED BY <3>2, <3>3
  <2> QED BY <2>1, QueueSame, BookKept, InvFacts
<1>10. WindowsOf(down')
  <2>1. down \in Downloads /\ WindowsOf(down) /\ down'[t].present
    BY <1>4, InvFacts DEF Inv
  <2>2. down'[t].sent = down[t].sent + n /\ down'[t].acked = down[t].acked /\ n \in Nat
    BY <1>1, <1>4
  <2>3. Total(UnackOf(down), Of(Control(t))) + n <= ClassWindow(Control(t))
    BY <1>1
  <2>4. down' \in Downloads /\ \A u \in Transfer \ {t} : down'[u] = down[u]
    BY <1>4
  <2> QED BY <2>1, <2>2, <2>3, <2>4, WindowRaised
<1>13. BudgetOf(stream') /\ Total(HoldsOf(stream'), Transfer) > 0
  <2>1. stream \in Streams /\ BudgetOf(stream) /\ chan.buffered \in Nat
    BY InvFacts DEF Inv
  <2> QED BY <1>2, <1>3, <1>5, <2>1, BudgetRaised
<1>14. SlotsOf(down', read')
  <2>1. ASSUME NEW c \in BOOLEAN
        PROVE  /\ Cardinality(ActiveIn(down', c)) <= Limit(c)
               /\ Cardinality(MayRead(down', read', c)) <= Limit(c)
    <3>1. ActiveIn(down', c) \subseteq ActiveIn(down, c) /\ ActiveIn(down, c) \in SUBSET Transfer
      BY <1>4 DEF ActiveIn
    <3>2. MayRead(down', read', c) \subseteq MayRead(down, read, c) /\ MayRead(down, read, c) \in SUBSET Transfer
      BY <1>3, <1>4, <1>6 DEF MayRead, Of
    <3> QED BY <3>1, <3>2, Fewer DEF Inv, SlotsOf
  <2> QED BY <2>1 DEF SlotsOf
<1>15. ReasonsOf(down', stream')
  BY <1>13 DEF ReasonsOf
<1>16. Staged'
  <2>1. stage \notin {"tasks", "reads", "quiet"}
    BY DEF Inv, Staged
  <2> QED BY <2>1 DEF Inv, Staged
<1> QED BY <1>7, <1>8, <1>9, <1>10, <1>13, <1>14, <1>15, <1>16 DEF Inv

LEMMA InvPlan ==
    ASSUME DownloadAssumption, Inv, NEW t \in Transfer, Plan(t)
    PROVE  Inv'
<1> DEFINE n == NextLength(t)
<1>1. StreamAt(t, "plan") /\ UNCHANGED <<ctl, chan, stage, phone>> /\ n = NextOf(down, t)
  BY OfState DEF Plan
<1>2. n \in Nat
  BY <1>1, NextFacts, InvFacts
<1>3. ASSUME NEW step \in {"ended", "capacity"}, StreamTo(t, step), UNCHANGED <<down, read>>
      PROVE  Inv'
  <2>1. stream[t].at = "plan" /\ ~Sending(stream[t]) /\ read[t] # "live"
    BY <1>1, InvFacts DEF StreamAt, Sending, Flow, FlowOf
  <2>2. step \in StreamStep \ {"none", "parked"} /\ step \notin {"reading", "room"}
    BY DEF StreamStep
  <2>3. Eased
    BY <1>3, <2>1, <2>2, EasedMove, InvFacts
  <2> QED BY <1>1, <2>3, FlowStep, InvFacts
<1>4. /\ chan.buffered \in Nat /\ Total(HoldsOf(stream), Transfer) \in Nat /\ BufferLimit(t) \in Nat
      /\ ReservedBytes = Total(HoldsOf(stream), Transfer) /\ Header \in Nat
  BY HoldFacts, OfState, Sizes, InvFacts
<1>5. CASE /\ \/ n = 0
              \/ chan.buffered + (Header + n) <= BufferLimit(t) /\ ~Fits(t, Header + n)
           /\ StreamTo(t, "parked") /\ UNCHANGED <<down, read>>
  <2>1. n = 0 \/ Total(HoldsOf(stream), Transfer) > 0
    <3> HIDE DEF n
    <3> QED BY <1>2, <1>4, <1>5 DEF Fits
  <2> QED BY <1>1, <1>5, <2>1, InvParks
<1>6. CASE /\ down[t].present /\ n > 0 /\ Fits(t, Header + n)
           /\ down' = [down EXCEPT ![t].sent = @ + n]
           /\ stream' = [stream EXCEPT ![t] = [at |-> "reading", hold |-> Header + n]]
           /\ read' = [read EXCEPT ![t] = "live"]
  <2>1. chan.buffered + Total(HoldsOf(stream), Transfer) + (Header + n) <= BufferLimit(t)
    BY <1>4, <1>6 DEF Fits
  <2>2. Header + n \in Nat
    BY <1>2, <1>4
  <2> DEFINE frame == Header + n
  <2> HIDE DEF n
  <2>3. Reserves(t, n, frame)
    BY <1>2, <1>6, <2>2, Reserved
  <2> QED BY <1>1, <1>6, <2>1, <2>3, InvReads
<1> QED BY <1>3, <1>5, <1>6 DEF Plan
-----------------------------------------------------------------------------
(* The invariant and the properties that follow from it.                   *)

LEMMA InvInit ==
    ASSUME DownloadAssumption, Init
    PROVE  Inv
<1>1. Absent \in DownloadType /\ ~Absent.present /\ ~Absent.started /\ Absent.sent = 0
      /\ Absent.acked = 0 /\ ~Absent.idle
  BY DEF Absent, DownloadType
<1>2. /\ \A t \in Transfer : /\ down[t] = Absent /\ read[t] = "none"
                             /\ stream[t].at = "none" /\ stream[t].hold = 0
      /\ down \in Downloads /\ stream \in Streams /\ read \in Reads
      /\ ctl \in Queues /\ \A q \in Queue : ctl[q] = << >>
      /\ stage = "live"
  BY <1>1 DEF Init, Downloads, Streams, StreamType, StreamStep, Reads, Queues
<1>3. FlowTypes /\ Rest
  BY <1>2 DEF FlowTypes, Rest, Init, Stages
<1>4. Flow
  <2>1. \A t \in Transfer : Size[t] \in Nat
    BY Sizes
  <2> QED BY <1>1, <1>2, <2>1 DEF Flow, FlowOf, Sending
<1>5. Book
  <2>1. \A q \in Queue : 1 .. Len(ctl[q]) = {}
    BY <1>2
  <2>2. Once(ctl) /\ \A op, t, S : ~Pending(ctl, op, t, S)
    BY <2>1 DEF Once, Pending
  <2>3. phone.sent = {} /\ phone.told = {}
    BY DEF Init
  <2>4. ASSUME NEW t \in Transfer
        PROVE  BookAt(ctl, phone, down[t], stream[t], read[t], t)
    <3>1. ~down[t].present /\ ~down[t].started /\ stream[t].at = "none" /\ read[t] = "none"
      BY <1>1, <1>2
    <3>2. \A op, S : ~Pending(ctl, op, t, S)
      BY <2>2
    <3> QED BY <2>3, <3>1, <3>2 DEF BookAt
  <2> QED BY <2>2, <2>4 DEF Book
<1>6. /\ \A t \in Transfer : UnackOf(down)[t] = 0 /\ HoldsOf(stream)[t] = 0
      /\ \A c \in BOOLEAN : Total(UnackOf(down), Of(c)) = 0 /\ Total(HoldsOf(stream), Of(c)) = 0
      /\ Total(HoldsOf(stream), Transfer) = 0
  <2>1. \A t \in Transfer : UnackOf(down)[t] = 0 /\ HoldsOf(stream)[t] = 0
    BY <1>1, <1>2 DEF UnackOf, HoldsOf
  <2>2. Total(HoldsOf(stream), Transfer) = 0
    BY <2>1, Finite, TotalZero
  <2>3. ASSUME NEW c \in BOOLEAN
        PROVE  Total(UnackOf(down), Of(c)) = 0 /\ Total(HoldsOf(stream), Of(c)) = 0
    <3>1. IsFiniteSet(Of(c)) /\ \A t \in Of(c) : UnackOf(down)[t] = 0 /\ HoldsOf(stream)[t] = 0
      BY <2>1, Finite
    <3> QED BY <3>1, TotalZero
  <2> QED BY <2>1, <2>2, <2>3
<1>7. WindowsOf(down)
  <2>1. \A c \in BOOLEAN : ClassWindow(c) \in Nat
    BY Sizes
  <2> QED BY <1>6, <2>1 DEF WindowsOf
<1>8. BudgetOf(stream)
  <2>1. BufferData \in Nat /\ BufferTotal \in Nat
    BY Sizes
  <2>2. Total(HoldsOf(stream), Of(FALSE)) = 0
    BY <1>6
  <2>3. Total(HoldsOf(stream), Transfer) = 0
    BY <1>6
  <2>4. \A a, b \in Nat : a = 0 => a <= b
    OBVIOUS
  <2>5. 0 \in Nat
    OBVIOUS
  <2>6. Total(HoldsOf(stream), Of(FALSE)) <= BufferData
    BY ONLY <2>1, <2>2, <2>4, <2>5, Zenon
  <2>7. Total(HoldsOf(stream), Transfer) <= BufferTotal
    BY ONLY <2>1, <2>3, <2>4, <2>5, Zenon
  <2> QED BY ONLY <2>6, <2>7, Zenon DEF BudgetOf
<1>9. SlotsOf(down, read)
  <2>1. ASSUME NEW c \in BOOLEAN
        PROVE  /\ Cardinality(ActiveIn(down, c)) <= Limit(c)
               /\ Cardinality(MayRead(down, read, c)) <= Limit(c)
    <3>1. ActiveIn(down, c) = {} /\ MayRead(down, read, c) = {}
      BY <1>1, <1>2 DEF ActiveIn, MayRead, Of
    <3>2. Cardinality({}) = 0 /\ Limit(c) \in Nat
      BY FS_EmptySet, Sizes
    <3> QED BY <3>1, <3>2
  <2> QED BY <2>1 DEF SlotsOf
<1>10. ReasonsOf(down, stream) /\ Staged
  BY <1>2 DEF ReasonsOf, Staged
<1> QED BY <1>3, <1>4, <1>5, <1>7, <1>8, <1>9, <1>10 DEF Inv

LEMMA InvNext ==
    ASSUME DownloadAssumption, Inv, [Next]_vars
    PROVE  Inv'
<1>1. CASE UNCHANGED vars
  <2>1. /\ UNCHANGED <<down, stream, read>> /\ UNCHANGED <<ctl, chan, stage, phone>>
    BY <1>1 DEF vars
  <2>2. Eased
    BY <2>1, EasedSame, InvFacts
  <2> QED BY <2>1, <2>2, FlowStep, InvFacts
<1>2. CASE Receive
  <2>1. ASSUME NEW r \in Requests, ReceiveRequest(r[1], r[2]) PROVE Inv'
    <3>1. r = <<r[1], r[2]>>
      BY DEF DownloadAssumption
    <3>2. <<r[1], r[2]>> \in Requests
      BY <3>1
    <3> QED BY <2>1, <3>2, InvReceiveRequest
  <2>2. ASSUME NEW t \in Transfer, NEW size \in 0 .. Size[t], Acknowledge(t, size) PROVE Inv'
    BY <2>2, InvAcknowledge
  <2> QED BY <1>2, <2>1, <2>2 DEF Receive
<1>3. ASSUME NEW q \in Queue, ControlStep(q) PROVE Inv'
  BY <1>3, InvSkipTask, InvBeginDownload, InvFileFound, InvStartDownload, InvFinishDownload,
     InvAbortRequest, InvRespond, InvFail DEF ControlStep
<1>4. ASSUME NEW t \in Transfer, StreamTask(t) \/ OrphanSettles(t) \/ Expire(t) PROVE Inv'
  BY <1>4, InvFindCapacity, InvPlan, InvReadSettles, InvReadCancelled, InvSendFrame,
     InvOrphanSettles, InvExpire DEF StreamTask
<1>5. CASE Drain \/ ChannelCloses \/ PageDisposes \/ QuiesceQueues \/ QuiesceReads
  BY <1>5, InvChannel, InvQuiesce
<1> QED BY <1>1, <1>2, <1>3, <1>4, <1>5 DEF Next

(* Every reachable state satisfies the invariant.                          *)
THEOREM Invariance == Spec => []Inv
<1>1. Init => Inv
  BY DownloadAssumption, InvInit
<1>2. Inv /\ [Next]_vars => Inv'
  BY DownloadAssumption, InvNext
<1> QED BY <1>1, <1>2, PTL DEF Spec

(* The variables keep their types.                                         *)
THEOREM Typing == Spec => []TypeOK
<1>1. Inv => TypeOK
  BY TypesOK DEF Inv, FlowTypes, Rest, Types
<1> QED BY <1>1, Invariance, PTL

(* The unacknowledged bytes of a class never exceed its window, whatever   *)
(* is planned, aborted and acknowledged in between.                        *)
THEOREM Window == Spec => []WindowsKept
<1>1. Inv => WindowsKept
  BY OfState DEF Inv, Flow, FlowOf, WindowsOf, WindowsKept
<1> QED BY <1>1, Invariance, PTL

(* What the streams hold for their reads fits the native queue, the data   *)
(* class its own part of it.                                               *)
THEOREM SendBudget == Spec => []SendBudgetKept
<1>1. Inv => SendBudgetKept
  BY OfState DEF Inv, Flow, FlowOf, Sending, BudgetOf, HoldsOf, SendBudgetKept
<1> QED BY <1>1, Invariance, PTL

(* No stream waits without a reason that a later wake-up will take away.   *)
THEOREM Parked == Spec => []ParkedForAReason
<1>1. Inv => ParkedForAReason
  BY OfState DEF Inv, ReasonsOf, ParkedForAReason, StreamAt
<1> QED BY <1>1, Invariance, PTL

(* No class has more native reads under way, abandoned ones included, than *)
(* it may have downloads.                                                  *)
THEOREM NativeReads == Spec => []NativeReadsBounded
<1>1. Inv => NativeReadsBounded
  <2> SUFFICES ASSUME Inv, NEW c \in BOOLEAN
               PROVE  Cardinality({t \in Of(c) : read[t] # "none"}) <= Limit(c)
    BY DEF NativeReadsBounded
  <2> DEFINE R == {t \in Of(c) : read[t] # "none"}
  <2>1. \A t \in Transfer : read[t] # "none" =>
           (down[t].present /\ down[t].started) \/ read[t] = "orphan"
    <3>1. FlowTypes /\ Flow /\ ReadsStarted
      BY BookReads, InvFacts
    <3> QED BY <3>1, At1 DEF Flow, FlowOf, ReadsStarted
  <2>2. R \subseteq MayRead(down, read, c) /\ MayRead(down, read, c) \in SUBSET Transfer
    BY <2>1 DEF MayRead, Of
  <2>3. Cardinality(MayRead(down, read, c)) <= Limit(c)
    BY DEF Inv, SlotsOf
  <2> QED BY <2>2, <2>3, DownloadAssumption, Fewer
<1> QED BY <1>1, Invariance, PTL

(* Once waitForQuiescence has resolved, the node does nothing any more.    *)
THEOREM Quiescence == Spec => []QuietMeansQuiet
<1>1. Inv => QuietMeansQuiet
  <2> SUFFICES ASSUME Inv, stage = "quiet"
               PROVE  /\ \A q \in Queue : ctl[q] = << >>
                      /\ TasksEnded
                      /\ \A t \in Transfer : ~down[t].present /\ ~down[t].idle /\ read[t] = "none"
    BY DEF QuietMeansQuiet
  <2>1. /\ \A q \in Queue : ctl[q] = << >>
        /\ TasksEnded
        /\ \A t \in Transfer : ~down[t].present /\ read[t] # "orphan"
    BY DEF Inv, Staged, Queue
  <2>2. \A t \in Transfer : /\ read[t] = "live" => down[t].present
                            /\ down[t].idle => down[t].present
    BY InvFacts DEF Flow, FlowOf
  <2>3. \A t \in Transfer : read[t] \in {"none", "live", "orphan"}
    BY InvFacts, At1
  <2> QED BY <2>1, <2>2, <2>3
<1> QED BY <1>1, Invariance, PTL
=============================================================================
