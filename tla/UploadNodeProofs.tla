--------------------------- MODULE UploadNodeProofs ---------------------------
(***************************************************************************)
(* Theorems about UploadNode, for every set of transfers, paths, sizes,    *)
(* limits and requests.                                                    *)
(***************************************************************************)
EXTENDS UploadNode, FiniteSetTheorems, SequenceTheorems, TLAPS

-----------------------------------------------------------------------------
(* One upload.                                                             *)

OpenNow(u) == u.present /\ u.cleanup = "none"

(* What holds of an upload even between a lost write and its abort.        *)
Shaped(t, u) ==
    /\ u \in UploadType
    /\ u.idle => Quiet(u)
    /\ u.stream = "closing" =>
          u.received = Size[t] /\ u.pending = 0 /\ u.written + u.writing = Size[t]
    /\ u.stream = "closed" => u.written = Size[t] /\ ~u.present
    /\ u.stream \in {"open", "closing"} => u.present /\ u.cleanup \in {"none", "aborting"}
    /\ u.cleanup = "done" => ~u.present

Sound(t, u) ==
    /\ Shaped(t, u)
    /\ OpenNow(u) => u.received = u.written + u.writing + u.pending

AtRest(u) == ~OpenNow(u) /\ u.cleanup \in {"none", "done"}

(* The state v may follow u, unless it is that of a new upload.            *)
Follows(t, u, v) ==
    /\ Sound(t, v)
    /\ v.present => u.present
    /\ OpenNow(v) => OpenNow(u)
    /\ AtRest(u) => AtRest(v)

GivenUp(u) == IF OpenNow(u) THEN [u EXCEPT !.cleanup = "aborting", !.idle = FALSE] ELSE u

LEMMA LessFacts ==
    ASSUME NEW n \in Nat
    PROVE  Less(n) \in Nat /\ Less(n) <= n /\ Less(n) >= n - 1
BY DEF Less

(* What an operation of the counters changes: nothing else.                *)
Counts(u, v) ==
    /\ v \in UploadType
    /\ v.idle => Quiet(v)
    /\ v.present = u.present /\ v.cleanup = u.cleanup /\ v.stream = u.stream
    /\ v.received = u.received /\ v.written = u.written /\ v.writing = u.writing
    /\ v.pending = u.pending /\ v.removeOnAbort = u.removeOnAbort

LEMMA CountsKeep ==
    ASSUME NEW t \in Transfer, NEW u, NEW v, Counts(u, v)
    PROVE  /\ Shaped(t, u) => Shaped(t, v)
           /\ Sound(t, u) => Follows(t, u, v)
BY DEF Counts, Shaped, Sound, Follows, AtRest, OpenNow

LEMMA Counting ==
    ASSUME NEW u \in UploadType, u.idle => Quiet(u)
    PROVE  /\ Counts(u, NoteFrame(u)) /\ Counts(u, NoteTerminal(u))
           /\ Counts(u, CompleteTerminal(u)) /\ Counts(u, EndOperation(u))
           /\ Counts(u, BeginOperation(CompleteFrame(u)))
           /\ Counts(u, [u EXCEPT !.idle = FALSE])
<1>1. Counts(u, NoteFrame(u))
  <2> DEFINE n == u.queuedFrames + 1
  <2>1. n \in Nat
    BY DEF UploadType
  <2>2. NoteFrame(u) = [u EXCEPT !.idle = FALSE, !.queuedFrames = n]
    BY DEF NoteFrame
  <2> HIDE DEF n
  <2> QED BY <2>1, <2>2 DEF Counts, UploadType
<1>2. Counts(u, NoteTerminal(u))
  <2> DEFINE n == u.queuedTerminalControls + 1
  <2>1. n \in Nat
    BY DEF UploadType
  <2>2. NoteTerminal(u) = [u EXCEPT !.idle = FALSE, !.queuedTerminalControls = n]
    BY DEF NoteTerminal
  <2> HIDE DEF n
  <2> QED BY <2>1, <2>2 DEF Counts, UploadType
<1>3. ASSUME NEW v, Counts(u, v) PROVE Counts(u, Rearmed(v))
  BY <1>3 DEF Counts, UploadType, Quiet, Rearmed
<1>4. Counts(u, CompleteTerminal(u))
  <2> DEFINE v == [u EXCEPT !.queuedTerminalControls = Less(@)]
  <2>1. Less(u.queuedTerminalControls) \in Nat /\ Less(u.queuedTerminalControls) <= u.queuedTerminalControls
    BY LessFacts DEF UploadType
  <2>2. Counts(u, v)
    BY <2>1 DEF Counts, UploadType, Quiet
  <2> HIDE DEF v
  <2>3. Counts(u, Rearmed(v))
    BY <1>3, <2>2
  <2> QED BY <2>3 DEF CompleteTerminal, v
<1>5. Counts(u, EndOperation(u))
  <2> DEFINE v == [u EXCEPT !.activeOperations = Less(@)]
  <2>1. Less(u.activeOperations) \in Nat /\ Less(u.activeOperations) <= u.activeOperations
    BY LessFacts DEF UploadType
  <2>2. Counts(u, v)
    BY <2>1 DEF Counts, UploadType, Quiet
  <2>3. EndOperation(u) = IF u.present THEN Rearmed(v) ELSE v
    BY DEF EndOperation
  <2> HIDE DEF v
  <2> QED BY <1>3, <2>2, <2>3
<1>6. Counts(u, BeginOperation(CompleteFrame(u)))
  <2> DEFINE v == [u EXCEPT !.queuedFrames = Less(@)]
  <2>1. Less(u.queuedFrames) \in Nat
    BY LessFacts DEF UploadType
  <2>2. /\ v \in UploadType
        /\ v.present = u.present /\ v.cleanup = u.cleanup /\ v.stream = u.stream
        /\ v.received = u.received /\ v.written = u.written /\ v.writing = u.writing
        /\ v.pending = u.pending /\ v.removeOnAbort = u.removeOnAbort
    BY <2>1 DEF UploadType
  <2>3. CompleteFrame(u) = v
    BY DEF CompleteFrame
  <2> HIDE DEF v
  <2> DEFINE n == v.activeOperations + 1
  <2>4. n \in Nat
    BY <2>2 DEF UploadType
  <2>5. BeginOperation(v) = [v EXCEPT !.idle = FALSE, !.activeOperations = n]
    BY DEF BeginOperation
  <2> HIDE DEF n
  <2>6. Counts(u, BeginOperation(v))
    BY <2>2, <2>4, <2>5 DEF Counts, UploadType
  <2> QED BY <2>3, <2>6
<1>7. Counts(u, [u EXCEPT !.idle = FALSE])
  BY DEF Counts, UploadType, Quiet
<1> QED BY <1>1, <1>2, <1>4, <1>5, <1>6, <1>7

LEMMA GivingUp ==
    ASSUME NEW t \in Transfer, NEW u, Shaped(t, u)
    PROVE  Follows(t, u, GivenUp(u)) /\ ~OpenNow(GivenUp(u)) /\ GivenUp(u).present = u.present
BY DEF Shaped, Sound, Follows, AtRest, OpenNow, GivenUp, UploadType, Quiet

LEMMA AbortingIs ==
    ASSUME NEW ups, NEW T, NEW t \in Transfer
    PROVE  Aborting(ups, T)[t] = IF t \in T THEN GivenUp(ups[t]) ELSE ups[t]
BY DEF Aborting, GivenUp, OpenNow

LEMMA Flushing ==
    ASSUME NEW t \in Transfer, NEW u, Sound(t, u)
    PROVE  Follows(t, u, Flushed(u)) /\ Flushed(u).pending = 0
<1> DEFINE n == u.writing + u.pending
           z == 0
<1>1. u \in UploadType /\ n \in Nat /\ z \in Nat
  BY DEF Sound, Shaped, UploadType
<1>2. /\ u.received = u.written + u.writing + u.pending => u.received = u.written + n + z
      /\ u.pending = 0 => n = u.writing
  BY DEF Sound, Shaped, UploadType
<1>3. Flushed(u) = [u EXCEPT !.writing = n, !.pending = z] /\ z = 0
  BY DEF Flushed
<1> HIDE DEF n, z
<1>4. /\ Flushed(u) \in UploadType
      /\ Flushed(u).pending = z /\ Flushed(u).writing = n /\ Flushed(u).written = u.written
      /\ Flushed(u).received = u.received /\ Flushed(u).stream = u.stream
      /\ Flushed(u).present = u.present /\ Flushed(u).cleanup = u.cleanup
      /\ Flushed(u).idle = u.idle /\ (Quiet(u) => Quiet(Flushed(u)))
  BY ONLY <1>1, <1>3 DEF UploadType, Quiet
<1> QED BY <1>2, <1>3, <1>4 DEF Shaped, Sound, Follows, AtRest, OpenNow

LEMMA Landing ==
    ASSUME NEW t \in Transfer, NEW u, Shaped(t, u), u.stream # "closed"
    PROVE  /\ Sound(t, u) => Follows(t, u, Landed(u))
           /\ Shaped(t, Landed(u))
           /\ Landed(u).present = u.present /\ Landed(u).cleanup = u.cleanup
           /\ Landed(u).stream = u.stream /\ Landed(u).written = u.written + u.writing
<1> DEFINE n == u.written + u.writing
           z == 0
<1>1. u \in UploadType /\ n \in Nat /\ z \in Nat
  BY DEF Shaped, UploadType
<1>2. /\ u.received = u.written + u.writing + u.pending => u.received = n + z + u.pending
      /\ n + z = u.written + u.writing
  BY DEF Shaped, UploadType
<1>3. Landed(u) = [u EXCEPT !.written = n, !.writing = z]
  BY DEF Landed
<1>4. n = u.written + u.writing
  OBVIOUS
<1> HIDE DEF n, z
<1>5. /\ Landed(u) \in UploadType
      /\ Landed(u).writing = z /\ Landed(u).written = n /\ Landed(u).pending = u.pending
      /\ Landed(u).received = u.received /\ Landed(u).stream = u.stream
      /\ Landed(u).present = u.present /\ Landed(u).cleanup = u.cleanup
      /\ Landed(u).idle = u.idle /\ (Quiet(u) => Quiet(Landed(u)))
  BY ONLY <1>1, <1>3 DEF UploadType, Quiet
<1> QED BY <1>2, <1>4, <1>5 DEF Shaped, Sound, Follows, AtRest, OpenNow

LEMMA Losing ==
    ASSUME NEW t \in Transfer, NEW u, Shaped(t, u)
    PROVE  Shaped(t, Lost(u)) /\ Lost(u).present = u.present /\ Lost(u).cleanup = u.cleanup
BY DEF Shaped, Lost, UploadType, Quiet

(* Bytes are taken only before close(), and only as many as are missing.   *)
LEMMA Taking ==
    ASSUME NEW t \in Transfer, NEW u, Sound(t, u), u.stream \notin {"closing", "closed"},
           NEW f, f.length \in Nat
    PROVE  Follows(t, u, Taken(u, f))
<1> DEFINE n == u.pending + f.length
           m == u.received + f.length
<1>1. n \in Nat /\ m \in Nat
  BY DEF Sound, Shaped, UploadType
<1>2. u.received = u.written + u.writing + u.pending => m = u.written + u.writing + n
  BY DEF Sound, Shaped, UploadType
<1>3. Taken(u, f) = [u EXCEPT !.pending = n, !.received = m]
  BY DEF Taken
<1> HIDE DEF n, m
<1> QED BY <1>1, <1>2, <1>3 DEF Shaped, Sound, Follows, AtRest, OpenNow, UploadType, Quiet

LEMMA FollowsOn ==
    ASSUME NEW t \in Transfer, NEW u, NEW v, NEW w, Follows(t, u, v), Follows(t, v, w)
    PROVE  Follows(t, u, w)
BY DEF Follows

LEMMA Finishing ==
    ASSUME NEW t \in Transfer, NEW u, Sound(t, u), OpenNow(u), u.received = Size[t]
    PROVE  Follows(t, u, [Flushed(u) EXCEPT !.idle = FALSE, !.stream = "closing"])
<1> DEFINE v == Flushed(u)
<1>1. Follows(t, u, v) /\ v.pending = 0
  BY Flushing
<1>2. v.present = u.present /\ v.cleanup = u.cleanup /\ v.received = u.received
  BY DEF Flushed, Sound, Shaped, UploadType
<1> HIDE DEF v
<1>3. v.written + v.writing = Size[t]
  <2>1. v.received = v.written + v.writing + 0
    BY <1>1, <1>2 DEF Follows, Sound, OpenNow
  <2>2. v.written \in Nat /\ v.writing \in Nat
    BY <1>1 DEF Follows, Sound, Shaped, UploadType
  <2> QED BY <1>2, <2>1, <2>2
<1>4. Follows(t, u, [v EXCEPT !.idle = FALSE, !.stream = "closing"])
  BY <1>1, <1>2, <1>3 DEF Follows, AtRest, Sound, Shaped, OpenNow, UploadType, Quiet
<1> QED BY <1>4 DEF v

LEMMA Committing ==
    ASSUME NEW t \in Transfer, NEW u, Sound(t, u), u.stream = "closing"
    PROVE  Follows(t, u, [Landed(u) EXCEPT !.stream = "closed", !.present = FALSE])
<1> DEFINE v == Landed(u)
<1>1. Shaped(t, v) /\ v.cleanup = u.cleanup /\ v.written = Size[t]
  BY Landing DEF Sound, Shaped
<1>2. u.present /\ u.cleanup \in {"none", "aborting"}
  BY DEF Sound, Shaped
<1> HIDE DEF v
<1>3. Follows(t, u, [v EXCEPT !.stream = "closed", !.present = FALSE])
  BY <1>1, <1>2 DEF Follows, AtRest, Sound, Shaped, OpenNow, UploadType, Quiet
<1> QED BY <1>3 DEF v

LEMMA Installing ==
    ASSUME NEW t \in Transfer, NEW fresh \in BOOLEAN
    PROVE  Sound(t, Installed(fresh)) /\ OpenNow(Installed(fresh)) /\ Sound(t, Absent)
<1> DEFINE z == 0
<1>1. z \in Nat /\ z + z + z = z /\ z = 0
  OBVIOUS
<1>2. Absent = [present |-> FALSE, stream |-> "none", received |-> z, pending |-> z, writing |-> z,
                written |-> z, queuedFrames |-> z, queuedTerminalControls |-> z,
                activeOperations |-> z, idle |-> FALSE, removeOnAbort |-> FALSE, cleanup |-> "none"]
  BY DEF Absent
<1> HIDE DEF z
<1> QED BY <1>1, <1>2 DEF Installed, Sound, Shaped, OpenNow, UploadType, Quiet

LEMMA Settling ==
    ASSUME NEW t \in Transfer, NEW u, Sound(t, u)
    PROVE  /\ u.cleanup = "aborting" /\ u.stream # "closing"
                => LET v == [u EXCEPT !.stream = IF @ = "open" THEN "aborted" ELSE @]
                   IN  Follows(t, u, IF v.removeOnAbort THEN [v EXCEPT !.cleanup = "removing"]
                                     ELSE Removed(v))
           /\ u.cleanup = "removing" => Follows(t, u, Removed(u))
<1>1. ASSUME u.cleanup = "aborting", u.stream # "closing"
      PROVE  LET v == [u EXCEPT !.stream = IF @ = "open" THEN "aborted" ELSE @]
             IN  Follows(t, u, IF v.removeOnAbort THEN [v EXCEPT !.cleanup = "removing"]
                               ELSE Removed(v))
  <2> DEFINE v == [u EXCEPT !.stream = IF @ = "open" THEN "aborted" ELSE @]
  <2>1. /\ Shaped(t, [v EXCEPT !.cleanup = "done", !.present = FALSE])
        /\ Shaped(t, [v EXCEPT !.cleanup = "removing"])
        /\ v.present = u.present
    BY <1>1 DEF Sound, Shaped, UploadType, Quiet
  <2>2. v \in UploadType
    BY DEF Sound, Shaped, UploadType
  <2> HIDE DEF v
  <2> QED BY <1>1, <2>1, <2>2 DEF Follows, AtRest, Sound, OpenNow, Removed, UploadType, v
<1>2. ASSUME u.cleanup = "removing" PROVE Follows(t, u, Removed(u))
  BY <1>2 DEF Follows, AtRest, Sound, Shaped, OpenNow, Removed, UploadType, Quiet
<1> QED BY <1>1, <1>2

-----------------------------------------------------------------------------
(* All uploads.                                                            *)

Uploads == [Transfer -> UploadType]

UploadsSound(ups) == ups \in Uploads /\ \A t \in Transfer : Sound(t, ups[t])

UploadsFollow(ups, after) ==
    UploadsSound(after) /\ \A t \in Transfer : Follows(t, ups[t], after[t])

LEMMA NoneChanges ==
    ASSUME NEW ups, UploadsSound(ups)
    PROVE  UploadsFollow(ups, ups)
BY DEF UploadsSound, UploadsFollow, Follows

LEMMA OneChanges ==
    ASSUME NEW ups, UploadsSound(ups), NEW t \in Transfer, NEW v, Follows(t, ups[t], v)
    PROVE  UploadsFollow(ups, [ups EXCEPT ![t] = v])
BY NoneChanges DEF UploadsSound, UploadsFollow, Uploads, Follows, Sound, Shaped

LEMMA SomeGiveUp ==
    ASSUME NEW ups, UploadsSound(ups), NEW T
    PROVE  /\ UploadsFollow(ups, Aborting(ups, T))
           /\ \A t \in T \cap Transfer : ~OpenNow(Aborting(ups, T)[t])
<1>1. ASSUME NEW t \in Transfer
      PROVE  Follows(t, ups[t], Aborting(ups, T)[t]) /\ (t \in T => ~OpenNow(Aborting(ups, T)[t]))
  <2>1. Sound(t, ups[t]) /\ Shaped(t, ups[t]) /\ Follows(t, ups[t], ups[t])
    BY NoneChanges DEF UploadsSound, UploadsFollow, Sound
  <2> QED BY <2>1, GivingUp, AbortingIs
<1>2. Aborting(ups, T) \in Uploads
  <2>1. Aborting(ups, T) = [t \in Transfer |-> Aborting(ups, T)[t]]
    BY DEF Aborting
  <2>2. \A t \in Transfer : Aborting(ups, T)[t] \in UploadType
    BY <1>1 DEF Follows, Sound, Shaped
  <2> QED BY <2>1, <2>2 DEF Uploads
<1> QED BY <1>1, <1>2 DEF UploadsFollow, UploadsSound, Follows

(* A state that only its abort makes sound again.                          *)
LEMMA OneGivesUp ==
    ASSUME NEW ups, UploadsSound(ups), NEW t \in Transfer, NEW v, Shaped(t, v),
           v.present = ups[t].present, v.cleanup = ups[t].cleanup
    PROVE  /\ UploadsFollow(ups, Aborting([ups EXCEPT ![t] = v], {t}))
           /\ ~OpenNow(Aborting([ups EXCEPT ![t] = v], {t})[t])
<1> DEFINE some == [ups EXCEPT ![t] = v]
           after == Aborting(some, {t})
<1>1. after[t] = GivenUp(v) /\ \A s \in Transfer \ {t} : after[s] = ups[s]
  <2>1. some[t] = v /\ \A s \in Transfer \ {t} : some[s] = ups[s]
    BY DEF UploadsSound, Uploads
  <2> HIDE DEF some
  <2>2. \A s \in Transfer : after[s] = IF s \in {t} THEN GivenUp(some[s]) ELSE some[s]
    BY AbortingIs
  <2> QED BY <2>1, <2>2
<1>2. Follows(t, v, GivenUp(v)) /\ ~OpenNow(GivenUp(v))
  BY GivingUp
<1>3. Follows(t, ups[t], GivenUp(v))
  BY <1>2 DEF Follows, AtRest, OpenNow
<1>4. \A s \in Transfer \ {t} : Follows(s, ups[s], ups[s])
  BY NoneChanges DEF UploadsFollow
<1>5. after = [s \in Transfer |-> after[s]]
  BY DEF Aborting
<1> HIDE DEF after
<1>6. \A s \in Transfer : Follows(s, ups[s], after[s])
  BY <1>1, <1>3, <1>4
<1>7. \A s \in Transfer : Sound(s, after[s]) /\ after[s] \in UploadType
  BY <1>6 DEF Follows, Sound, Shaped
<1>8. after \in Uploads
  BY <1>5, <1>7 DEF Uploads
<1>9. UploadsFollow(ups, after) /\ ~OpenNow(after[t])
  BY <1>1, <1>2, <1>6, <1>7, <1>8 DEF UploadsFollow, UploadsSound
<1> QED BY <1>9 DEF after

LEMMA UploadsFollowOn ==
    ASSUME NEW ups, NEW mid, NEW after, UploadsFollow(ups, mid), UploadsFollow(mid, after)
    PROVE  UploadsFollow(ups, after)
BY FollowsOn DEF UploadsFollow

-----------------------------------------------------------------------------
(* The queues of controls.                                                 *)

Ops == {"begin", "finish", "abort", "remove"}

(* Which tasks get where.                                                  *)
GoodTask ==
    {h \in TaskType :
        /\ h.of \in (IF h.op = "remove" THEN Path ELSE Transfer)
        /\ h.step \in Reserving => h.op = "begin"
        /\ h.step = "closing" => h.op = "finish"
        /\ h.step = "cleanup" => h.op # "remove"
        /\ h.step \in {"find", "remove"} => h.op = "remove"}

(* Only the head of a queue is under way.                                  *)
Line == {s \in Seq(GoodTask) : \A i \in 2 .. Len(s) : s[i].step = "queued"}

Lines == [Queue -> Line]

Holding(s) == s # << >> /\ s[1].step \in Reserving

(* What a step does to a queue, unless it receives or reserves.            *)
LineFollows(s, after) ==
    /\ after \in Line
    /\ s = << >> => after = << >>
    /\ Holding(after) => Holding(s) /\ after[1].of = s[1].of

LinesFollow(cs, after) ==
    after \in Lines /\ \A q \in Queue : LineFollows(cs[q], after[q])

LEMMA LineHead ==
    ASSUME NEW s \in Line, s # << >>
    PROVE  /\ s \in Seq(GoodTask) /\ Len(s) \in Nat \ {0} /\ s[1] \in GoodTask
           /\ s[1].step \in Step /\ s[1].op \in Ops
BY DEF Line, GoodTask, TaskType, Ops

LEMMA LinePush ==
    ASSUME NEW s \in Line, NEW h \in GoodTask, h.step = "queued"
    PROVE  /\ Append(s, h) \in Line
           /\ Holding(Append(s, h)) => Holding(s) /\ Append(s, h)[1].of = s[1].of
           /\ Len(Append(s, h)) = Len(s) + 1 /\ Append(s, h)[Len(s) + 1] = h
           /\ \A i \in 1 .. Len(s) : Append(s, h)[i] = s[i]
<1>1. s \in Seq(GoodTask) /\ Len(s) \in Nat
  BY DEF Line
<1>2. /\ Append(s, h) \in Seq(GoodTask) /\ Len(Append(s, h)) = Len(s) + 1
      /\ Append(s, h)[Len(s) + 1] = h
      /\ \A i \in 1 .. Len(s) : Append(s, h)[i] = s[i]
  BY <1>1, AppendProperties
<1>3. Append(s, h) \in Line
  <2> DEFINE r == Append(s, h)
  <2>1. ASSUME NEW i \in 2 .. Len(r) PROVE r[i].step = "queued"
    <3>1. i \in 2 .. Len(s) \/ i = Len(s) + 1
      BY <1>1, <1>2
    <3>2. i \in 2 .. Len(s) => r[i] = s[i] /\ s[i].step = "queued"
      BY <1>2 DEF Line
    <3> QED BY <1>2, <3>1, <3>2
  <2> HIDE DEF r
  <2>2. r \in Seq(GoodTask)
    BY <1>2 DEF r
  <2>3. r \in Line
    BY <2>1, <2>2 DEF Line
  <2> QED BY <2>3 DEF r
<1>4. s = << >> => Append(s, h)[1] = h
  BY <1>1, <1>2
<1>5. s # << >> => Append(s, h)[1] = s[1]
  BY <1>1, <1>2
<1> QED BY <1>2, <1>3, <1>4, <1>5 DEF Holding, Reserving

LEMMA LinePop ==
    ASSUME NEW s \in Line, s # << >>
    PROVE  /\ LineFollows(s, Tail(s)) /\ ~Holding(Tail(s))
           /\ Len(Tail(s)) = Len(s) - 1
           /\ \A i \in 1 .. Len(s) - 1 : Tail(s)[i] = s[i + 1]
<1>1. s \in Seq(GoodTask) /\ Len(s) \in Nat \ {0}
  BY LineHead
<1>2. /\ Tail(s) \in Seq(GoodTask) /\ Len(Tail(s)) = Len(s) - 1
      /\ \A i \in 1 .. Len(s) - 1 : Tail(s)[i] = s[i + 1]
  BY <1>1
<1>3. \A i \in 1 .. Len(Tail(s)) : Tail(s)[i].step = "queued"
  <2> TAKE i \in 1 .. Len(Tail(s))
  <2>1. i \in 1 .. Len(s) - 1 /\ i + 1 \in 2 .. Len(s)
    BY <1>1, <1>2
  <2>2. Tail(s)[i] = s[i + 1]
    BY <1>2, <2>1
  <2>3. s[i + 1].step = "queued"
    BY <2>1 DEF Line
  <2> QED BY <2>2, <2>3
<1>4. Tail(s) \in Line
  <2>1. 2 .. Len(Tail(s)) \subseteq 1 .. Len(Tail(s))
    BY <1>1, <1>2
  <2> QED BY <1>2, <1>3, <2>1 DEF Line
<1>5. ~Holding(Tail(s))
  <2>1. Tail(s) # << >> => 1 \in 1 .. Len(Tail(s))
    <3> DEFINE r == Tail(s)
    <3>1. r \in Seq(GoodTask)
      BY <1>2
    <3> HIDE DEF r
    <3>2. r # << >> => 1 \in 1 .. Len(r)
      BY <3>1
    <3> QED BY <3>2 DEF r
  <2> QED BY <1>3, <2>1 DEF Holding, Reserving
<1> QED BY <1>2, <1>4, <1>5 DEF LineFollows

(* The head gets somewhere.                                                *)
LEMMA LineHeads ==
    ASSUME NEW s \in Line, s # << >>, NEW h \in GoodTask
    PROVE  /\ [s EXCEPT ![1] = h] \in Line /\ [s EXCEPT ![1] = h] # << >>
           /\ [s EXCEPT ![1] = h][1] = h /\ Len([s EXCEPT ![1] = h]) = Len(s)
           /\ \A i \in 2 .. Len(s) : [s EXCEPT ![1] = h][i] = s[i]
<1>1. s \in Seq(GoodTask) /\ Len(s) \in Nat \ {0}
  BY LineHead
<1>2. /\ [s EXCEPT ![1] = h] \in Seq(GoodTask) /\ Len([s EXCEPT ![1] = h]) = Len(s)
      /\ [s EXCEPT ![1] = h][1] = h
      /\ \A i \in 2 .. Len(s) : [s EXCEPT ![1] = h][i] = s[i]
  BY <1>1, ExceptSeq
<1> QED BY <1>1, <1>2 DEF Line

LEMMA LinesNone ==
    ASSUME NEW cs \in Lines
    PROVE  LinesFollow(cs, cs)
BY DEF Lines, LinesFollow, LineFollows

LEMMA LinesOne ==
    ASSUME NEW cs \in Lines, NEW q \in Queue, NEW s, LineFollows(cs[q], s)
    PROVE  LinesFollow(cs, [cs EXCEPT ![q] = s])
<1>1. /\ [cs EXCEPT ![q] = s] \in Lines /\ [cs EXCEPT ![q] = s][q] = s
      /\ \A r \in Queue \ {q} : [cs EXCEPT ![q] = s][r] = cs[r]
  BY DEF Lines, LineFollows
<1> QED BY <1>1, LinesNone DEF LinesFollow

(* The move of a head to a step that its operation has.                    *)
MayGo(h, step) ==
    /\ step \in Step
    /\ step \in Reserving => h.step \in Reserving
    /\ step = "closing" => h.op = "finish"
    /\ step = "cleanup" => h.op # "remove"
    /\ step \in {"find", "remove"} => h.op = "remove"

LEMMA TaskGoes ==
    ASSUME NEW h \in GoodTask, NEW step \in Step, NEW fresh \in BOOLEAN,
           step \in Reserving => h.op = "begin",
           step = "closing" => h.op = "finish", step = "cleanup" => h.op # "remove",
           step \in {"find", "remove"} => h.op = "remove"
    PROVE  /\ [h EXCEPT !.step = step] \in GoodTask
           /\ [h EXCEPT !.step = step, !.fresh = fresh] \in GoodTask
BY DEF GoodTask, TaskType

LEMMA HeadGoes ==
    ASSUME NEW cs \in Lines, NEW q \in Queue, cs[q] # << >>, NEW step, MayGo(cs[q][1], step)
    PROVE  LinesFollow(cs, [cs EXCEPT ![q][1].step = step])
<1> DEFINE s == cs[q]
           h == s[1]
<1>1. s \in Line /\ h \in GoodTask
  BY LineHead DEF Lines
<1>2. h.step \in Reserving => h.op = "begin"
  BY <1>1 DEF GoodTask
<1>3. [h EXCEPT !.step = step] \in GoodTask
  BY <1>1, <1>2, TaskGoes DEF MayGo
<1>4. [h EXCEPT !.step = step].step = step /\ [h EXCEPT !.step = step].of = h.of
  BY <1>1 DEF GoodTask, TaskType
<1>5. LineFollows(s, [s EXCEPT ![1] = [h EXCEPT !.step = step]])
  BY <1>1, <1>3, <1>4, LineHeads DEF LineFollows, Holding, MayGo
<1>6. LinesFollow(cs, [cs EXCEPT ![q] = [s EXCEPT ![1] = [h EXCEPT !.step = step]]])
  BY <1>5, LinesOne
<1> QED BY <1>6

-----------------------------------------------------------------------------
(* The queues of frames.                                                   *)

FrameType == [offset : Nat, length : Nat \ {0}, step : FrameStep]

FrameLine == {s \in Seq(FrameType) : \A i \in 2 .. Len(s) : s[i].step = "queued"}

FrameLines == [Transfer -> FrameLine]

FramesFollow(fs, after) ==
    after \in FrameLines /\ \A t \in Transfer : fs[t] = << >> => after[t] = << >>

LEMMA FrameHead ==
    ASSUME NEW s \in FrameLine, s # << >>
    PROVE  /\ s \in Seq(FrameType) /\ Len(s) \in Nat \ {0} /\ s[1] \in FrameType
BY DEF FrameLine

LEMMA FramePush ==
    ASSUME NEW s \in FrameLine, NEW h \in FrameType, h.step = "queued"
    PROVE  /\ Append(s, h) \in FrameLine
           /\ Len(Append(s, h)) = Len(s) + 1 /\ Append(s, h)[Len(s) + 1] = h
           /\ \A i \in 1 .. Len(s) : Append(s, h)[i] = s[i]
<1> DEFINE r == Append(s, h)
<1>1. s \in Seq(FrameType) /\ Len(s) \in Nat
  BY DEF FrameLine
<1>2. /\ r \in Seq(FrameType) /\ Len(r) = Len(s) + 1
      /\ r[Len(s) + 1] = h
      /\ \A i \in 1 .. Len(s) : r[i] = s[i]
  BY <1>1, AppendProperties
<1> HIDE DEF r
<1>3. ASSUME NEW i \in 2 .. Len(r) PROVE r[i].step = "queued"
  <2>1. i \in 2 .. Len(s) \/ i = Len(s) + 1
    BY <1>1, <1>2
  <2>2. i \in 2 .. Len(s) => r[i] = s[i] /\ s[i].step = "queued"
    BY <1>2 DEF FrameLine
  <2> QED BY <1>2, <2>1, <2>2
<1>4. r \in FrameLine
  BY <1>2, <1>3 DEF FrameLine
<1> QED BY <1>2, <1>4 DEF r

LEMMA FramePop ==
    ASSUME NEW s \in FrameLine, s # << >>
    PROVE  /\ Tail(s) \in FrameLine
           /\ Len(Tail(s)) = Len(s) - 1
           /\ \A i \in 1 .. Len(s) - 1 : Tail(s)[i] = s[i + 1]
<1> DEFINE r == Tail(s)
<1>1. s \in Seq(FrameType) /\ Len(s) \in Nat \ {0}
  BY FrameHead
<1>2. /\ r \in Seq(FrameType) /\ Len(r) = Len(s) - 1
      /\ \A i \in 1 .. Len(s) - 1 : r[i] = s[i + 1]
  BY <1>1
<1> HIDE DEF r
<1>3. ASSUME NEW i \in 2 .. Len(r) PROVE r[i].step = "queued"
  <2>1. i \in 1 .. Len(s) - 1 /\ i + 1 \in 2 .. Len(s)
    BY <1>1, <1>2
  <2>2. s[i + 1].step = "queued"
    BY <2>1 DEF FrameLine
  <2> QED BY <1>2, <2>1, <2>2
<1>4. r \in FrameLine
  BY <1>2, <1>3 DEF FrameLine
<1> QED BY <1>2, <1>4 DEF r

LEMMA FrameGoes ==
    ASSUME NEW s \in FrameLine, s # << >>, NEW step \in FrameStep
    PROVE  LET r == [s EXCEPT ![1].step = step]
           IN  /\ r \in FrameLine /\ r # << >> /\ Len(r) = Len(s)
               /\ r[1].step = step /\ r[1].offset = s[1].offset /\ r[1].length = s[1].length
               /\ \A i \in 2 .. Len(s) : r[i] = s[i]
<1> DEFINE h == [s[1] EXCEPT !.step = step]
           r == [s EXCEPT ![1] = h]
<1>1. s \in Seq(FrameType) /\ Len(s) \in Nat \ {0} /\ s[1] \in FrameType
  BY FrameHead
<1>2. h \in FrameType /\ h.step = step /\ h.offset = s[1].offset /\ h.length = s[1].length
  BY <1>1 DEF FrameType
<1> HIDE DEF h
<1>3. r \in Seq(FrameType) /\ Len(r) = Len(s) /\ r[1] = h /\ \A i \in 2 .. Len(s) : r[i] = s[i]
  BY <1>1, <1>2, ExceptSeq
<1>4. r \in FrameLine /\ r # << >>
  BY <1>1, <1>3 DEF FrameLine
<1> QED BY <1>2, <1>3, <1>4 DEF h

LEMMA FramesNone ==
    ASSUME NEW fs \in FrameLines
    PROVE  FramesFollow(fs, fs)
BY DEF FramesFollow

LEMMA FramesOne ==
    ASSUME NEW fs \in FrameLines, NEW t \in Transfer, NEW s \in FrameLine, fs[t] # << >>
    PROVE  FramesFollow(fs, [fs EXCEPT ![t] = s])
BY DEF FramesFollow, FrameLines

-----------------------------------------------------------------------------
(* The slots.                                                              *)

ActiveIn(ups, control) == {t \in Transfer : ups[t].present /\ Control(t) = control}

ReservedIn(cs, control) == {q \in Queue : Holding(cs[q]) /\ Control(cs[q][1].of) = control}

SlotsIn(ups, cs, control) ==
    Cardinality(ActiveIn(ups, control)) + Cardinality(ReservedIn(cs, control)) <= Limit(control)

Slots(ups, cs) == \A control \in BOOLEAN : SlotsIn(ups, cs, control)

LEMMA OneMore ==
    ASSUME NEW S, IsFiniteSet(S), NEW x
    PROVE  /\ IsFiniteSet(S \cup {x}) /\ Cardinality(S \cup {x}) \in Nat
           /\ Cardinality(S \cup {x}) <= Cardinality(S) + 1
<1>1. Cardinality(S) \in Nat
  BY FS_CardinalityType
<1>2. /\ IsFiniteSet(S \cup {x})
      /\ Cardinality(S \cup {x}) = Cardinality(S) \/ Cardinality(S \cup {x}) = Cardinality(S) + 1
  BY FS_AddElement
<1> QED BY <1>1, <1>2

LEMMA SlotSets ==
    ASSUME NEW ups, NEW cs, NEW control
    PROVE  /\ IsFiniteSet(ActiveIn(ups, control)) /\ IsFiniteSet(ReservedIn(cs, control))
           /\ Cardinality(ActiveIn(ups, control)) \in Nat
           /\ Cardinality(ReservedIn(cs, control)) \in Nat
           /\ Limit(control) \in Nat
<1>1. IsFiniteSet(Transfer)
  BY UploadAssumption
<1>2. IsFiniteSet(Queue)
  <2>1. IsFiniteSet({"queue"})
    BY FS_Singleton
  <2>2. IsFiniteSet({"queue"} \cup {"lockQueue"})
    BY <2>1, OneMore
  <2>3. Queue = {"queue"} \cup {"lockQueue"}
    BY DEF Queue
  <2> QED BY <2>2, <2>3
<1>3. IsFiniteSet(ActiveIn(ups, control))
  BY <1>1, FS_Subset DEF ActiveIn
<1>4. IsFiniteSet(ReservedIn(cs, control))
  BY <1>2, FS_Subset DEF ReservedIn
<1>5. Limit(control) \in Nat
  BY UploadAssumption DEF Limit
<1> QED BY <1>3, <1>4, <1>5, FS_CardinalityType

LEMMA SlotsFewer ==
    ASSUME NEW ups, NEW cs, NEW after, NEW cafter, Slots(ups, cs),
           \A t \in Transfer : after[t].present => ups[t].present,
           \A q \in Queue : Holding(cafter[q]) => Holding(cs[q]) /\ cafter[q][1].of = cs[q][1].of
    PROVE  Slots(after, cafter)
<1> SUFFICES ASSUME NEW control \in BOOLEAN PROVE SlotsIn(after, cafter, control)
  BY DEF Slots
<1>1. /\ ActiveIn(after, control) \subseteq ActiveIn(ups, control)
      /\ ReservedIn(cafter, control) \subseteq ReservedIn(cs, control)
  BY DEF ActiveIn, ReservedIn
<1>2. Cardinality(ActiveIn(after, control)) <= Cardinality(ActiveIn(ups, control))
  BY <1>1, SlotSets, FS_Subset
<1>3. Cardinality(ReservedIn(cafter, control)) <= Cardinality(ReservedIn(cs, control))
  BY <1>1, SlotSets, FS_Subset
<1>4. SlotsIn(ups, cs, control)
  BY DEF Slots
<1> QED BY <1>2, <1>3, <1>4, SlotSets DEF SlotsIn

(* A slot is reserved when one is free.                                    *)
LEMMA SlotReserved ==
    ASSUME NEW ups, NEW cs, NEW cafter, Slots(ups, cs), NEW q \in Queue,
           \A r \in Queue \ {q} : cafter[r] = cs[r],
           SlotsIn(ups, cs, Control(cafter[q][1].of)),
           Cardinality(ActiveIn(ups, Control(cafter[q][1].of)))
             + Cardinality(ReservedIn(cs, Control(cafter[q][1].of)))
               < Limit(Control(cafter[q][1].of))
    PROVE  Slots(ups, cafter)
<1> SUFFICES ASSUME NEW control \in BOOLEAN PROVE SlotsIn(ups, cafter, control)
  BY DEF Slots
<1>1. CASE control = Control(cafter[q][1].of)
  <2>1. ReservedIn(cafter, control) \subseteq ReservedIn(cs, control) \cup {q}
    BY DEF ReservedIn
  <2>2. /\ IsFiniteSet(ReservedIn(cs, control) \cup {q})
        /\ Cardinality(ReservedIn(cs, control) \cup {q}) <= Cardinality(ReservedIn(cs, control)) + 1
        /\ Cardinality(ReservedIn(cs, control) \cup {q}) \in Nat
    BY SlotSets, OneMore
  <2>3. Cardinality(ReservedIn(cafter, control)) <= Cardinality(ReservedIn(cs, control) \cup {q})
    BY <2>1, <2>2, FS_Subset
  <2> QED BY <1>1, <2>2, <2>3, SlotSets DEF SlotsIn
<1>2. CASE control # Control(cafter[q][1].of)
  <2>1. ReservedIn(cafter, control) \subseteq ReservedIn(cs, control)
    BY <1>2 DEF ReservedIn
  <2>2. Cardinality(ReservedIn(cafter, control)) <= Cardinality(ReservedIn(cs, control))
    BY <2>1, SlotSets, FS_Subset
  <2>3. SlotsIn(ups, cs, control)
    BY DEF Slots
  <2> QED BY <2>2, <2>3, SlotSets DEF SlotsIn
<1> QED BY <1>1, <1>2

(* The new upload takes over the slot that was reserved for it.            *)
LEMMA SlotTaken ==
    ASSUME NEW ups, NEW cs, NEW after, NEW cafter, Slots(ups, cs),
           NEW q \in Queue, NEW t \in Transfer, Holding(cs[q]), cs[q][1].of = t,
           \A s \in Transfer \ {t} : after[s].present => ups[s].present,
           \A r \in Queue \ {q} : cafter[r] = cs[r], ~Holding(cafter[q])
    PROVE  Slots(after, cafter)
<1> SUFFICES ASSUME NEW control \in BOOLEAN PROVE SlotsIn(after, cafter, control)
  BY DEF Slots
<1>1. SlotsIn(ups, cs, control)
  BY DEF Slots
<1>2. ReservedIn(cafter, control) \subseteq ReservedIn(cs, control) \ {q}
  BY DEF ReservedIn
<1>3. /\ IsFiniteSet(ReservedIn(cs, control) \ {q})
      /\ Cardinality(ReservedIn(cs, control) \ {q}) \in Nat
      /\ Cardinality(ReservedIn(cs, control) \ {q})
            = Cardinality(ReservedIn(cs, control)) - (IF q \in ReservedIn(cs, control) THEN 1 ELSE 0)
  BY SlotSets, FS_RemoveElement, FS_CardinalityType
<1>4. Cardinality(ReservedIn(cafter, control)) <= Cardinality(ReservedIn(cs, control) \ {q})
  BY <1>2, <1>3, FS_Subset
<1>5. CASE control = Control(t)
  <2>1. q \in ReservedIn(cs, control)
    BY <1>5 DEF ReservedIn
  <2>2. ActiveIn(after, control) \subseteq ActiveIn(ups, control) \cup {t}
    BY DEF ActiveIn
  <2>3. /\ IsFiniteSet(ActiveIn(ups, control) \cup {t})
        /\ Cardinality(ActiveIn(ups, control) \cup {t}) <= Cardinality(ActiveIn(ups, control)) + 1
        /\ Cardinality(ActiveIn(ups, control) \cup {t}) \in Nat
    BY SlotSets, OneMore
  <2>4. Cardinality(ActiveIn(after, control)) <= Cardinality(ActiveIn(ups, control) \cup {t})
    BY <2>2, <2>3, FS_Subset
  <2> QED BY <1>1, <1>3, <1>4, <2>1, <2>3, <2>4, SlotSets DEF SlotsIn
<1>6. CASE control # Control(t)
  <2>1. ActiveIn(after, control) \subseteq ActiveIn(ups, control)
    BY <1>6 DEF ActiveIn
  <2>2. Cardinality(ActiveIn(after, control)) <= Cardinality(ActiveIn(ups, control))
    BY <2>1, SlotSets, FS_Subset
  <2> QED BY <1>1, <1>3, <1>4, <2>2, SlotSets DEF SlotsIn
<1> QED BY <1>5, <1>6

-----------------------------------------------------------------------------
(* The inductive invariant.                                                *)

Stages == {"live", "queue", "lockQueue", "frames", "uploads", "quiet"}

NodeType == [stage : Stages, open : BOOLEAN]

PhoneType ==
    [sent : SUBSET Requests, next : [Transfer -> Nat], frames : [Transfer -> Nat],
     begun : SUBSET Transfer, finished : SUBSET Transfer, misfit : SUBSET Transfer]

(* What waitForQuiescence has waited for does not come back.               *)
Staged(stage, cs, fs, ups) ==
    /\ stage \in {"lockQueue", "frames", "uploads", "quiet"} => cs["queue"] = << >>
    /\ stage \in {"frames", "uploads", "quiet"} => cs["lockQueue"] = << >>
    /\ stage \in {"uploads", "quiet"} =>
          \A t \in Transfer : fs[t] = << >> /\ ~OpenNow(ups[t])
    /\ stage = "quiet" => \A t \in Transfer : ups[t].cleanup \in {"none", "done"}

Typed ==
    /\ done \in [Transfer -> Nat]
    /\ file \in [Path -> Content]
    /\ node \in NodeType
    /\ phone \in PhoneType

Inv ==
    /\ UploadsSound(up) /\ ctl \in Lines /\ frames \in FrameLines /\ Typed
    /\ Staged(node.stage, ctl, frames, up)
    /\ Slots(up, ctl)

(* The steps that reserve, install and receive nothing, and leave the      *)
(* node's stage alone.                                                     *)
Calm ==
    /\ UploadsFollow(up, up') /\ LinesFollow(ctl, ctl') /\ FramesFollow(frames, frames')
    /\ Typed' /\ node'.stage = node.stage

LEMMA StagedOn ==
    ASSUME NEW stage, NEW cs, NEW fs, NEW ups, NEW cafter, NEW fafter, NEW after,
           Staged(stage, cs, fs, ups),
           \A q \in Queue : cs[q] = << >> => cafter[q] = << >>,
           \A t \in Transfer : fs[t] = << >> => fafter[t] = << >>,
           UploadsFollow(ups, after)
    PROVE  Staged(stage, cafter, fafter, after)
<1>1. cs["queue"] = << >> => cafter["queue"] = << >>
  BY DEF Queue
<1>2. cs["lockQueue"] = << >> => cafter["lockQueue"] = << >>
  BY DEF Queue
<1>3. ASSUME stage \in {"uploads", "quiet"}, NEW t \in Transfer
      PROVE  fafter[t] = << >> /\ ~OpenNow(after[t])
  BY <1>3 DEF Staged, UploadsFollow, Follows
<1>4. ASSUME stage = "quiet", NEW t \in Transfer
      PROVE  after[t].cleanup \in {"none", "done"}
  <2>1. AtRest(ups[t])
    BY <1>4 DEF Staged, AtRest
  <2> QED BY <2>1 DEF UploadsFollow, Follows, AtRest
<1> QED BY <1>1, <1>2, <1>3, <1>4 DEF Staged

LEMMA CalmKeeps ==
    ASSUME Inv, Calm
    PROVE  Inv'
<1>1. UploadsSound(up') /\ ctl' \in Lines /\ frames' \in FrameLines
  BY DEF Calm, UploadsFollow, LinesFollow, FramesFollow
<1>2. Staged(node.stage, ctl', frames', up')
  <2>1. Staged(node.stage, ctl, frames, up)
    BY DEF Inv
  <2>2. \A q \in Queue : ctl[q] = << >> => ctl'[q] = << >>
    BY DEF Calm, LinesFollow, LineFollows
  <2>3. \A t \in Transfer : frames[t] = << >> => frames'[t] = << >>
    BY DEF Calm, FramesFollow
  <2>4. UploadsFollow(up, up')
    BY DEF Calm
  <2> QED BY <2>1, <2>2, <2>3, <2>4, StagedOn
<1>3. Slots(up', ctl')
  <2>1. \A t \in Transfer : up'[t].present => up[t].present
    BY DEF Calm, UploadsFollow, Follows
  <2>2. \A q \in Queue : Holding(ctl'[q]) => Holding(ctl[q]) /\ ctl'[q][1].of = ctl[q][1].of
    BY DEF Calm, LinesFollow, LineFollows
  <2>3. Slots(up, ctl)
    BY DEF Inv
  <2> QED BY <2>1, <2>2, <2>3, SlotsFewer
<1>4. Typed' /\ node'.stage = node.stage
  BY DEF Calm
<1> QED BY <1>1, <1>2, <1>3, <1>4 DEF Inv

LEMMA Initially ==
    ASSUME Init
    PROVE  Inv
<1>1. UploadsSound(up) /\ \A t \in Transfer : ~up[t].present /\ up[t].cleanup = "none"
  <2>1. \A t \in Transfer : Sound(t, Absent) /\ Absent \in UploadType
    BY Installing DEF Sound, Shaped
  <2>2. ~Absent.present /\ Absent.cleanup = "none"
    BY DEF Absent
  <2> QED BY <2>1, <2>2 DEF Init, UploadsSound, Uploads
<1>2. ctl \in Lines /\ \A q \in Queue : ctl[q] = << >>
  <2>1. << >> \in Line
    BY DEF Line
  <2> QED BY <2>1 DEF Init, Lines
<1>3. frames \in FrameLines
  <2>1. << >> \in FrameLine
    BY DEF FrameLine
  <2> QED BY <2>1 DEF Init, FrameLines
<1>4. Typed
  BY DEF Init, Typed, Content, NodeType, Stages, PhoneType
<1>5. Staged(node.stage, ctl, frames, up)
  BY DEF Init, Staged
<1>6. Slots(up, ctl)
  <2>1. ASSUME NEW control \in BOOLEAN
        PROVE  ActiveIn(up, control) = {} /\ ReservedIn(ctl, control) = {}
    BY <1>1, <1>2 DEF ActiveIn, ReservedIn, Holding
  <2>2. Cardinality({}) = 0
    BY FS_EmptySet
  <2> QED BY <2>1, <2>2, SlotSets DEF Slots, SlotsIn
<1> QED BY <1>1, <1>2, <1>3, <1>4, <1>5, <1>6 DEF Inv

-----------------------------------------------------------------------------
(* The actions of the control queues.                                      *)

LEMMA Heads ==
    ASSUME Inv, NEW q \in Queue, ctl[q] # << >>
    PROVE  /\ Head1(q) = ctl[q][1] /\ Head1(q) \in GoodTask
           /\ Head1(q).step \in Step /\ Head1(q).op \in Ops
           /\ Head1(q).op # "remove" => Head1(q).of \in Transfer
           /\ Head1(q).op = "remove" => Head1(q).of \in Path
           /\ Head1(q).step \in Reserving => Head1(q).op = "begin"
           /\ Head1(q).step = "closing" => Head1(q).op = "finish"
           /\ Head1(q).step = "cleanup" => Head1(q).op # "remove"
           /\ Head1(q).step \in {"find", "remove"} => Head1(q).op = "remove"
           /\ Head1(q).fresh \in BOOLEAN
<1>1. ctl[q] \in Line
  BY DEF Inv, Lines
<1>2. ctl[q][1] \in GoodTask /\ ctl[q][1].step \in Step /\ ctl[q][1].op \in Ops
  BY <1>1, LineHead
<1> QED BY <1>2 DEF Head1, GoodTask, TaskType

LEMMA Goes ==
    ASSUME Inv, NEW q \in Queue, ctl[q] # << >>, NEW step, MayGo(Head1(q), step), To(q, step)
    PROVE  LinesFollow(ctl, ctl')
BY HeadGoes DEF Inv, Head1, To

LEMMA Returns ==
    ASSUME Inv, NEW q \in Queue, ctl[q] # << >>, NEW ups, UploadsFollow(up, ups), Return(q, ups)
    PROVE  UploadsFollow(up, up') /\ LinesFollow(ctl, ctl')
<1>1. MayGo(Head1(q), "sweep") /\ MayGo(Head1(q), "respond")
  BY DEF MayGo, Step, Reserving
<1>2. UploadsFollow(up, Aborting(ups, Transfer))
  <2>1. UploadsSound(ups)
    BY DEF UploadsFollow
  <2> QED BY <2>1, SomeGiveUp, UploadsFollowOn
<1> QED BY <1>1, <1>2, Goes DEF Return

LEMMA Ends ==
    ASSUME Inv, NEW q \in Queue, ctl[q] # << >>, EndTask(q)
    PROVE  UploadsFollow(up, up') /\ LinesFollow(ctl, ctl')
<1> DEFINE t == Head1(q).of
           u == CompleteTerminal(up[t])
<1>1. LinesFollow(ctl, ctl')
  <2>1. ctl[q] \in Line
    BY DEF Inv, Lines
  <2> QED BY <2>1, LinePop, LinesOne DEF EndTask, Inv
<1>2. UploadsFollow(up, up)
  BY NoneChanges DEF Inv
<1>3. ASSUME Head1(q).op \in {"finish", "abort"}
      PROVE  UploadsFollow(up, [up EXCEPT ![t] = u])
  <2>1. t \in Transfer
    BY <1>3, Heads
  <2>2. Sound(t, up[t]) /\ up[t] \in UploadType /\ (up[t].idle => Quiet(up[t]))
    BY <2>1 DEF Inv, UploadsSound, Sound, Shaped
  <2>3. Follows(t, up[t], u)
    BY <2>1, <2>2, Counting, CountsKeep
  <2> QED BY <2>1, <2>3, OneChanges DEF Inv
<1> QED BY <1>1, <1>2, <1>3 DEF EndTask, Noted

LEMMA TypedSame ==
    ASSUME Inv, UNCHANGED <<done, file, node, phone>>
    PROVE  Typed' /\ node'.stage = node.stage
BY DEF Inv, Typed

LEMMA Still ==
    ASSUME Inv
    PROVE  /\ UNCHANGED up => UploadsFollow(up, up')
           /\ UNCHANGED frames => FramesFollow(frames, frames')
           /\ UNCHANGED ctl => LinesFollow(ctl, ctl')
BY NoneChanges, FramesNone, LinesNone DEF Inv

(* The steps that neither lead to a reservation nor belong to one kind of  *)
(* request.                                                                *)
LEMMA Anywhere ==
    ASSUME NEW h, NEW step \in {"barrier", "respond", "sweep", "fail"}
    PROVE  MayGo(h, step)
BY DEF MayGo, Step, Reserving

LEMMA CalmSkip ==
    ASSUME Inv, NEW q \in Queue, SkipTask(q)
    PROVE  Calm
<1>1. ctl[q] \in Line /\ ctl[q] # << >>
  BY DEF Inv, Lines, SkipTask, At
<1>2. LinesFollow(ctl, ctl')
  BY <1>1, LinePop, LinesOne DEF SkipTask, Inv
<1> QED BY <1>2, Still, TypedSame DEF SkipTask, Calm

LEMMA CalmAwait ==
    ASSUME Inv, NEW q \in Queue, AwaitFrames(q)
    PROVE  Calm
<1>1. LinesFollow(ctl, ctl')
  BY Goes, Anywhere DEF AwaitFrames, At
<1> QED BY <1>1, Still, TypedSame DEF AwaitFrames, Calm

LEMMA CalmLookUp ==
    ASSUME Inv, NEW q \in Queue, LookUp(q)
    PROVE  Calm
<1>1. ctl[q] # << >> /\ Head1(q).step = "lookup"
  BY DEF LookUp, At
<1>2. ASSUME To(q, "fail") PROVE LinesFollow(ctl, ctl')
  BY <1>1, <1>2, Goes, Anywhere
<1>3. ASSUME NEW fresh \in BOOLEAN,
             ctl' = [ctl EXCEPT ![q][1].step = "create", ![q][1].fresh = fresh]
      PROVE  LinesFollow(ctl, ctl')
  <2> DEFINE h == [ctl[q][1] EXCEPT !.step = "create", !.fresh = fresh]
             s == [ctl[q] EXCEPT ![1] = h]
  <2>1. ctl[q] \in Line /\ Head1(q) = ctl[q][1] /\ ctl[q][1] \in GoodTask /\ ctl[q][1].op = "begin"
    BY <1>1, Heads DEF Inv, Lines, Reserving
  <2>2. h \in GoodTask /\ h.of = ctl[q][1].of /\ h.step = "create"
    <3>1. h \in GoodTask
      BY <2>1, TaskGoes DEF Step
    <3>2. h.of = ctl[q][1].of /\ h.step = "create"
      BY <2>1 DEF GoodTask, TaskType
    <3> QED BY <3>1, <3>2
  <2>3. ctl' = [ctl EXCEPT ![q] = s]
    <3>1. ctl[q] \in Seq(GoodTask) /\ ctl \in Lines
      BY <2>1 DEF Line, Inv
    <3> QED BY <1>1, <1>3, <2>1, <3>1 DEF Lines
  <2> HIDE DEF h
  <2>4. LineFollows(ctl[q], s)
    BY <1>1, <2>1, <2>2, LineHeads DEF LineFollows, Holding, Reserving
  <2> HIDE DEF s
  <2> QED BY <2>3, <2>4, LinesOne DEF Inv
<1>4. LinesFollow(ctl, ctl')
  BY <1>2, <1>3 DEF LookUp
<1> QED BY <1>4, Still, TypedSame DEF LookUp, Calm

LEMMA CalmCreate ==
    ASSUME Inv, NEW q \in Queue, CreateFile(q)
    PROVE  Calm
<1>1. ctl[q] # << >> /\ Head1(q).step = "create"
  BY DEF CreateFile, At
<1>2. MayGo(Head1(q), "writable")
  BY <1>1 DEF MayGo, Step, Reserving
<1>3. LinesFollow(ctl, ctl')
  BY <1>1, <1>2, Goes, Anywhere DEF CreateFile
<1>4. Typed' /\ node'.stage = node.stage
  BY DEF Inv, Typed, CreateFile, Content
<1> QED BY <1>3, <1>4, Still DEF CreateFile, Calm

LEMMA CalmUndo ==
    ASSUME Inv, NEW q \in Queue, UndoCreate(q)
    PROVE  Calm
<1>1. ctl[q] # << >> /\ Head1(q).step = "undo"
  BY DEF UndoCreate, At
<1>2. LinesFollow(ctl, ctl')
  BY <1>1, Goes, Anywhere DEF UndoCreate
<1>3. Typed' /\ node'.stage = node.stage
  BY DEF Inv, Typed, UndoCreate, RemoveEntry, Content
<1> QED BY <1>2, <1>3, Still DEF UndoCreate, Calm

LEMMA Readily ==
    ASSUME Inv, NEW q \in Queue, NEW op, Ready(q, op)
    PROVE  ctl[q] # << >> /\ Head1(q).op = op /\ (op # "remove" => Head1(q).of \in Transfer)
BY Heads DEF Ready

LEMMA CalmFinish ==
    ASSUME Inv, NEW q \in Queue, FinishUpload(q)
    PROVE  Calm
<1> DEFINE t == Head1(q).of
<1>1. ctl[q] # << >> /\ Head1(q).op = "finish" /\ t \in Transfer
  BY Readily DEF FinishUpload
<1>2. MayGo(Head1(q), "cleanup") /\ MayGo(Head1(q), "closing")
  BY <1>1 DEF MayGo, Step, Reserving
<1>3. LinesFollow(ctl, ctl')
  BY <1>1, <1>2, Goes, Anywhere DEF FinishUpload
<1>4. UploadsFollow(up, up')
  <2>1. CASE UNCHANGED up
    BY <2>1, Still
  <2>2. CASE up' = Aborting(up, {t})
    BY <2>2, SomeGiveUp DEF Inv
  <2>3. CASE /\ Open(t) /\ up[t].received = Size[t]
             /\ up' = [up EXCEPT ![t] = [Flushed(@) EXCEPT !.idle = FALSE, !.stream = "closing"]]
    <3>1. Sound(t, up[t]) /\ OpenNow(up[t])
      BY <1>1, <2>3 DEF Inv, UploadsSound, Open, OpenNow
    <3>2. Follows(t, up[t], [Flushed(up[t]) EXCEPT !.idle = FALSE, !.stream = "closing"])
      BY <1>1, <2>3, <3>1, Finishing
    <3> QED BY <1>1, <2>3, <3>2, OneChanges DEF Inv
  <2> QED BY <2>1, <2>2, <2>3 DEF FinishUpload
<1>5. Typed' /\ node'.stage = node.stage
  <2>1. \/ UNCHANGED phone
        \/ phone' = [phone EXCEPT !.misfit = IF Disposed THEN @ ELSE @ \cup {t}]
    BY DEF FinishUpload
  <2>2. phone' \in PhoneType
    BY <1>1, <2>1 DEF Inv, Typed, PhoneType
  <2> QED BY <2>2 DEF Inv, Typed, FinishUpload
<1> QED BY <1>3, <1>4, <1>5, Still DEF FinishUpload, Calm

LEMMA CalmClose ==
    ASSUME Inv, NEW q \in Queue, CloseSettles(q)
    PROVE  Calm
<1> DEFINE t == Head1(q).of
<1>1. ctl[q] # << >> /\ Head1(q).op = "finish" /\ t \in Transfer
  BY Heads DEF CloseSettles, At
<1>2. Sound(t, up[t])
  BY <1>1 DEF Inv, UploadsSound
<1>3. CASE /\ up[t].stream = "closing"
           /\ file' = [file EXCEPT ![PathOf[t]] = t]
           /\ Return(q, [up EXCEPT ![t] = [Landed(@) EXCEPT !.stream = "closed", !.present = FALSE]])
  <2>1. Follows(t, up[t], [Landed(up[t]) EXCEPT !.stream = "closed", !.present = FALSE])
    BY <1>1, <1>2, <1>3, Committing
  <2>2. UploadsFollow(up, [up EXCEPT ![t] = [Landed(@) EXCEPT !.stream = "closed", !.present = FALSE]])
    BY <1>1, <2>1, OneChanges DEF Inv
  <2>3. UploadsFollow(up, up') /\ LinesFollow(ctl, ctl')
    BY <1>1, <1>3, <2>2, Returns
  <2>4. Typed' /\ node'.stage = node.stage
    BY <1>1, <1>3, UploadAssumption DEF Inv, Typed, Content, CloseSettles
  <2> QED BY <2>3, <2>4, Still DEF CloseSettles, Calm
<1>4. CASE /\ up' = Aborting([up EXCEPT ![t] = Lost(@)], {t})
           /\ To(q, "cleanup") /\ UNCHANGED file
  <2>1. Shaped(t, Lost(up[t])) /\ Lost(up[t]).present = up[t].present
        /\ Lost(up[t]).cleanup = up[t].cleanup
    BY <1>1, <1>2, Losing DEF Sound
  <2>2. UploadsFollow(up, up')
    BY <1>1, <1>4, <2>1, OneGivesUp DEF Inv
  <2>3. MayGo(Head1(q), "cleanup")
    BY <1>1 DEF MayGo, Step, Reserving
  <2>4. LinesFollow(ctl, ctl')
    BY <1>1, <1>4, <2>3, Goes
  <2> QED BY <1>4, <2>2, <2>4, Still, TypedSame DEF CloseSettles, Calm
<1> QED BY <1>3, <1>4 DEF CloseSettles

LEMMA CalmAbort ==
    ASSUME Inv, NEW q \in Queue, AbortRequest(q)
    PROVE  Calm
<1> DEFINE t == Head1(q).of
<1>1. ctl[q] # << >> /\ Head1(q).op = "abort" /\ t \in Transfer
  BY Readily DEF AbortRequest
<1>2. MayGo(Head1(q), "cleanup")
  BY <1>1 DEF MayGo, Step, Reserving
<1>3. UploadsFollow(up, up) /\ UploadsFollow(up, Aborting(up, {t}))
  BY NoneChanges, SomeGiveUp DEF Inv
<1>4. UploadsFollow(up, up') /\ LinesFollow(ctl, ctl')
  BY <1>1, <1>2, <1>3, Goes, Returns DEF AbortRequest
<1> QED BY <1>4, Still, TypedSame DEF AbortRequest, Calm

LEMMA CalmCleanup ==
    ASSUME Inv, NEW q \in Queue, CleanupAwaited(q)
    PROVE  Calm
<1>1. ctl[q] # << >>
  BY DEF CleanupAwaited, At
<1>2. UploadsFollow(up, up)
  BY NoneChanges DEF Inv
<1>3. UploadsFollow(up, up') /\ LinesFollow(ctl, ctl')
  BY <1>1, <1>2, Goes, Anywhere, Returns, Still DEF CleanupAwaited
<1> QED BY <1>3, Still, TypedSame DEF CleanupAwaited, Calm

LEMMA CalmRemove ==
    ASSUME Inv, NEW q \in Queue, Remove(q)
    PROVE  Calm
<1>1. ctl[q] # << >> /\ Head1(q).op = "remove"
  BY Readily DEF Remove
<1>2. MayGo(Head1(q), "find")
  BY <1>1 DEF MayGo, Step, Reserving
<1>3. LinesFollow(ctl, ctl')
  BY <1>1, <1>2, Goes, Anywhere DEF Remove
<1> QED BY <1>3, Still, TypedSame DEF Remove, Calm

LEMMA CalmFind ==
    ASSUME Inv, NEW q \in Queue, Find(q)
    PROVE  Calm
<1>1. ctl[q] # << >> /\ Head1(q).op = "remove"
  BY Heads DEF Find, At
<1>2. MayGo(Head1(q), "remove")
  BY <1>1 DEF MayGo, Step, Reserving
<1>3. UploadsFollow(up, up)
  BY NoneChanges DEF Inv
<1>4. UploadsFollow(up, up') /\ LinesFollow(ctl, ctl')
  BY <1>1, <1>2, <1>3, Goes, Anywhere, Returns DEF Find
<1> QED BY <1>4, Still, TypedSame DEF Find, Calm

LEMMA CalmRemoval ==
    ASSUME Inv, NEW q \in Queue, RemoveSettles(q)
    PROVE  Calm
<1>1. ctl[q] # << >>
  BY DEF RemoveSettles, At
<1>2. UploadsFollow(up, up)
  BY NoneChanges DEF Inv
<1>3. UploadsFollow(up, up') /\ LinesFollow(ctl, ctl')
  BY <1>1, <1>2, Goes, Anywhere, Returns DEF RemoveSettles
<1>4. Typed' /\ node'.stage = node.stage
  <2>1. \/ UNCHANGED file
        \/ file' = [f \in Path |-> IF Overlaps(f, Head1(q).of) THEN "missing" ELSE file[f]]
    BY DEF RemoveSettles
  <2>2. file' \in [Path -> Content]
    BY <2>1 DEF Inv, Typed, Content
  <2> QED BY <2>2 DEF Inv, Typed, RemoveSettles
<1> QED BY <1>3, <1>4, Still DEF RemoveSettles, Calm

LEMMA CalmRespond ==
    ASSUME Inv, NEW q \in Queue, Respond(q)
    PROVE  Calm
<1> DEFINE h == Head1(q)
<1>1. /\ ctl[q] # << >> /\ h.op \in Ops /\ (h.op # "remove" => h.of \in Transfer)
  BY Heads DEF Respond, At
<1>2. UploadsFollow(up, up') /\ LinesFollow(ctl, ctl')
  <2>1. CASE EndTask(q)
    BY <1>1, <2>1, Ends
  <2>2. CASE h.op = "begin" /\ up' = Aborting(up, {h.of}) /\ To(q, "cleanup")
    <3>1. MayGo(h, "cleanup")
      BY <2>2 DEF MayGo, Step, Reserving
    <3> QED BY <1>1, <2>2, <3>1, Goes, SomeGiveUp DEF Inv
  <2> QED BY <2>1, <2>2 DEF Respond
<1>3. Typed' /\ node'.stage = node.stage
  <2>1. \/ UNCHANGED phone
        \/ phone' = [phone EXCEPT
                 !.begun    = IF h.op = "begin" THEN @ \cup {h.of} ELSE @,
                 !.finished = IF h.op = "finish" THEN @ \cup {h.of} ELSE @]
    BY DEF Respond
  <2>2. phone' \in PhoneType
    <3> DEFINE B == IF h.op = "begin" THEN phone.begun \cup {h.of} ELSE phone.begun
               F == IF h.op = "finish" THEN phone.finished \cup {h.of} ELSE phone.finished
    <3>1. phone \in PhoneType
      BY DEF Inv, Typed
    <3>2. B \in SUBSET Transfer /\ F \in SUBSET Transfer
      BY <1>1, <3>1 DEF PhoneType
    <3>3. UNCHANGED phone \/ phone' = [phone EXCEPT !.begun = B, !.finished = F]
      BY <2>1
    <3> HIDE DEF B, F
    <3> QED BY <3>1, <3>2, <3>3 DEF PhoneType
  <2> QED BY <2>2 DEF Inv, Typed, Respond
<1> QED BY <1>2, <1>3, Still DEF Respond, Calm

LEMMA CalmEnds ==
    ASSUME Inv, NEW q \in Queue, Fail(q) \/ Swept(q)
    PROVE  Calm
<1>1. ctl[q] # << >> /\ EndTask(q)
  BY DEF Fail, Swept, At
<1>2. UploadsFollow(up, up') /\ LinesFollow(ctl, ctl')
  BY <1>1, Ends
<1> QED BY <1>2, Still, TypedSame DEF Fail, Swept, Calm

(* A request that finds a slot reserves it.                                *)
LEMMA Begins ==
    ASSUME Inv, NEW q \in Queue, BeginUpload(q)
    PROVE  Inv'
<1> DEFINE t == Head1(q).of
           refused == \/ up[t].present
                      \/ Cardinality(ActiveOf(Control(t))) + Cardinality(Reservations(Control(t)))
                           >= Limit(Control(t))
                      \/ Conflict(PathOf[t])
<1>1. /\ ctl[q] # << >> /\ Head1(q).op = "begin" /\ t \in Transfer
      /\ ctl[q] \in Line /\ Head1(q) = ctl[q][1] /\ Head1(q) \in GoodTask
  BY Readily, Heads DEF BeginUpload, Inv, Lines
<1>2. To(q, IF refused THEN "fail" ELSE "lookup") /\ UNCHANGED <<up, frames, done, file, node, phone>>
  BY DEF BeginUpload
<1>3. CASE refused
  <2>1. LinesFollow(ctl, ctl')
    BY <1>1, <1>2, <1>3, Goes, Anywhere
  <2>2. Calm
    BY <1>2, <2>1, Still, TypedSame DEF Calm
  <2> QED BY <2>2, CalmKeeps
<1>4. CASE ~refused
  <2> DEFINE h == [ctl[q][1] EXCEPT !.step = "lookup"]
             s == [ctl[q] EXCEPT ![1] = h]
  <2>1. h \in GoodTask /\ h.of = t
    <3>1. h \in GoodTask
      BY <1>1, TaskGoes DEF Step
    <3>2. h.of = t
      BY <1>1 DEF GoodTask, TaskType
    <3> QED BY <3>1, <3>2
  <2>2. ctl' = [ctl EXCEPT ![q] = s]
    BY <1>2, <1>4 DEF To
  <2> HIDE DEF h
  <2>3. s \in Line /\ s # << >> /\ s[1] = h
    BY <1>1, <2>1, LineHeads
  <2> HIDE DEF s
  <2>4. /\ ctl' \in Lines /\ ctl'[q] = s /\ \A r \in Queue \ {q} : ctl'[r] = ctl[r]
    BY <2>2, <2>3 DEF Inv, Lines
  <2>5. Slots(up, ctl')
    <3>1. ActiveOf(Control(t)) = ActiveIn(up, Control(t))
      BY DEF ActiveOf, ActiveIn
    <3>2. Reservations(Control(t)) = ReservedIn(ctl, Control(t))
      BY DEF Reservations, ReservedIn, Holding, Head1
    <3>3. Cardinality(ActiveIn(up, Control(t))) + Cardinality(ReservedIn(ctl, Control(t)))
             < Limit(Control(t))
      BY <1>4, <3>1, <3>2, SlotSets
    <3>4. ctl'[q][1].of = t
      BY <2>1, <2>3, <2>4
    <3>5. Slots(up, ctl) /\ SlotsIn(up, ctl, Control(t))
      BY <3>3, SlotSets DEF Inv, SlotsIn
    <3> QED BY <2>4, <3>3, <3>4, <3>5, SlotReserved
  <2>6. Staged(node.stage, ctl', frames, up)
    <3>1. \A r \in Queue : ctl[r] = << >> => ctl'[r] = << >>
      BY <1>1, <2>4
    <3>2. UploadsFollow(up, up) /\ Staged(node.stage, ctl, frames, up)
      BY NoneChanges DEF Inv
    <3> QED BY <3>1, <3>2, StagedOn
  <2>7. Typed'
    BY <1>2, TypedSame
  <2> QED BY <1>2, <2>4, <2>5, <2>6, <2>7 DEF Inv
<1> QED BY <1>3, <1>4

(* The upload that is installed takes the place of the reservation.        *)
LEMMA Installs ==
    ASSUME Inv, NEW q \in Queue, CreateWritable(q)
    PROVE  Inv'
<1> DEFINE h == Head1(q)
           t == h.of
           ups == [up EXCEPT ![t] = Installed(h.fresh)]
<1>1. /\ ctl[q] # << >> /\ h.op = "begin" /\ t \in Transfer /\ h.step = "writable"
      /\ ctl[q] \in Line /\ h = ctl[q][1] /\ h.fresh \in BOOLEAN
  BY Heads DEF CreateWritable, At, Inv, Lines, Reserving
<1>2. CASE To(q, IF h.fresh THEN "undo" ELSE "fail") /\ UNCHANGED up
  <2>1. MayGo(h, "undo") /\ MayGo(h, "fail")
    BY <1>1, Anywhere DEF MayGo, Step, Reserving
  <2>2. LinesFollow(ctl, ctl')
    BY <1>1, <1>2, <2>1, Goes
  <2>3. Calm
    BY <1>2, <2>2, Still, TypedSame DEF CreateWritable, Calm
  <2> QED BY <2>3, CalmKeeps
<1>3. CASE Return(q, ups)
  <2>1. UploadsSound(ups) /\ \A s \in Transfer \ {t} : ups[s] = up[s]
    <3>1. Sound(t, Installed(h.fresh)) /\ Installed(h.fresh) \in UploadType
      BY <1>1, Installing DEF Sound, Shaped
    <3> QED BY <1>1, <3>1 DEF Inv, UploadsSound, Uploads
  <2> HIDE DEF ups
  <2>2. UploadsFollow(ups, up')
    BY <1>3, <2>1, SomeGiveUp, NoneChanges DEF Return
  <2>3. PICK step \in {"respond", "sweep"} : To(q, step)
    BY <1>3 DEF Return
  <2>4. LinesFollow(ctl, ctl')
    BY <1>1, <2>3, Goes, Anywhere
  <2>5. ~Holding(ctl'[q]) /\ \A r \in Queue \ {q} : ctl'[r] = ctl[r]
    <3> DEFINE g == [ctl[q][1] EXCEPT !.step = step]
               s == [ctl[q] EXCEPT ![1] = g]
    <3>1. g \in GoodTask /\ g.step = step
      <4>1. ctl[q][1] \in GoodTask
        BY <1>1, LineHead
      <4>2. g \in GoodTask
        BY <4>1, TaskGoes DEF Step, Reserving
      <4> QED BY <4>1, <4>2 DEF GoodTask, TaskType
    <3>2. ctl' = [ctl EXCEPT ![q] = s]
      BY <2>3 DEF To
    <3> HIDE DEF g
    <3>3. s[1] = g
      BY <1>1, <3>1, LineHeads
    <3> HIDE DEF s
    <3>4. ctl'[q] = s /\ \A r \in Queue \ {q} : ctl'[r] = ctl[r]
      BY <3>2 DEF Inv, Lines
    <3> QED BY <3>1, <3>3, <3>4 DEF Holding, Reserving
  <2>6. Slots(up', ctl')
    <3>1. \A s \in Transfer \ {t} : up'[s].present => up[s].present
      BY <2>1, <2>2 DEF UploadsFollow, Follows
    <3>2. Holding(ctl[q])
      BY <1>1 DEF Holding, Reserving
    <3>3. Slots(up, ctl)
      BY DEF Inv
    <3> QED BY <1>1, <2>5, <3>1, <3>2, <3>3, SlotTaken
  <2>7. Staged(node.stage, ctl', frames, up')
    <3>1. Staged(node.stage, ctl, frames, up)
      BY DEF Inv
    <3>2. \A r \in Queue : ctl[r] = << >> => ctl'[r] = << >>
      BY <2>4 DEF LinesFollow, LineFollows
    <3>3. node.stage \notin {"frames", "uploads", "quiet"}
      BY <1>1, <3>1 DEF Staged, Queue
    <3> QED BY <3>1, <3>2, <3>3 DEF Staged, Queue
  <2>8. UNCHANGED <<frames, done, file, node, phone>>
    BY DEF CreateWritable
  <2> QED BY <2>2, <2>4, <2>6, <2>7, <2>8, TypedSame DEF Inv, UploadsFollow, LinesFollow
<1> QED BY <1>2, <1>3 DEF CreateWritable

-----------------------------------------------------------------------------
(* The actions of the frame queues.                                        *)

LEMMA FrameHeads ==
    ASSUME Inv, NEW t \in Transfer, frames[t] # << >>
    PROVE  /\ frames[t] \in FrameLine /\ frames[t][1] \in FrameType
           /\ frames[t][1].length \in Nat \ {0}
<1>1. frames[t] \in FrameLine
  BY DEF Inv, FrameLines
<1> QED BY <1>1, FrameHead DEF FrameType

LEMMA FrameMoves ==
    ASSUME Inv, NEW t \in Transfer, frames[t] # << >>
    PROVE  /\ EndFrame(t) => FramesFollow(frames, frames') /\ done' \in [Transfer -> Nat]
           /\ \A step \in FrameStep :
                 FrameTo(t, step) => FramesFollow(frames, frames') /\ done' \in [Transfer -> Nat]
<1>1. frames \in FrameLines /\ frames[t] \in FrameLine /\ done \in [Transfer -> Nat]
  BY DEF Inv, FrameLines, Typed
<1>2. Tail(frames[t]) \in FrameLine
  BY <1>1, FramePop
<1>3. EndFrame(t) => FramesFollow(frames, frames') /\ done' \in [Transfer -> Nat]
  <2>1. EndFrame(t) => FramesFollow(frames, frames')
    BY <1>1, <1>2, FramesOne DEF EndFrame
  <2>2. EndFrame(t) => done' \in [Transfer -> Nat]
    BY <1>1 DEF EndFrame
  <2> QED BY <2>1, <2>2
<1>4. ASSUME NEW step \in FrameStep, FrameTo(t, step)
      PROVE  FramesFollow(frames, frames') /\ done' \in [Transfer -> Nat]
  <2> DEFINE r == [frames[t] EXCEPT ![1].step = step]
  <2>1. r \in FrameLine
    BY <1>1, FrameGoes
  <2>2. frames' = [frames EXCEPT ![t] = r] /\ UNCHANGED done
    BY <1>4 DEF FrameTo
  <2> HIDE DEF r
  <2> QED BY <1>1, <2>1, <2>2, FramesOne
<1> QED BY <1>3, <1>4

LEMMA TypedButDone ==
    ASSUME Inv, done' \in [Transfer -> Nat], UNCHANGED <<file, node, phone>>
    PROVE  Typed' /\ node'.stage = node.stage
BY DEF Inv, Typed

LEMMA CalmSkipFrame ==
    ASSUME Inv, NEW t \in Transfer, SkipFrame(t) \/ FrameGivenUp(t)
    PROVE  Calm
<1>1. frames[t] # << >> /\ EndFrame(t)
  BY DEF SkipFrame, FrameGivenUp, FrameAt
<1>2. FramesFollow(frames, frames') /\ done' \in [Transfer -> Nat]
  BY <1>1, FrameMoves
<1> QED BY <1>2, Still, TypedButDone DEF SkipFrame, FrameGivenUp, Calm

(* A frame's bytes taken, and written if that fills the buffer.            *)
LEMMA Takes ==
    ASSUME Inv, NEW t \in Transfer, frames[t] # << >>, NEW u, Follows(t, up[t], u), Take(t, u)
    PROVE  /\ UploadsFollow(up, up') /\ FramesFollow(frames, frames')
           /\ done' \in [Transfer -> Nat]
<1>1. Follows(t, up[t], EndOperation(u)) /\ Follows(t, up[t], Flushed(u))
  <2>1. Sound(t, u) /\ u \in UploadType /\ (u.idle => Quiet(u))
    BY DEF Follows, Sound, Shaped
  <2>2. Follows(t, u, EndOperation(u)) /\ Follows(t, u, Flushed(u))
    BY <2>1, Counting, CountsKeep, Flushing
  <2> QED BY <2>2, FollowsOn
<1>2. UploadsSound(up)
  BY DEF Inv
<1>3. CASE up' = [up EXCEPT ![t] = EndOperation(u)] /\ EndFrame(t)
  BY <1>1, <1>2, <1>3, OneChanges, FrameMoves
<1>4. CASE up' = [up EXCEPT ![t] = Flushed(u)] /\ FrameTo(t, "last")
  BY <1>1, <1>2, <1>4, OneChanges, FrameMoves DEF FrameStep
<1> QED BY <1>3, <1>4 DEF Take

LEMMA FailsFrame ==
    ASSUME Inv, NEW t \in Transfer, frames[t] # << >>, NEW u, Shaped(t, u),
           u.present = up[t].present, u.cleanup = up[t].cleanup, FrameFails(t, u)
    PROVE  /\ UploadsFollow(up, up') /\ FramesFollow(frames, frames')
           /\ done' \in [Transfer -> Nat]
<1> DEFINE v == EndOperation(u)
<1>1. Shaped(t, v) /\ v.present = up[t].present /\ v.cleanup = up[t].cleanup
  <2>1. u \in UploadType /\ (u.idle => Quiet(u))
    BY DEF Shaped
  <2>2. Counts(u, v)
    BY <2>1, Counting
  <2> QED BY <2>2, CountsKeep DEF Counts
<1> HIDE DEF v
<1>2. up' = Aborting([up EXCEPT ![t] = v], {t}) /\ FrameTo(t, "cleanup")
  BY DEF FrameFails, v
<1>3. UploadsFollow(up, up')
  BY <1>1, <1>2, OneGivesUp DEF Inv
<1> QED BY <1>2, <1>3, FrameMoves DEF FrameStep

LEMMA CalmAccept ==
    ASSUME Inv, NEW t \in Transfer, AcceptFrame(t)
    PROVE  Calm
<1> DEFINE f == frames[t][1]
           u == BeginOperation(CompleteFrame(up[t]))
<1>1. frames[t] # << >> /\ f.length \in Nat \ {0}
  BY FrameHeads DEF AcceptFrame, FrameAt
<1>2. Sound(t, up[t]) /\ up[t] \in UploadType
  BY DEF Inv, UploadsSound, Sound, Shaped
<1>3. Counts(up[t], u) /\ Follows(t, up[t], u) /\ Sound(t, u)
  <2>1. Counts(up[t], u)
    BY <1>2, Counting DEF Sound, Shaped
  <2> QED BY <1>2, <2>1, CountsKeep DEF Follows
<1>4. Open(t) /\ ~Invalid(t, f) => u.stream \notin {"closing", "closed"}
  <2>1. Open(t) /\ ~Invalid(t, f) => up[t].received # Size[t]
    <3>1. up[t].received \in Nat /\ Size[t] \in Nat
      BY <1>2, UploadAssumption DEF UploadType
    <3>2. up[t].received = Size[t] => f.length > Size[t] - up[t].received
      BY <1>1, <3>1
    <3> QED BY <3>2 DEF Invalid
  <2>2. Open(t) => up[t].present
    BY DEF Open
  <2>3. up[t].stream = "closed" => ~Open(t)
    BY <1>2 DEF Sound, Shaped, Open
  <2> QED BY <1>2, <1>3, <2>1, <2>3 DEF Sound, Shaped, Counts
<1>5. UploadsFollow(up, up') /\ FramesFollow(frames, frames') /\ done' \in [Transfer -> Nat]
  <2>1. CASE FrameTo(t, "cleanup") /\ UNCHANGED up
    BY <1>1, <2>1, Still, FrameMoves DEF FrameStep
  <2>2. CASE up' = Aborting([up EXCEPT ![t] = EndOperation(u)], {t}) /\ FrameTo(t, "cleanup")
    <3>1. Shaped(t, u) /\ u.present = up[t].present /\ u.cleanup = up[t].cleanup
      BY <1>3 DEF Counts, Sound
    <3> HIDE DEF u
    <3> QED BY <1>1, <2>2, <3>1, FailsFrame DEF FrameFails
  <2>3. CASE up' = [up EXCEPT ![t] = Flushed(u)] /\ FrameTo(t, "early")
    <3>1. Follows(t, up[t], Flushed(u))
      BY <1>3, Flushing, FollowsOn
    <3> QED BY <1>1, <2>3, <3>1, OneChanges, FrameMoves DEF FrameStep, Inv
  <2>4. CASE Open(t) /\ ~Invalid(t, f) /\ Take(t, Taken(u, f))
    <3>1. Follows(t, up[t], Taken(u, f))
      BY <1>1, <1>3, <1>4, <2>4, Taking, FollowsOn
    <3> HIDE DEF u, f
    <3> QED BY <1>1, <2>4, <3>1, Takes
  <2> HIDE DEF u
  <2> QED BY <2>1, <2>2, <2>3, <2>4 DEF AcceptFrame, u
<1> QED BY <1>5, Still, TypedButDone DEF AcceptFrame, Calm

LEMMA CalmEarly ==
    ASSUME Inv, NEW t \in Transfer, EarlyWriteSettles(t)
    PROVE  Calm
<1> DEFINE f == frames[t][1]
           u == Taken(Landed(up[t]), f)
<1>1. frames[t] # << >> /\ f.length \in Nat
  BY FrameHeads DEF EarlyWriteSettles, FrameAt
<1>2. Sound(t, up[t]) /\ Shaped(t, up[t])
  BY DEF Inv, UploadsSound, Sound
<1>3. up[t].stream = "open" =>
         /\ Follows(t, up[t], u) /\ Shaped(t, u)
         /\ u.present = up[t].present /\ u.cleanup = up[t].cleanup
  <2> SUFFICES ASSUME up[t].stream = "open"
               PROVE  /\ Follows(t, up[t], u) /\ Shaped(t, u)
                      /\ u.present = up[t].present /\ u.cleanup = up[t].cleanup
    OBVIOUS
  <2> DEFINE v == Landed(up[t])
  <2>1. /\ Follows(t, up[t], v) /\ v.stream = "open" /\ v.present = up[t].present
        /\ v.cleanup = up[t].cleanup
    BY <1>2, Landing
  <2> HIDE DEF v
  <2>2. Follows(t, v, Taken(v, f))
    BY <1>1, <2>1, Taking DEF Follows
  <2>3. Taken(v, f).present = v.present /\ Taken(v, f).cleanup = v.cleanup
    <3>1. v \in UploadType
      BY <2>1 DEF Follows, Sound, Shaped
    <3> QED BY <3>1 DEF Taken, UploadType
  <2>4. Follows(t, up[t], Taken(v, f)) /\ Shaped(t, Taken(v, f))
    BY <2>1, <2>2, FollowsOn DEF Follows, Sound
  <2> QED BY <2>1, <2>3, <2>4 DEF v
<1>4. Shaped(t, Lost(up[t])) /\ Lost(up[t]).present = up[t].present
      /\ Lost(up[t]).cleanup = up[t].cleanup
  BY <1>2, Losing
<1>5. UploadsFollow(up, up') /\ FramesFollow(frames, frames') /\ done' \in [Transfer -> Nat]
  <2> HIDE DEF u
  <2>1. CASE up[t].stream = "open" /\ Take(t, u)
    BY <1>1, <1>3, <2>1, Takes
  <2>2. CASE up[t].stream = "open" /\ FrameFails(t, u)
    BY <1>1, <1>3, <2>2, FailsFrame
  <2>3. CASE FrameFails(t, Lost(up[t]))
    BY <1>1, <1>4, <2>3, FailsFrame
  <2> QED BY <2>1, <2>2, <2>3 DEF EarlyWriteSettles, u
<1> QED BY <1>5, Still, TypedButDone DEF EarlyWriteSettles, Calm

LEMMA CalmWrite ==
    ASSUME Inv, NEW t \in Transfer, WriteSettles(t)
    PROVE  Calm
<1> DEFINE v == Landed(up[t])
<1>1. frames[t] # << >>
  BY DEF WriteSettles, FrameAt
<1>2. Sound(t, up[t]) /\ Shaped(t, up[t])
  BY DEF Inv, UploadsSound, Sound
<1>3. up[t].stream \in {"open", "closing"} =>
         /\ Follows(t, up[t], v) /\ Shaped(t, v)
         /\ v.present = up[t].present /\ v.cleanup = up[t].cleanup
  BY <1>2, Landing DEF Follows, Sound
<1>4. Shaped(t, Lost(up[t])) /\ Lost(up[t]).present = up[t].present
      /\ Lost(up[t]).cleanup = up[t].cleanup
  BY <1>2, Losing
<1>5. UploadsFollow(up, up') /\ FramesFollow(frames, frames') /\ done' \in [Transfer -> Nat]
  <2> HIDE DEF v
  <2>1. CASE /\ up[t].stream \in {"open", "closing"}
             /\ up' = [up EXCEPT ![t] = EndOperation(v)] /\ EndFrame(t)
    <3>1. v \in UploadType /\ (v.idle => Quiet(v)) /\ Sound(t, v) /\ Follows(t, up[t], v)
      BY <1>3, <2>1 DEF Follows, Shaped
    <3>2. Follows(t, v, EndOperation(v))
      BY <3>1, Counting, CountsKeep
    <3>3. Follows(t, up[t], EndOperation(v))
      BY <3>1, <3>2, FollowsOn
    <3> QED BY <1>1, <2>1, <3>3, OneChanges, FrameMoves DEF Inv
  <2>2. CASE up[t].stream \in {"open", "closing"} /\ FrameFails(t, v)
    BY <1>1, <1>3, <2>2, FailsFrame
  <2>3. CASE FrameFails(t, Lost(up[t]))
    BY <1>1, <1>4, <2>3, FailsFrame
  <2> QED BY <2>1, <2>2, <2>3 DEF WriteSettles, v
<1> QED BY <1>5, Still, TypedButDone DEF WriteSettles, Calm

-----------------------------------------------------------------------------
(* Cleanup, the timers, the channel and the phone.                         *)

LEMMA CalmCleanups ==
    ASSUME Inv, NEW t \in Transfer, CleanupStep(t)
    PROVE  Calm
<1>1. Sound(t, up[t]) /\ UploadsSound(up)
  BY DEF Inv, UploadsSound
<1>2. CASE AbortSettles(t)
  <2> DEFINE v == [up[t] EXCEPT !.stream = IF @ = "open" THEN "aborted" ELSE @]
             w == IF v.removeOnAbort THEN [v EXCEPT !.cleanup = "removing"] ELSE Removed(v)
  <2>1. Follows(t, up[t], w)
    BY <1>1, <1>2, Settling DEF AbortSettles
  <2>2. up' = [up EXCEPT ![t] = w]
    BY <1>2 DEF AbortSettles
  <2> HIDE DEF w
  <2>3. UploadsFollow(up, up')
    BY <1>1, <2>1, <2>2, OneChanges
  <2> QED BY <1>2, <2>3, Still, TypedSame DEF AbortSettles, Calm
<1>3. CASE CleanupRemoves(t)
  <2>1. Follows(t, up[t], Removed(up[t]))
    BY <1>1, <1>3, Settling DEF CleanupRemoves
  <2>2. UploadsFollow(up, up')
    BY <1>1, <1>3, <2>1, OneChanges DEF CleanupRemoves
  <2>3. Typed' /\ node'.stage = node.stage
    BY <1>3 DEF Inv, Typed, CleanupRemoves, RemoveEntry, Content
  <2> QED BY <1>3, <2>2, <2>3, Still DEF CleanupRemoves, Calm
<1> QED BY <1>2, <1>3 DEF CleanupStep

LEMMA CalmExpire ==
    ASSUME Inv, NEW t \in Transfer, Expire(t)
    PROVE  Calm
<1> DEFINE v == [up[t] EXCEPT !.idle = FALSE]
<1>1. Sound(t, up[t]) /\ up[t] \in UploadType /\ UploadsSound(up)
  BY DEF Inv, UploadsSound, Sound, Shaped
<1>2. Shaped(t, v) /\ v.present = up[t].present /\ v.cleanup = up[t].cleanup
  <2>1. Counts(up[t], v)
    BY <1>1, Counting DEF Sound, Shaped
  <2> QED BY <1>1, <2>1, CountsKeep DEF Counts, Sound
<1>3. up' = Aborting([up EXCEPT ![t] = v], {t})
  BY DEF Expire
<1> HIDE DEF v
<1>4. UploadsFollow(up, up')
  BY <1>1, <1>2, <1>3, OneGivesUp
<1> QED BY <1>4, Still, TypedSame DEF Expire, Calm

LEMMA CalmCloses ==
    ASSUME Inv, ChannelCloses
    PROVE  Calm
<1>1. Typed' /\ node'.stage = node.stage
  BY DEF Inv, Typed, ChannelCloses, NodeType
<1> QED BY <1>1, Still DEF ChannelCloses, Calm

(* A node that is disposed now has waited for nothing yet.                 *)
LEMMA Disposing ==
    ASSUME Inv, NEW closing \in BOOLEAN, ~Disposed, Dispose(closing)
    PROVE  node' \in NodeType /\ node'.stage = "queue"
BY DEF Dispose, Disposed, Inv, Typed, NodeType, Stages

LEMMA DisposeKeeps ==
    ASSUME Inv, PageDisposes \/ ReceiveViolation
    PROVE  Inv'
<1>1. PICK closing \in BOOLEAN : ~Disposed /\ Dispose(closing)
  BY DEF PageDisposes, ReceiveViolation, Listening
<1>2. node' \in NodeType /\ node'.stage = "queue"
  BY <1>1, Disposing
<1>3. UNCHANGED <<up, ctl, frames, done, file, phone>>
  BY DEF PageDisposes, ReceiveViolation
<1> QED BY <1>2, <1>3 DEF Inv, Typed, Staged

LEMMA QuiesceKeeps ==
    ASSUME Inv, Quiesce
    PROVE  Inv'
<1>1. UNCHANGED <<ctl, frames, done, file, phone>>
  BY DEF Quiesce
<1>2. UploadsFollow(up, up')
  BY SomeGiveUp, Still DEF Quiesce, Inv
<1>3. node' \in NodeType
  BY DEF Quiesce, Inv, Typed, NodeType, Stages
<1>4. Staged(node'.stage, ctl, frames, up')
  <2>1. Staged(node.stage, ctl, frames, up) /\ Staged(node.stage, ctl, frames, up')
    BY <1>2, StagedOn DEF Inv
  <2>2. CASE /\ node.stage = "queue" /\ ctl["queue"] = << >>
             /\ node' = [node EXCEPT !.stage = "lockQueue"]
    BY <2>2 DEF Staged, Inv, Typed, NodeType
  <2>3. CASE /\ node.stage = "lockQueue" /\ ctl["lockQueue"] = << >>
             /\ node' = [node EXCEPT !.stage = "frames"]
    BY <2>1, <2>3 DEF Staged, Inv, Typed, NodeType
  <2>4. CASE /\ node.stage = "frames" /\ \A t \in Transfer : frames[t] = << >>
             /\ node' = [node EXCEPT !.stage = "uploads"] /\ up' = Aborting(up, Transfer)
    <3>1. \A t \in Transfer : ~OpenNow(up'[t])
      BY <2>4, SomeGiveUp DEF Inv
    <3> QED BY <2>1, <2>4, <3>1 DEF Staged, Inv, Typed, NodeType
  <2>5. CASE /\ node.stage = "uploads" /\ NoCleanup
             /\ node' = [node EXCEPT !.stage = "quiet"] /\ UNCHANGED up
    BY <2>1, <2>5 DEF Staged, Inv, Typed, NodeType, NoCleanup, CleanedUp
  <2> QED BY <2>2, <2>3, <2>4, <2>5 DEF Quiesce
<1>5. Slots(up', ctl)
  <2>1. \A t \in Transfer : up'[t].present => up[t].present
    BY <1>2 DEF UploadsFollow, Follows
  <2> QED BY <2>1, SlotsFewer DEF Inv
<1> QED BY <1>1, <1>2, <1>3, <1>4, <1>5 DEF Inv, Typed, UploadsFollow

LEMMA RequestKeeps ==
    ASSUME Inv, NEW r \in Requests, ReceiveRequest(r[1], r[2])
    PROVE  Inv'
<1> DEFINE op == r[1]
           x == r[2]
           h == Request(op, x)
<1>1. /\ op \in Ops /\ (op # "remove" => x \in Transfer) /\ (op = "remove" => x \in Path)
      /\ r = <<op, x>>
  BY UploadAssumption DEF Ops
<1>2. h \in GoodTask /\ h.step = "queued"
  <2>1. op \in {"finish", "abort"} => done[x] + Len(frames[x]) \in Nat
    <3>1. ASSUME op \in {"finish", "abort"} PROVE done[x] \in Nat /\ frames[x] \in Seq(FrameType)
      BY <1>1, <3>1 DEF Inv, Typed, FrameLines, FrameLine
    <3> QED BY <3>1
  <2> DEFINE b == IF op \in {"finish", "abort"} THEN done[x] + Len(frames[x]) ELSE 0
  <2>2. b \in Nat
    BY <2>1
  <2>3. h = [op |-> op, of |-> x, step |-> "queued", fresh |-> FALSE, barrier |-> b]
    BY DEF Request
  <2> HIDE DEF b, op, x, h
  <2> QED BY <1>1, <2>2, <2>3 DEF GoodTask, TaskType, Step, Reserving, Ops
<1> HIDE DEF h
<1>3. PICK q \in Queue : ctl' = [ctl EXCEPT ![q] = Append(@, h)]
  BY DEF ReceiveRequest, Queue, h
<1>4. ctl' \in Lines /\ \A p \in Queue : Holding(ctl'[p]) => Holding(ctl[p]) /\ ctl'[p][1].of = ctl[p][1].of
  <2>1. ctl \in Lines /\ ctl[q] \in Line
    BY DEF Inv, Lines
  <2>2. /\ Append(ctl[q], h) \in Line
        /\ Holding(Append(ctl[q], h)) => Holding(ctl[q]) /\ Append(ctl[q], h)[1].of = ctl[q][1].of
    BY <1>2, <2>1, LinePush
  <2> QED BY <1>3, <2>1, <2>2 DEF Lines
<1>5. UploadsFollow(up, up')
  <2>1. UploadsFollow(up, up)
    BY NoneChanges DEF Inv
  <2>2. ASSUME op \in {"finish", "abort"}
        PROVE  UploadsFollow(up, [up EXCEPT ![x] = NoteTerminal(up[x])])
    <3>1. x \in Transfer
      BY <1>1, <2>2
    <3>2. Sound(x, up[x]) /\ up[x] \in UploadType /\ (up[x].idle => Quiet(up[x]))
      BY <3>1 DEF Inv, UploadsSound, Sound, Shaped
    <3>3. Follows(x, up[x], NoteTerminal(up[x]))
      BY <3>1, <3>2, Counting, CountsKeep
    <3> QED BY <3>1, <3>3, OneChanges DEF Inv
  <2> QED BY <2>1, <2>2 DEF ReceiveRequest, Noted
<1>6. node.stage = "live" /\ UNCHANGED <<frames, done, file, node>>
  BY DEF ReceiveRequest, Listening, Disposed
<1>7. Typed'
  <2>1. phone' = [phone EXCEPT !.sent = @ \cup {r}]
    BY <1>1 DEF ReceiveRequest
  <2>2. phone' \in PhoneType
    BY <2>1 DEF Inv, Typed, PhoneType
  <2> QED BY <1>6, <2>2 DEF Inv, Typed
<1>8. Slots(up', ctl')
  <2>1. \A t \in Transfer : up'[t].present => up[t].present
    BY <1>5 DEF UploadsFollow, Follows
  <2> QED BY <1>4, <2>1, SlotsFewer DEF Inv
<1> QED BY <1>4, <1>5, <1>6, <1>7, <1>8 DEF Inv, Staged, UploadsFollow

LEMMA FrameKeeps ==
    ASSUME Inv, NEW t \in Transfer, NEW length \in 1 .. MaxFrame,
           NEW offset \in phone.next[t] .. phone.next[t] + MaxGap, ReceiveFrame(t, offset, length)
    PROVE  Inv'
<1>1. offset \in Nat /\ length \in Nat \ {0}
  <2>1. phone.next[t] \in Nat
    BY DEF Inv, Typed, PhoneType
  <2> QED BY <2>1, UploadAssumption
<1>2. UploadsFollow(up, up')
  <2>1. Sound(t, up[t]) /\ up[t] \in UploadType /\ (up[t].idle => Quiet(up[t]))
    BY DEF Inv, UploadsSound, Sound, Shaped
  <2>2. Follows(t, up[t], NoteFrame(up[t]))
    BY <2>1, Counting, CountsKeep
  <2>3. UploadsFollow(up, [up EXCEPT ![t] = NoteFrame(up[t])]) /\ UploadsFollow(up, up)
    BY <2>2, OneChanges, NoneChanges DEF Inv
  <2> QED BY <2>3 DEF ReceiveFrame, Noted
<1>3. frames' \in FrameLines
  <2> DEFINE f == [offset |-> offset, length |-> length, step |-> "queued"]
  <2>1. f \in FrameType /\ f.step = "queued"
    BY <1>1 DEF FrameType, FrameStep
  <2>2. UNCHANGED frames \/ frames' = [frames EXCEPT ![t] = Append(@, f)]
    BY DEF ReceiveFrame
  <2> HIDE DEF f
  <2>3. frames \in FrameLines /\ frames[t] \in FrameLine
    BY DEF Inv, FrameLines
  <2>4. Append(frames[t], f) \in FrameLine
    BY <2>1, <2>3, FramePush
  <2> QED BY <2>2, <2>3, <2>4 DEF FrameLines
<1>4. node.stage = "live" /\ node' \in NodeType /\ node'.stage \in {"live", "queue"}
  <2>1. ~Disposed /\ (UNCHANGED node \/ Dispose(TRUE))
    BY DEF ReceiveFrame, Listening
  <2>2. node \in NodeType /\ node.stage = "live"
    BY <2>1 DEF Inv, Typed, Disposed
  <2>3. Dispose(TRUE) => node' \in NodeType /\ node'.stage = "queue"
    <3>1. TRUE \in BOOLEAN
      OBVIOUS
    <3> QED BY ONLY Inv, <2>1, <3>1, Disposing
  <2>4. UNCHANGED node => node' \in NodeType /\ node'.stage = "live"
    BY <2>2
  <2> QED BY <2>1, <2>2, <2>3, <2>4
<1>5. phone' \in PhoneType
  <2> DEFINE n == IF offset = phone.next[t] THEN offset + length ELSE phone.next[t]
             m == phone.frames[t] + 1
  <2>1. phone \in PhoneType
    BY DEF Inv, Typed
  <2>2. n \in Nat /\ m \in Nat
    BY <1>1, <2>1 DEF PhoneType
  <2>3. phone' = [phone EXCEPT !.frames[t] = m, !.next[t] = n]
    BY DEF ReceiveFrame
  <2> HIDE DEF n, m
  <2>4. phone' = [phone EXCEPT !.frames = [phone.frames EXCEPT ![t] = m],
                               !.next = [phone.next EXCEPT ![t] = n]]
    BY <2>1, <2>3 DEF PhoneType
  <2>5. [phone.frames EXCEPT ![t] = m] \in [Transfer -> Nat] /\ [phone.next EXCEPT ![t] = n] \in [Transfer -> Nat]
    BY <2>1, <2>2 DEF PhoneType
  <2> QED BY <2>1, <2>4, <2>5 DEF PhoneType
<1>6. Slots(up', ctl)
  <2>1. \A s \in Transfer : up'[s].present => up[s].present
    BY <1>2 DEF UploadsFollow, Follows
  <2> QED BY <2>1, SlotsFewer DEF Inv
<1>7. UNCHANGED <<ctl, done, file>>
  BY DEF ReceiveFrame
<1> QED BY <1>2, <1>3, <1>4, <1>5, <1>6, <1>7 DEF Inv, Typed, Staged, UploadsFollow

-----------------------------------------------------------------------------
(* The theorems.                                                           *)

LEMMA CalmControls ==
    ASSUME Inv, NEW q \in Queue, ControlStep(q)
    PROVE  Inv'
BY CalmKeeps, CalmSkip, CalmAwait, Begins, CalmLookUp, CalmCreate, Installs, CalmUndo, CalmFinish,
   CalmClose, CalmAbort, CalmCleanup, CalmRemove, CalmFind, CalmRemoval, CalmRespond, CalmEnds
   DEF ControlStep

LEMMA CalmFrames ==
    ASSUME Inv, NEW t \in Transfer, FrameTask(t) \/ CleanupStep(t) \/ Expire(t)
    PROVE  Inv'
BY CalmKeeps, CalmSkipFrame, CalmAccept, CalmEarly, CalmWrite, CalmCleanups, CalmExpire
   DEF FrameTask

LEMMA ReceiveKeeps ==
    ASSUME Inv, Receive
    PROVE  Inv'
BY RequestKeeps, FrameKeeps, DisposeKeeps DEF Receive

LEMMA Stutters ==
    ASSUME Inv, UNCHANGED vars
    PROVE  Inv'
BY DEF Inv, Typed, vars

(* The inductive invariant: every upload's bytes, counters, stream and     *)
(* cleanup fit together, only the heads of the queues are under way, what  *)
(* waitForQuiescence has waited for stays over, and the uploads of a class *)
(* and the slots reserved for it are within its limit.                     *)
THEOREM Invariance == Spec => []Inv
<1>1. Init => Inv
  BY Initially
<1>2. Inv /\ [Next]_vars => Inv'
  <2> SUFFICES ASSUME Inv, [Next]_vars PROVE Inv'
    OBVIOUS
  <2>1. CASE Receive
    BY <2>1, ReceiveKeeps
  <2>2. CASE \E q \in Queue : ControlStep(q)
    BY <2>2, CalmControls
  <2>3. CASE \E t \in Transfer : FrameTask(t) \/ CleanupStep(t) \/ Expire(t)
    BY <2>3, CalmFrames
  <2>4. CASE PageDisposes
    BY <2>4, DisposeKeeps
  <2>5. CASE ChannelCloses
    BY <2>5, CalmCloses, CalmKeeps
  <2>6. CASE Quiesce
    BY <2>6, QuiesceKeeps
  <2>7. CASE UNCHANGED vars
    BY <2>7, Stutters
  <2> QED BY <2>1, <2>2, <2>3, <2>4, <2>5, <2>6, <2>7 DEF Next
<1> QED BY <1>1, <1>2, PTL DEF Spec

(* Types: every variable of the node is what the code keeps there.         *)
THEOREM Typing == Spec => []TypeOK
<1>1. Inv => TypeOK
  <2> SUFFICES ASSUME Inv PROVE TypeOK
    OBVIOUS
  <2>1. ctl \in [Queue -> Seq(TaskType)]
    <3>1. \A s \in Seq(GoodTask) : s \in Seq(TaskType)
      <4>1. GoodTask \subseteq TaskType
        BY DEF GoodTask
      <4> QED BY <4>1
    <3> QED BY <3>1 DEF Inv, Lines, Line
  <2>2. frames \in [Transfer -> Seq([offset : Nat, length : Nat, step : FrameStep])]
    <3>1. FrameType \subseteq [offset : Nat, length : Nat, step : FrameStep]
      BY DEF FrameType
    <3>2. \A s \in Seq(FrameType) : s \in Seq([offset : Nat, length : Nat, step : FrameStep])
      <4> DEFINE T == [offset : Nat, length : Nat, step : FrameStep]
      <4>1. FrameType \subseteq T
        BY <3>1
      <4> HIDE DEF T
      <4>2. \A s \in Seq(FrameType) : s \in Seq(T)
        BY <4>1
      <4> QED BY <4>2 DEF T
    <3> QED BY <3>2 DEF Inv, FrameLines, FrameLine
  <2> QED BY <2>1, <2>2 DEF TypeOK, Inv, Typed, UploadsSound, Uploads, NodeType, Stages
<1> QED BY <1>1, Invariance, PTL

(* Limits: however begins of the two queues interleave between the count   *)
(* of the slots and the upload that takes one, no class of uploads ever    *)
(* has more of them than it may.                                           *)
THEOREM Limits == Spec => []SlotsRespected
<1>1. Inv => SlotsRespected
  <2> SUFFICES ASSUME Inv, NEW control \in BOOLEAN
               PROVE  Cardinality(ActiveOf(control)) <= Limit(control)
    BY DEF SlotsRespected
  <2>1. SlotsIn(up, ctl, control)
    BY DEF Inv, Slots
  <2>2. ActiveOf(control) = ActiveIn(up, control)
    BY DEF ActiveOf, ActiveIn
  <2> QED BY <2>1, <2>2, SlotSets DEF SlotsIn
<1> QED BY <1>1, Invariance, PTL

(* Bytes: whichever task flushes and whichever write lands or is lost, the *)
(* bytes of an open upload are all accounted for, and a file is committed  *)
(* whole or not at all.                                                    *)
THEOREM Bytes == Spec => []BytesAccounted
<1>1. Inv => BytesAccounted
  BY DEF Inv, UploadsSound, Sound, Shaped, OpenNow, Open, BytesAccounted
<1> QED BY <1>1, Invariance, PTL

(* Quiescence: once waitForQuiescence has resolved, no task, frame, stream *)
(* or cleanup of the node is left to touch the folder.                     *)
THEOREM Quiescence == Spec => []QuietMeansQuiet
<1>1. Inv => QuietMeansQuiet
  <2> SUFFICES ASSUME Inv, node.stage = "quiet"
               PROVE  /\ \A q \in Queue : ctl[q] = << >>
                      /\ \A t \in Transfer :
                            /\ frames[t] = << >> /\ ~up[t].present /\ CleanedUp(t)
                            /\ up[t].stream \in {"none", "closed", "aborted"}
    BY DEF QuietMeansQuiet
  <2>1. \A q \in Queue : ctl[q] = << >>
    BY DEF Inv, Staged, Queue
  <2>2. ASSUME NEW t \in Transfer
        PROVE  /\ frames[t] = << >> /\ ~up[t].present /\ CleanedUp(t)
               /\ up[t].stream \in {"none", "closed", "aborted"}
    <3>1. frames[t] = << >> /\ ~OpenNow(up[t]) /\ up[t].cleanup \in {"none", "done"}
      BY DEF Inv, Staged
    <3>2. Sound(t, up[t])
      BY DEF Inv, UploadsSound
    <3>3. ~up[t].present
      BY <3>1, <3>2 DEF Sound, Shaped, OpenNow
    <3> QED BY <3>1, <3>2, <3>3 DEF Sound, Shaped, UploadType, CleanedUp
  <2> QED BY <2>1, <2>2
<1> QED BY <1>1, Invariance, PTL

-----------------------------------------------------------------------------
(* A phone that keeps to the protocol: what its transfers may count on.    *)

(* A task of the queues cs that is operation op on x.                      *)
Has(cs, op, x) ==
    \E q \in Queue : \E i \in 1 .. Len(cs[q]) : cs[q][i].op = op /\ cs[q][i].of = x

(* Every request is queued at most once, and only if the phone sent it.    *)
Distinct(cs) ==
    \A q, r \in Queue : \A i \in 1 .. Len(cs[q]) : \A j \in 1 .. Len(cs[r]) :
        cs[q][i].op = cs[r][j].op /\ cs[q][i].of = cs[r][j].of => q = r /\ i = j

Once(cs, sent) ==
    /\ \A q \in Queue : \A i \in 1 .. Len(cs[q]) : <<cs[q][i].op, cs[q][i].of>> \in sent
    /\ Distinct(cs)

Endings(cs, t) == {op \in {"finish", "abort"} : Has(cs, op, t)}

BarrierAt(cs, t, b) ==
    \A q \in Queue : \A i \in 1 .. Len(cs[q]) :
        cs[q][i].op = "finish" /\ cs[q][i].of = t => cs[q][i].barrier = b

Waiting(s) ==
    IF s = << >> THEN 0 ELSE IF s[1].step = "queued" THEN Len(s) ELSE Len(s) - 1

(* The counters of an open upload are never behind its queues.             *)
CountedFrames(u, s) ==
    /\ u.queuedFrames >= Waiting(s)
    /\ s # << >> =>
          s[1].step # "cleanup" /\ (s[1].step # "queued" => u.activeOperations >= 1)

CountedEnds(u, cs, t) == u.queuedTerminalControls >= Cardinality(Endings(cs, t))

(* The frames under way continue what was received up to what was sent.    *)
Chain(s, received, next) ==
    /\ s = << >> => received = next
    /\ s # << >> =>
          /\ received = IF s[1].step = "last" THEN s[1].offset + s[1].length ELSE s[1].offset
          /\ s[Len(s)].offset + s[Len(s)].length = next
          /\ \A i \in 1 .. Len(s) - 1 : s[i + 1].offset = s[i].offset + s[i].length

Unbegun(t, s, ph) ==
    /\ s = << >> /\ ph.next[t] = 0
    /\ <<"finish", t>> \notin ph.sent /\ <<"abort", t>> \notin ph.sent

Manners(t, u, s, d, live, ph, cs) ==
    /\ t \notin ph.begun => Unbegun(t, s, ph)
    /\ t \in ph.begun => <<"begin", t>> \in ph.sent /\ ~Has(cs, "begin", t)
    /\ OpenNow(u) => CountedFrames(u, s) /\ CountedEnds(u, cs, t)
    /\ OpenNow(u) /\ live => Chain(s, u.received, ph.next[t])
    /\ Has(cs, "finish", t) => ph.next[t] = Size[t] /\ BarrierAt(cs, t, d + Len(s))
    /\ t \notin ph.misfit

Mannered ==
    /\ Once(ctl, phone.sent)
    /\ \A t \in Polite : Manners(t, up[t], frames[t], done[t], ~Disposed, phone, ctl)

(* The queues after have no task on a transfer that cs did not have.       *)
Subtasks(cs, after) ==
    \A t \in Transfer :
        /\ \A op \in Ops : Has(after, op, t) => Has(cs, op, t)
        /\ \A n \in Nat : BarrierAt(cs, t, n) => BarrierAt(after, t, n)

SameTasks(s, after) ==
    /\ Len(after) = Len(s)
    /\ \A i \in 1 .. Len(s) :
          /\ after[i].op = s[i].op /\ after[i].of = s[i].of /\ after[i].barrier = s[i].barrier

LEMMA SameHas ==
    ASSUME NEW cs, NEW after, \A q \in Queue : SameTasks(cs[q], after[q])
    PROVE  /\ Subtasks(cs, after)
           /\ \A sent : Once(cs, sent) => Once(after, sent)
<1>1. ASSUME NEW op, NEW x, Has(after, op, x) PROVE Has(cs, op, x)
  BY <1>1 DEF Has, SameTasks
<1>2. ASSUME NEW t, NEW n, BarrierAt(cs, t, n) PROVE BarrierAt(after, t, n)
  BY <1>2 DEF BarrierAt, SameTasks
<1>3. ASSUME NEW sent, Once(cs, sent) PROVE Once(after, sent)
  <2>1. \A q \in Queue : \A i \in 1 .. Len(after[q]) : <<after[q][i].op, after[q][i].of>> \in sent
    BY <1>3 DEF Once, SameTasks
  <2>2. ASSUME NEW q \in Queue, NEW r \in Queue,
               NEW i \in 1 .. Len(after[q]), NEW j \in 1 .. Len(after[r]),
               after[q][i].op = after[r][j].op, after[q][i].of = after[r][j].of
        PROVE  q = r /\ i = j
    <3>1. /\ i \in 1 .. Len(cs[q]) /\ j \in 1 .. Len(cs[r])
          /\ cs[q][i].op = cs[r][j].op /\ cs[q][i].of = cs[r][j].of
      BY <2>2 DEF SameTasks
    <3> QED BY <1>3, <3>1 DEF Once, Distinct
  <2>3. Distinct(after)
    BY <2>2 DEF Distinct
  <2> QED BY <2>1, <2>3 DEF Once
<1> QED BY <1>1, <1>2, <1>3 DEF Subtasks

LEMMA OnlyOnce ==
    ASSUME NEW cs, Distinct(cs), NEW p \in Queue, NEW r \in Queue,
           NEW i \in 1 .. Len(cs[p]), NEW j \in 1 .. Len(cs[r]),
           cs[p][i].op = cs[r][j].op, cs[p][i].of = cs[r][j].of
    PROVE  p = r /\ i = j
BY DEF Distinct

(* Every task of after is one of cs, some places on.                       *)
Shifted(cs, after, shift) ==
    \A r \in Queue : shift[r] \in Int /\ \A i \in 1 .. Len(after[r]) :
        i + shift[r] \in 1 .. Len(cs[r]) /\ after[r][i] = cs[r][i + shift[r]]

LEMMA StillDistinct ==
    ASSUME NEW cs, NEW after, Distinct(cs), NEW shift, Shifted(cs, after, shift)
    PROVE  Distinct(after)
<1> SUFFICES ASSUME NEW p \in Queue, NEW r \in Queue,
                    NEW i \in 1 .. Len(after[p]), NEW j \in 1 .. Len(after[r]),
                    after[p][i].op = after[r][j].op, after[p][i].of = after[r][j].of
             PROVE  p = r /\ i = j
  BY DEF Distinct
<1> DEFINE k == i + shift[p]
           l == j + shift[r]
<1>1. /\ k \in 1 .. Len(cs[p]) /\ after[p][i] = cs[p][k]
      /\ l \in 1 .. Len(cs[r]) /\ after[r][j] = cs[r][l]
  BY DEF Shifted
<1> HIDE DEF k, l
<1>2. p = r /\ k = l
  <2>1. cs[p][k].op = cs[r][l].op /\ cs[p][k].of = cs[r][l].of
    BY <1>1
  <2> QED BY <1>1, <2>1, OnlyOnce
<1>3. i \in Int /\ j \in Int /\ shift[p] \in Int
  BY DEF Shifted
<1> QED BY <1>2, <1>3 DEF k, l

LEMMA PopHas ==
    ASSUME NEW cs \in Lines, NEW q \in Queue, cs[q] # << >>,
           NEW after, after = [cs EXCEPT ![q] = Tail(@)]
    PROVE  /\ Subtasks(cs, after)
           /\ \A sent : Once(cs, sent) =>
                 Once(after, sent) /\ ~Has(after, cs[q][1].op, cs[q][1].of)
<1>1. /\ after[q] = Tail(cs[q]) /\ \A r \in Queue \ {q} : after[r] = cs[r]
      /\ cs[q] \in Line
  BY DEF Lines
<1>2. /\ Len(after[q]) = Len(cs[q]) - 1 /\ Len(cs[q]) \in Nat \ {0}
      /\ \A i \in 1 .. Len(cs[q]) - 1 : after[q][i] = cs[q][i + 1]
  BY <1>1, LinePop, LineHead
<1>3. ASSUME NEW i \in 1 .. Len(after[q])
      PROVE  i + 1 \in 1 .. Len(cs[q]) /\ after[q][i] = cs[q][i + 1]
  BY <1>2
<1>4. ASSUME NEW op, NEW x, Has(after, op, x) PROVE Has(cs, op, x)
  BY <1>1, <1>3, <1>4 DEF Has
<1>5. ASSUME NEW t, NEW n, BarrierAt(cs, t, n) PROVE BarrierAt(after, t, n)
  BY <1>1, <1>3, <1>5 DEF BarrierAt
<1>6. ASSUME NEW sent, Once(cs, sent)
      PROVE  Once(after, sent) /\ ~Has(after, cs[q][1].op, cs[q][1].of)
  <2> DEFINE shift == [r \in Queue |-> IF r = q THEN 1 ELSE 0]
  <2>1. ASSUME NEW r \in Queue, NEW i \in 1 .. Len(after[r])
        PROVE  i + shift[r] \in 1 .. Len(cs[r]) /\ after[r][i] = cs[r][i + shift[r]]
    BY <1>1, <1>3
  <2>0. shift[q] = 1 /\ \A r \in Queue : shift[r] \in Int
    OBVIOUS
  <2> HIDE DEF shift
  <2>2. \A r \in Queue : \A i \in 1 .. Len(after[r]) : <<after[r][i].op, after[r][i].of>> \in sent
    BY <1>6, <2>1 DEF Once
  <2>3. Distinct(after)
    <3>1. Distinct(cs)
      BY <1>6 DEF Once
    <3>2. Shifted(cs, after, shift)
      BY <2>0, <2>1 DEF Shifted
    <3> QED BY <3>1, <3>2, StillDistinct
  <2>4. ASSUME Has(after, cs[q][1].op, cs[q][1].of) PROVE FALSE
    <3>1. PICK r \in Queue : \E i \in 1 .. Len(after[r]) :
             after[r][i].op = cs[q][1].op /\ after[r][i].of = cs[q][1].of
      BY <2>4 DEF Has
    <3>2. PICK i \in 1 .. Len(after[r]) :
             after[r][i].op = cs[q][1].op /\ after[r][i].of = cs[q][1].of
      BY <3>1
    <3>3. 1 \in 1 .. Len(cs[q])
      BY <1>2
    <3>4. r = q /\ i + shift[r] = 1
      <4>1. /\ i + shift[r] \in 1 .. Len(cs[r])
            /\ cs[r][i + shift[r]].op = cs[q][1].op /\ cs[r][i + shift[r]].of = cs[q][1].of
        BY <2>1, <3>2
      <4>2. Distinct(cs)
        BY <1>6 DEF Once
      <4> QED BY <3>3, <4>1, <4>2, OnlyOnce
    <3>5. i \in Nat \ {0}
      BY <1>2, <3>4
    <3> QED BY <2>0, <3>4, <3>5
  <2> QED BY <2>2, <2>3, <2>4 DEF Once
<1> QED BY <1>4, <1>5, <1>6 DEF Subtasks

(* The queues after have at most one task more: op on x, waiting for b.    *)
Grows(cs, after, op, x, b) ==
    /\ \A o, y : Has(after, o, y) => Has(cs, o, y) \/ (o = op /\ y = x)
    /\ \A t, n : BarrierAt(cs, t, n) /\ (op = "finish" /\ x = t => b = n)
                    => BarrierAt(after, t, n)

LEMMA PushHas ==
    ASSUME NEW cs \in Lines, NEW q \in Queue, NEW h \in GoodTask, h.step = "queued",
           NEW after, after = [cs EXCEPT ![q] = Append(@, h)]
    PROVE  /\ Grows(cs, after, h.op, h.of, h.barrier)
           /\ \A sent : Once(cs, sent) /\ <<h.op, h.of>> \notin sent
                           => Once(after, sent \cup {<<h.op, h.of>>})
<1>1. /\ after[q] = Append(cs[q], h) /\ \A r \in Queue \ {q} : after[r] = cs[r]
      /\ cs[q] \in Line
  BY DEF Lines
<1>2. /\ Len(after[q]) = Len(cs[q]) + 1 /\ Len(cs[q]) \in Nat
      /\ after[q][Len(cs[q]) + 1] = h
      /\ \A i \in 1 .. Len(cs[q]) : after[q][i] = cs[q][i]
  <2>1. Len(cs[q]) \in Nat
    BY <1>1 DEF Line
  <2> QED BY <1>1, <2>1, LinePush
<1>3. ASSUME NEW r \in Queue, NEW i \in 1 .. Len(after[r])
      PROVE  \/ i \in 1 .. Len(cs[r]) /\ after[r][i] = cs[r][i]
             \/ r = q /\ i = Len(cs[q]) + 1 /\ after[r][i] = h
  <2>1. CASE r = q
    <3>1. i \in 1 .. Len(cs[q]) \/ i = Len(cs[q]) + 1
      BY <1>2, <2>1
    <3> QED BY <1>2, <2>1, <3>1
  <2>2. CASE r # q
    BY <1>1, <2>2
  <2> QED BY <2>1, <2>2
<1>4. ASSUME NEW op, NEW x, Has(after, op, x) PROVE Has(cs, op, x) \/ (op = h.op /\ x = h.of)
  BY <1>3, <1>4 DEF Has
<1>5. ASSUME NEW t, NEW n, BarrierAt(cs, t, n), h.op = "finish" /\ h.of = t => h.barrier = n
      PROVE  BarrierAt(after, t, n)
  BY <1>3, <1>5 DEF BarrierAt
<1>6. ASSUME NEW sent, Once(cs, sent), <<h.op, h.of>> \notin sent
      PROVE  Once(after, sent \cup {<<h.op, h.of>>})
  <2>1. \A r \in Queue : \A i \in 1 .. Len(after[r]) :
           <<after[r][i].op, after[r][i].of>> \in sent \cup {<<h.op, h.of>>}
    BY <1>3, <1>6 DEF Once
  <2>2. ASSUME NEW r \in Queue, NEW i \in 1 .. Len(cs[r])
        PROVE  cs[r][i].op # h.op \/ cs[r][i].of # h.of
    BY <1>6 DEF Once
  <2>3. Distinct(after)
    <3> SUFFICES ASSUME NEW p \in Queue, NEW r \in Queue,
                        NEW i \in 1 .. Len(after[p]), NEW j \in 1 .. Len(after[r]),
                        after[p][i].op = after[r][j].op, after[p][i].of = after[r][j].of
                 PROVE  p = r /\ i = j
      BY DEF Distinct
    <3>1. CASE i \in 1 .. Len(cs[p]) /\ after[p][i] = cs[p][i]
      <4>1. j \in 1 .. Len(cs[r]) /\ after[r][j] = cs[r][j]
        BY <1>3, <2>2, <3>1
      <4>2. cs[p][i].op = cs[r][j].op /\ cs[p][i].of = cs[r][j].of
        BY <3>1, <4>1
      <4>3. Distinct(cs)
        BY <1>6 DEF Once
      <4> QED BY <3>1, <4>1, <4>2, <4>3, Zenon DEF Distinct
    <3>2. CASE p = q /\ i = Len(cs[q]) + 1 /\ after[p][i] = h
      <4>1. ~(j \in 1 .. Len(cs[r]) /\ after[r][j] = cs[r][j])
        BY <2>2, <3>2
      <4> QED BY <1>3, <3>2, <4>1
    <3> QED BY <1>3, <3>1, <3>2
  <2> QED BY <2>1, <2>3 DEF Once
<1> QED BY <1>4, <1>5, <1>6 DEF Grows

LEMMA EndingsFinite ==
    ASSUME NEW cs, NEW t
    PROVE  IsFiniteSet(Endings(cs, t)) /\ Cardinality(Endings(cs, t)) \in Nat
<1>1. IsFiniteSet({"finish"})
  BY FS_Singleton
<1>2. IsFiniteSet({"finish"} \cup {"abort"})
  BY <1>1, OneMore
<1>3. Endings(cs, t) \subseteq {"finish"} \cup {"abort"}
  BY DEF Endings
<1> QED BY <1>2, <1>3, FS_Subset, FS_CardinalityType

LEMMA EndingsFewer ==
    ASSUME NEW cs, NEW after, NEW t \in Transfer, Subtasks(cs, after)
    PROVE  /\ Endings(after, t) \subseteq Endings(cs, t)
           /\ Cardinality(Endings(after, t)) <= Cardinality(Endings(cs, t))
           /\ Cardinality(Endings(cs, t)) \in Nat /\ Cardinality(Endings(after, t)) \in Nat
<1>1. Endings(after, t) \subseteq Endings(cs, t)
  BY DEF Endings, Subtasks, Ops
<1> QED BY <1>1, EndingsFinite, FS_Subset

(* The fields of an upload that a polite phone's promises are about.       *)
Tally(u) == <<u.received, u.queuedFrames, u.queuedTerminalControls, u.activeOperations>>

LEMMA Tallies ==
    ASSUME NEW u \in UploadType
    PROVE  /\ Tally(NoteFrame(u))
                 = <<u.received, u.queuedFrames + 1, u.queuedTerminalControls, u.activeOperations>>
           /\ Tally(NoteTerminal(u))
                 = <<u.received, u.queuedFrames, u.queuedTerminalControls + 1, u.activeOperations>>
           /\ Tally(CompleteTerminal(u))
                 = <<u.received, u.queuedFrames, Less(u.queuedTerminalControls), u.activeOperations>>
           /\ Tally(EndOperation(u))
                 = <<u.received, u.queuedFrames, u.queuedTerminalControls, Less(u.activeOperations)>>
           /\ Tally(BeginOperation(CompleteFrame(u)))
                 = <<u.received, Less(u.queuedFrames), u.queuedTerminalControls, u.activeOperations + 1>>
           /\ Tally(Flushed(u)) = Tally(u) /\ Tally(Landed(u)) = Tally(u)
           /\ \A f : Tally(Taken(u, f))
                 = <<u.received + f.length, u.queuedFrames, u.queuedTerminalControls, u.activeOperations>>
           /\ \A i, s : Tally([u EXCEPT !.idle = i, !.stream = s]) = Tally(u)
<1>1. ASSUME NEW v, v = [u EXCEPT !.queuedTerminalControls = Less(@)]
             \/ v = [u EXCEPT !.activeOperations = Less(@)]
      PROVE  Tally(Rearmed(v)) = Tally(v)
  BY <1>1 DEF Tally, Rearmed, UploadType
<1>2. Tally(NoteFrame(u))
         = <<u.received, u.queuedFrames + 1, u.queuedTerminalControls, u.activeOperations>>
  BY DEF Tally, NoteFrame, UploadType
<1>3. Tally(NoteTerminal(u))
         = <<u.received, u.queuedFrames, u.queuedTerminalControls + 1, u.activeOperations>>
  BY DEF Tally, NoteTerminal, UploadType
<1>4. Tally(CompleteTerminal(u))
         = <<u.received, u.queuedFrames, Less(u.queuedTerminalControls), u.activeOperations>>
  BY <1>1 DEF Tally, CompleteTerminal, UploadType
<1>5. Tally(EndOperation(u))
         = <<u.received, u.queuedFrames, u.queuedTerminalControls, Less(u.activeOperations)>>
  BY <1>1 DEF Tally, EndOperation, UploadType
<1>6. Tally(BeginOperation(CompleteFrame(u)))
         = <<u.received, Less(u.queuedFrames), u.queuedTerminalControls, u.activeOperations + 1>>
  BY DEF Tally, BeginOperation, CompleteFrame, UploadType
<1>7. Tally(Flushed(u)) = Tally(u) /\ Tally(Landed(u)) = Tally(u)
  BY DEF Tally, Flushed, Landed, UploadType
<1>8. \A f : Tally(Taken(u, f))
         = <<u.received + f.length, u.queuedFrames, u.queuedTerminalControls, u.activeOperations>>
  BY DEF Tally, Taken, UploadType
<1>9. \A i, s : Tally([u EXCEPT !.idle = i, !.stream = s]) = Tally(u)
  BY DEF Tally, UploadType
<1> QED BY <1>2, <1>3, <1>4, <1>5, <1>6, <1>7, <1>8, <1>9

(* A change that an open upload's promises do not notice.                  *)
Mild(u, v) == OpenNow(v) => OpenNow(u) /\ Tally(v) = Tally(u)

LEMMA MildMoves ==
    ASSUME NEW ups, UploadsSound(ups)
    PROVE  /\ \A t \in Transfer : Mild(ups[t], ups[t])
           /\ \A T : \A t \in Transfer : Mild(ups[t], Aborting(ups, T)[t])
           /\ \A s \in Transfer : \A v : ~OpenNow(v) \/ (OpenNow(ups[s]) /\ Tally(v) = Tally(ups[s]))
                 => \A t \in Transfer : Mild(ups[t], [ups EXCEPT ![s] = v][t])
<1>1. ASSUME NEW T, NEW t \in Transfer PROVE Mild(ups[t], Aborting(ups, T)[t])
  <2>1. ~OpenNow(GivenUp(ups[t])) \/ GivenUp(ups[t]) = ups[t]
    <3>1. Sound(t, ups[t])
      BY DEF UploadsSound
    <3> QED BY <3>1, GivingUp DEF Sound
  <2> QED BY <2>1, AbortingIs DEF Mild
<1>2. \A t \in Transfer : Mild(ups[t], ups[t])
  BY DEF Mild
<1>3. ASSUME NEW s \in Transfer, NEW v,
             ~OpenNow(v) \/ (OpenNow(ups[s]) /\ Tally(v) = Tally(ups[s])),
             NEW t \in Transfer
      PROVE  Mild(ups[t], [ups EXCEPT ![s] = v][t])
  BY <1>2, <1>3 DEF Mild, UploadsSound, Uploads
<1> QED BY <1>1, <1>2, <1>3

LEMMA MildOn ==
    ASSUME NEW u, NEW v, NEW w, Mild(u, v), Mild(v, w)
    PROVE  Mild(u, w)
BY DEF Mild

LEMMA MannersMild ==
    ASSUME NEW t \in Transfer, NEW u, NEW v \in UploadType, NEW s, NEW n \in Nat,
           NEW live, NEW lives, lives => live, NEW ph, NEW told, NEW cs, NEW after,
           Manners(t, u, s, n, live, ph, cs), Mild(u, v), Subtasks(cs, after),
           s \in FrameLine,
           told.begun = ph.begun, told.sent = ph.sent, told.next = ph.next, t \notin told.misfit
    PROVE  Manners(t, v, s, n, lives, told, after)
<1>1. t \notin told.begun => Unbegun(t, s, told)
  BY DEF Manners, Unbegun
<1>2. t \in told.begun => <<"begin", t>> \in told.sent /\ ~Has(after, "begin", t)
  BY DEF Manners, Subtasks, Ops
<1>3. ASSUME OpenNow(v) PROVE CountedFrames(v, s) /\ CountedEnds(v, after, t)
  <2>1. CountedFrames(u, s) /\ CountedEnds(u, cs, t) /\ Tally(v) = Tally(u)
    BY <1>3 DEF Manners, Mild
  <2>2. /\ v.queuedFrames = u.queuedFrames /\ v.activeOperations = u.activeOperations
        /\ v.queuedTerminalControls = u.queuedTerminalControls
        /\ v.queuedTerminalControls \in Nat
    BY <2>1 DEF Tally, UploadType
  <2>3. CountedFrames(v, s)
    BY <2>1, <2>2 DEF CountedFrames
  <2>4. CountedEnds(v, after, t)
    BY <2>1, <2>2, EndingsFewer DEF CountedEnds
  <2> QED BY <2>3, <2>4
<1>4. OpenNow(v) /\ lives => Chain(s, v.received, told.next[t])
  BY DEF Manners, Mild, Tally
<1>5. Has(after, "finish", t) => told.next[t] = Size[t] /\ BarrierAt(after, t, n + Len(s))
  <2>1. n + Len(s) \in Nat
    BY DEF FrameLine
  <2> QED BY <2>1 DEF Manners, Subtasks, Ops
<1> QED BY <1>1, <1>2, <1>3, <1>4, <1>5 DEF Manners

-----------------------------------------------------------------------------
(* The frames of one transfer.                                             *)

LEMMA WaitingFacts ==
    ASSUME NEW s \in FrameLine
    PROVE  /\ Waiting(s) \in Nat
           /\ \A h \in FrameType : h.step = "queued" => Waiting(Append(s, h)) = Waiting(s) + 1
           /\ s # << >> =>
                 /\ s[1].step = "queued" => Waiting(s) = Len(s)
                 /\ s[1].step # "queued" => Waiting(s) = Len(s) - 1
                 /\ Waiting(Tail(s)) = Len(s) - 1
                 /\ Tail(s) # << >> => Tail(s)[1].step = "queued"
           /\ Len(s) \in Nat /\ (s # << >> => Len(s) \in Nat \ {0})
<1>1. s \in Seq(FrameType) /\ Len(s) \in Nat /\ (s # << >> => Len(s) \in Nat \ {0})
  BY DEF FrameLine
<1>2. ASSUME NEW h \in FrameType, h.step = "queued"
      PROVE  Waiting(Append(s, h)) = Waiting(s) + 1
  <2> DEFINE r == Append(s, h)
  <2>1. /\ Len(r) = Len(s) + 1 /\ r[Len(s) + 1] = h /\ \A i \in 1 .. Len(s) : r[i] = s[i]
        /\ r \in FrameLine
    BY <1>2, FramePush
  <2> HIDE DEF r
  <2>2. r # << >>
    BY <1>1, <2>1 DEF FrameLine
  <2>3. CASE s = << >>
    BY <1>1, <1>2, <2>1, <2>2, <2>3 DEF Waiting
  <2>4. CASE s # << >>
    <3>1. r[1] = s[1]
      BY <1>1, <2>1, <2>4
    <3> QED BY <1>1, <2>1, <2>2, <2>4, <3>1 DEF Waiting
  <2> QED BY <2>3, <2>4 DEF r
<1>3. ASSUME s # << >>
      PROVE  Waiting(Tail(s)) = Len(s) - 1 /\ (Tail(s) # << >> => Tail(s)[1].step = "queued")
  <2> DEFINE r == Tail(s)
  <2>1. r \in FrameLine /\ Len(r) = Len(s) - 1 /\ \A i \in 1 .. Len(s) - 1 : r[i] = s[i + 1]
    BY <1>3, FramePop
  <2> HIDE DEF r
  <2>2. r \in Seq(FrameType) /\ (r = << >> <=> Len(r) = 0)
    BY <2>1 DEF FrameLine
  <2>3. ASSUME r # << >> PROVE r[1].step = "queued"
    <3>1. 1 \in 1 .. Len(s) - 1 /\ 2 \in 2 .. Len(s)
      BY <1>1, <1>3, <2>1, <2>2, <2>3
    <3>2. r[1] = s[1 + 1]
      BY <2>1, <3>1
    <3> QED BY <3>1, <3>2 DEF FrameLine
  <2>4. Waiting(r) = Len(s) - 1
    BY <2>1, <2>2, <2>3 DEF Waiting
  <2> QED BY <2>3, <2>4 DEF r
<1>4. Waiting(s) \in Nat
  BY <1>1 DEF Waiting
<1> QED BY <1>1, <1>2, <1>3, <1>4 DEF Waiting

LEMMA ChainPush ==
    ASSUME NEW s \in FrameLine, NEW h \in FrameType, h.step = "queued", NEW r, NEW n \in Nat,
           Chain(s, r, n), h.offset = n
    PROVE  Chain(Append(s, h), r, n + h.length)
<1> DEFINE a == Append(s, h)
<1>1. /\ a \in FrameLine /\ Len(a) = Len(s) + 1 /\ a[Len(s) + 1] = h
      /\ \A i \in 1 .. Len(s) : a[i] = s[i]
      /\ Len(s) \in Nat
  BY FramePush, WaitingFacts
<1> HIDE DEF a
<1>2. a # << >>
  BY <1>1 DEF FrameLine
<1>3. a[Len(a)].offset + a[Len(a)].length = n + h.length
  BY <1>1
<1>4. CASE s = << >>
  <2>1. a[1] = h /\ Len(a) = 1
    BY <1>1, <1>4
  <2>2. r = n
    BY <1>4 DEF Chain
  <2> QED BY <1>2, <1>3, <2>1, <2>2 DEF Chain, a
<1>5. CASE s # << >>
  <2>1. a[1] = s[1] /\ Len(s) \in Nat \ {0}
    BY <1>1, <1>5, WaitingFacts
  <2>2. ASSUME NEW i \in 1 .. Len(a) - 1
        PROVE  a[i + 1].offset = a[i].offset + a[i].length
    <3>1. CASE i = Len(s)
      <4>1. a[i] = s[Len(s)] /\ a[i + 1] = h
        BY <1>1, <2>1, <3>1
      <4> QED BY <1>5, <4>1 DEF Chain
    <3>2. CASE i \in 1 .. Len(s) - 1
      <4>1. a[i] = s[i] /\ a[i + 1] = s[i + 1]
        BY <1>1, <2>1, <3>2
      <4> QED BY <1>5, <3>2, <4>1 DEF Chain
    <3> QED BY <1>1, <2>1, <3>1, <3>2
  <2>3. r = IF a[1].step = "last" THEN a[1].offset + a[1].length ELSE a[1].offset
    BY <1>5, <2>1 DEF Chain
  <2> QED BY <1>2, <1>3, <2>2, <2>3 DEF Chain, a
<1> QED BY <1>4, <1>5

LEMMA ChainPop ==
    ASSUME NEW s \in FrameLine, s # << >>, NEW r, NEW n, Chain(s, r, n)
    PROVE  Chain(Tail(s), s[1].offset + s[1].length, n)
<1> DEFINE a == Tail(s)
<1>1. /\ a \in FrameLine /\ Len(a) = Len(s) - 1 /\ \A i \in 1 .. Len(s) - 1 : a[i] = s[i + 1]
      /\ Len(s) \in Nat \ {0} /\ (a # << >> => a[1].step = "queued")
  BY FramePop, WaitingFacts
<1> HIDE DEF a
<1>2. /\ s[Len(s)].offset + s[Len(s)].length = n
      /\ \A i \in 1 .. Len(s) - 1 : s[i + 1].offset = s[i].offset + s[i].length
  BY DEF Chain
<1>3. a = << >> <=> Len(s) = 1
  BY <1>1 DEF FrameLine
<1>4. CASE a = << >>
  BY <1>2, <1>3, <1>4 DEF Chain, a
<1>5. CASE a # << >>
  <2>1. 1 \in 1 .. Len(s) - 1 /\ Len(a) \in 1 .. Len(s) - 1 /\ Len(a) + 1 = Len(s)
    BY <1>1, <1>3, <1>5
  <2>2. a[1] = s[1 + 1] /\ a[Len(a)] = s[Len(s)]
    BY <1>1, <2>1
  <2>3. a[1].offset = s[1].offset + s[1].length
    BY <1>2, <2>1, <2>2
  <2>4. ASSUME NEW i \in 1 .. Len(a) - 1
        PROVE  a[i + 1].offset = a[i].offset + a[i].length
    <3>1. i \in 1 .. Len(s) - 1 /\ i + 1 \in 1 .. Len(s) - 1
      BY <1>1
    <3>2. a[i] = s[i + 1] /\ a[i + 1] = s[(i + 1) + 1]
      BY <1>1, <3>1
    <3> QED BY <1>2, <3>1, <3>2
  <2> QED BY <1>1, <1>2, <1>5, <2>2, <2>3, <2>4 DEF Chain, a
<1> QED BY <1>4, <1>5

LEMMA ChainGo ==
    ASSUME NEW s \in FrameLine, s # << >>, NEW r, NEW n, Chain(s, r, n), NEW step \in FrameStep
    PROVE  Chain([s EXCEPT ![1].step = step],
                 IF step = "last" THEN s[1].offset + s[1].length ELSE s[1].offset, n)
<1> DEFINE a == [s EXCEPT ![1].step = step]
<1>1. /\ a # << >> /\ Len(a) = Len(s) /\ Len(s) \in Nat \ {0}
      /\ a[1].step = step /\ a[1].offset = s[1].offset /\ a[1].length = s[1].length
      /\ \A i \in 2 .. Len(s) : a[i] = s[i]
  BY FrameGoes, WaitingFacts
<1> HIDE DEF a
<1>2. \A i \in 1 .. Len(s) : a[i].offset = s[i].offset /\ a[i].length = s[i].length
  <2> TAKE i \in 1 .. Len(s)
  <2>1. i = 1 \/ i \in 2 .. Len(s)
    OBVIOUS
  <2> QED BY <1>1, <2>1
<1>3. /\ s[Len(s)].offset + s[Len(s)].length = n
      /\ \A i \in 1 .. Len(s) - 1 : s[i + 1].offset = s[i].offset + s[i].length
  BY DEF Chain
<1>4. a[Len(a)].offset + a[Len(a)].length = n
  BY <1>1, <1>2, <1>3
<1>5. ASSUME NEW i \in 1 .. Len(a) - 1
      PROVE  a[i + 1].offset = a[i].offset + a[i].length
  <2>1. i \in 1 .. Len(s) /\ i + 1 \in 1 .. Len(s) /\ i \in 1 .. Len(s) - 1
    BY <1>1
  <2> QED BY <1>2, <1>3, <2>1
<1> QED BY <1>1, <1>4, <1>5 DEF Chain, a

(* The head's share of the counter that queued frames are counted in.      *)
Counted(s) == IF s[1].step = "queued" THEN 1 ELSE 0

LEMMA MannersPop ==
    ASSUME NEW t \in Transfer, NEW u \in UploadType, NEW v \in UploadType,
           NEW s \in FrameLine, s # << >>, NEW n \in Nat, NEW live, NEW ph, NEW cs,
           Manners(t, u, s, n, live, ph, cs),
           OpenNow(v) => /\ OpenNow(u) /\ v.queuedTerminalControls = u.queuedTerminalControls
                         /\ v.queuedFrames >= u.queuedFrames - Counted(s),
           OpenNow(v) /\ live => v.received = s[1].offset + s[1].length
    PROVE  Manners(t, v, Tail(s), n + 1, live, ph, cs)
<1>1. t \in ph.begun /\ t \notin ph.misfit /\ <<"begin", t>> \in ph.sent /\ ~Has(cs, "begin", t)
  BY DEF Manners, Unbegun
<1>2. ASSUME OpenNow(v) PROVE CountedFrames(v, Tail(s)) /\ CountedEnds(v, cs, t)
  <2>1. CountedFrames(u, s) /\ CountedEnds(u, cs, t)
    BY <1>2 DEF Manners
  <2>2. u.queuedFrames \in Nat /\ v.queuedFrames \in Nat
    BY DEF UploadType
  <2>3. Waiting(Tail(s)) = Waiting(s) - Counted(s) /\ Waiting(s) \in Nat
    BY WaitingFacts DEF Counted
  <2>4. v.queuedFrames >= Waiting(Tail(s))
    BY <1>2, <2>1, <2>2, <2>3 DEF CountedFrames, Counted
  <2>5. Tail(s) # << >> => Tail(s)[1].step = "queued"
    BY WaitingFacts
  <2>6. CountedFrames(v, Tail(s))
    BY <2>4, <2>5 DEF CountedFrames
  <2> QED BY <1>2, <2>1, <2>6 DEF CountedEnds
<1>3. OpenNow(v) /\ live => Chain(Tail(s), v.received, ph.next[t])
  BY ChainPop DEF Manners
<1>4. Has(cs, "finish", t) => ph.next[t] = Size[t] /\ BarrierAt(cs, t, n + 1 + Len(Tail(s)))
  <2>1. n + 1 + Len(Tail(s)) = n + Len(s)
    BY FramePop, WaitingFacts
  <2> QED BY <2>1 DEF Manners
<1> QED BY <1>1, <1>2, <1>3, <1>4 DEF Manners

LEMMA MannersGo ==
    ASSUME NEW t \in Transfer, NEW u \in UploadType, NEW v \in UploadType,
           NEW s \in FrameLine, s # << >>, NEW n \in Nat, NEW live, NEW ph, NEW cs,
           NEW step \in FrameStep \ {"queued"}, Manners(t, u, s, n, live, ph, cs),
           OpenNow(v) => /\ OpenNow(u) /\ v.queuedTerminalControls = u.queuedTerminalControls
                         /\ v.queuedFrames >= u.queuedFrames - Counted(s)
                         /\ step # "cleanup" /\ v.activeOperations >= 1,
           OpenNow(v) /\ live =>
              v.received = IF step = "last" THEN s[1].offset + s[1].length ELSE s[1].offset
    PROVE  Manners(t, v, [s EXCEPT ![1].step = step], n, live, ph, cs)
<1> DEFINE a == [s EXCEPT ![1].step = step]
<1>1. t \in ph.begun /\ t \notin ph.misfit /\ <<"begin", t>> \in ph.sent /\ ~Has(cs, "begin", t)
  BY DEF Manners, Unbegun
<1>2. a \in FrameLine /\ a # << >> /\ Len(a) = Len(s) /\ a[1].step = step
  BY FrameGoes
<1>3. OpenNow(v) /\ live => Chain(a, v.received, ph.next[t])
  BY ChainGo DEF Manners
<1> HIDE DEF a
<1>4. ASSUME OpenNow(v) PROVE CountedFrames(v, a) /\ CountedEnds(v, cs, t)
  <2>1. CountedFrames(u, s) /\ CountedEnds(u, cs, t)
    BY <1>4 DEF Manners
  <2>2. u.queuedFrames \in Nat /\ v.queuedFrames \in Nat
    BY DEF UploadType
  <2>3. Waiting(a) = Waiting(s) - Counted(s) /\ Waiting(s) \in Nat
    BY <1>2, WaitingFacts DEF Counted
  <2>4. v.queuedFrames >= Waiting(a)
    BY <1>4, <2>1, <2>2, <2>3 DEF CountedFrames, Counted
  <2>5. CountedFrames(v, a)
    BY <1>2, <1>4, <2>4 DEF CountedFrames
  <2> QED BY <1>4, <2>1, <2>5 DEF CountedEnds
<1>5. Has(cs, "finish", t) => ph.next[t] = Size[t] /\ BarrierAt(cs, t, n + Len(a))
  BY <1>2 DEF Manners
<1> QED BY <1>1, <1>3, <1>4, <1>5 DEF Manners, a

-----------------------------------------------------------------------------
(* Every step keeps what a polite phone may count on.                      *)

LEMMA ManneredFacts ==
    ASSUME Inv, Mannered, NEW t \in Polite
    PROVE  /\ t \in Transfer /\ up[t] \in UploadType /\ frames[t] \in FrameLine /\ done[t] \in Nat
           /\ Manners(t, up[t], frames[t], done[t], ~Disposed, phone, ctl)
           /\ Sound(t, up[t])
BY UploadAssumption DEF Inv, Mannered, UploadsSound, Uploads, FrameLines, Typed

(* The steps that neither end a task of the phone nor touch a frame.       *)
LEMMA MildKeeps ==
    ASSUME Inv, Inv', Mannered, \A t \in Transfer : Mild(up[t], up'[t]),
           Subtasks(ctl, ctl'), Once(ctl', phone.sent), UNCHANGED <<frames, done>>,
           phone'.begun = phone.begun, phone'.sent = phone.sent, phone'.next = phone.next,
           phone'.misfit \cap Polite \subseteq phone.misfit, Disposed => Disposed'
    PROVE  Mannered'
<1>1. ASSUME NEW t \in Polite
      PROVE  Manners(t, up'[t], frames[t], done[t], ~Disposed', phone', ctl')
  <2>1. /\ t \in Transfer /\ frames[t] \in FrameLine /\ done[t] \in Nat
        /\ Manners(t, up[t], frames[t], done[t], ~Disposed, phone, ctl)
    BY ManneredFacts
  <2>2. up'[t] \in UploadType
    BY <2>1 DEF Inv, UploadsSound, Uploads
  <2>3. t \notin phone'.misfit
    BY <2>1 DEF Manners
  <2>4. ~Disposed' => ~Disposed
    OBVIOUS
  <2> QED BY <2>1, <2>2, <2>3, <2>4, MannersMild
<1> QED BY <1>1 DEF Mannered

LEMMA TasksStay ==
    ASSUME Inv, Mannered, NEW q \in Queue, ctl[q] # << >>,
           NEW h \in GoodTask, h.op = ctl[q][1].op, h.of = ctl[q][1].of,
           h.barrier = ctl[q][1].barrier, ctl' = [ctl EXCEPT ![q] = [ctl[q] EXCEPT ![1] = h]]
    PROVE  Subtasks(ctl, ctl') /\ Once(ctl', phone.sent)
<1> DEFINE s == [ctl[q] EXCEPT ![1] = h]
<1>1. ctl \in Lines /\ ctl[q] \in Line
  BY DEF Inv, Lines
<1>2. Len(s) = Len(ctl[q]) /\ s[1] = h /\ \A i \in 2 .. Len(ctl[q]) : s[i] = ctl[q][i]
  BY <1>1, LineHeads
<1> HIDE DEF s
<1>3. ctl'[q] = s /\ \A p \in Queue \ {q} : ctl'[p] = ctl[p]
  BY <1>1 DEF Lines, s
<1>4. \A i \in 1 .. Len(ctl[q]) : i = 1 \/ i \in 2 .. Len(ctl[q])
  OBVIOUS
<1>5. \A p \in Queue : SameTasks(ctl[p], ctl'[p])
  BY <1>2, <1>3, <1>4 DEF SameTasks
<1>6. Once(ctl, phone.sent)
  BY DEF Mannered
<1> QED BY <1>5, <1>6, SameHas

LEMMA ToStays ==
    ASSUME Inv, Mannered, NEW q \in Queue, ctl[q] # << >>, NEW step,
           To(q, step), Inv'
    PROVE  Subtasks(ctl, ctl') /\ Once(ctl', phone.sent)
<1> DEFINE h == [ctl[q][1] EXCEPT !.step = step]
           s == [ctl[q] EXCEPT ![1] = h]
<1>1. ctl \in Lines /\ ctl[q] \in Line /\ ctl[q][1] \in GoodTask /\ ctl' \in Lines
  BY Heads DEF Inv, Lines, Head1
<1>2. h.op = ctl[q][1].op /\ h.of = ctl[q][1].of /\ h.barrier = ctl[q][1].barrier
  BY <1>1 DEF GoodTask, TaskType
<1>3. ctl' = [ctl EXCEPT ![q] = s]
  BY DEF To
<1>4. h \in GoodTask
  <2>1. ctl'[q] = s /\ s # << >> /\ s[1] = h
    <3>1. ctl'[q] = s
      BY <1>1, <1>3 DEF Lines
    <3>2. ctl[q] \in Seq(GoodTask) /\ Len(ctl[q]) \in Nat \ {0}
      BY <1>1, LineHead
    <3>3. s # << >> /\ s[1] = h
      BY <3>2
    <3> QED BY <3>1, <3>3
  <2>2. ctl'[q] \in Line
    BY <1>1 DEF Lines
  <2> QED BY <2>1, <2>2, LineHead
<1> HIDE DEF h
<1> QED BY <1>2, <1>3, <1>4, TasksStay

(* A step that only moves the head of a queue on.                          *)
LEMMA MildTo ==
    ASSUME Inv, Inv', Mannered, NEW q \in Queue, ctl[q] # << >>, NEW step, To(q, step),
           \A t \in Transfer : Mild(up[t], up'[t]), UNCHANGED <<frames, done, node, phone>>
    PROVE  Mannered'
<1>1. Subtasks(ctl, ctl') /\ Once(ctl', phone.sent)
  BY ToStays
<1>2. Disposed => Disposed'
  BY DEF Disposed
<1>3. phone'.misfit \cap Polite \subseteq phone.misfit
  OBVIOUS
<1> QED BY <1>1, <1>2, <1>3, MildKeeps

LEMMA MildReturn ==
    ASSUME Inv, NEW q \in Queue, NEW ups, UploadsSound(ups),
           \A t \in Transfer : Mild(up[t], ups[t]), Return(q, ups)
    PROVE  /\ \A t \in Transfer : Mild(up[t], up'[t])
           /\ \E step : To(q, step)
<1>1. CASE up' = Aborting(ups, Transfer) /\ To(q, "sweep")
  <2>1. \A t \in Transfer : Mild(ups[t], Aborting(ups, Transfer)[t])
    BY MildMoves
  <2> QED BY <1>1, <2>1, MildOn
<1>2. CASE up' = ups /\ To(q, "respond")
  BY <1>2
<1> QED BY <1>1, <1>2 DEF Return

LEMMA MildSame ==
    ASSUME Inv
    PROVE  /\ UNCHANGED up => \A t \in Transfer : Mild(up[t], up'[t])
           /\ \A T : up' = Aborting(up, T) => \A t \in Transfer : Mild(up[t], up'[t])
BY MildMoves DEF Inv

(* The steps of the control queues that only lead on.                      *)
LEMMA MannersOn ==
    ASSUME Inv, Inv', Mannered, NEW q \in Queue,
           \/ AwaitFrames(q) \/ BeginUpload(q) \/ CreateFile(q) \/ UndoCreate(q) \/ Remove(q)
           \/ AbortRequest(q) \/ CleanupAwaited(q) \/ Find(q) \/ RemoveSettles(q)
    PROVE  Mannered'
<1>1. ctl[q] # << >> /\ UNCHANGED <<frames, done, node, phone>>
  BY DEF AwaitFrames, BeginUpload, CreateFile, UndoCreate, Remove, AbortRequest, CleanupAwaited,
         Find, RemoveSettles, At, Ready
<1>2. UploadsSound(up) /\ \A t \in Transfer : Mild(up[t], up[t])
  BY MildMoves DEF Inv
<1>3. /\ \A t \in Transfer : Mild(up[t], up'[t])
      /\ \E step : To(q, step)
  <2>1. CASE UNCHANGED up /\ \E step : To(q, step)
    BY <2>1, MildSame
  <2>2. CASE Return(q, up)
    BY <1>2, <2>2, MildReturn
  <2>3. CASE up' = Aborting(up, {Head1(q).of}) /\ To(q, "cleanup")
    BY <2>3, MildSame
  <2>4. \/ UNCHANGED up /\ \E step : To(q, step)
        \/ Return(q, up)
        \/ up' = Aborting(up, {Head1(q).of}) /\ To(q, "cleanup")
    BY DEF AwaitFrames, BeginUpload, CreateFile, UndoCreate, Remove, AbortRequest, CleanupAwaited,
           Find, RemoveSettles
  <2> QED BY <2>1, <2>2, <2>3, <2>4
<1> QED BY <1>1, <1>3, MildTo

LEMMA MannersLookUp ==
    ASSUME Inv, Inv', Mannered, NEW q \in Queue, LookUp(q)
    PROVE  Mannered'
<1>1. ctl[q] # << >> /\ Head1(q).step = "lookup" /\ UNCHANGED <<up, frames, done, node, phone>>
  BY DEF LookUp, At
<1>2. \A t \in Transfer : Mild(up[t], up'[t])
  BY <1>1, MildSame
<1>3. CASE To(q, "fail")
  BY <1>1, <1>2, <1>3, MildTo
<1>4. ASSUME NEW fresh \in BOOLEAN,
             ctl' = [ctl EXCEPT ![q][1].step = "create", ![q][1].fresh = fresh]
      PROVE  Mannered'
  <2> DEFINE h == [ctl[q][1] EXCEPT !.step = "create", !.fresh = fresh]
             s == [ctl[q] EXCEPT ![1] = h]
  <2>1. ctl[q] \in Line /\ ctl[q][1] \in GoodTask /\ ctl[q][1].op = "begin"
    BY <1>1, Heads DEF Inv, Lines, Reserving, Head1
  <2>2. h \in GoodTask
    BY <2>1, TaskGoes DEF Step
  <2>3. h.op = ctl[q][1].op /\ h.of = ctl[q][1].of /\ h.barrier = ctl[q][1].barrier
    BY <2>1 DEF GoodTask, TaskType
  <2>4. ctl' = [ctl EXCEPT ![q] = s]
    <3>1. ctl[q] \in Seq(GoodTask) /\ ctl \in Lines
      BY <2>1 DEF Line, Inv
    <3> QED BY <1>1, <1>4, <2>1, <3>1 DEF Lines
  <2> HIDE DEF h
  <2>5. Subtasks(ctl, ctl') /\ Once(ctl', phone.sent)
    BY <1>1, <2>2, <2>3, <2>4, TasksStay
  <2>6. Disposed => Disposed'
    BY <1>1 DEF Disposed
  <2> QED BY <1>1, <1>2, <2>5, <2>6, MildKeeps
<1> QED BY <1>3, <1>4 DEF LookUp

(* Finish finds every byte that the phone sent before it.                  *)
LEMMA FinishFinds ==
    ASSUME Inv, Mannered, NEW q \in Queue, Ready(q, "finish"), Head1(q).of \in Polite,
           Open(Head1(q).of), ~Disposed
    PROVE  up[Head1(q).of].received = Size[Head1(q).of]
<1> DEFINE t == Head1(q).of
           h == ctl[q][1]
<1>1. /\ ctl[q] # << >> /\ h = Head1(q) /\ h.op = "finish" /\ h.of = t /\ ~Behind(h)
      /\ 1 \in 1 .. Len(ctl[q])
  <2>1. ctl[q] # << >> /\ Head1(q).op = "finish" /\ ~Behind(Head1(q))
    BY DEF Ready
  <2>2. ctl[q] \in Line
    BY DEF Inv, Lines
  <2> QED BY <2>1, <2>2, LineHead DEF Head1
<1>2. /\ t \in Transfer /\ frames[t] \in FrameLine /\ done[t] \in Nat
      /\ Manners(t, up[t], frames[t], done[t], ~Disposed, phone, ctl)
  BY ManneredFacts
<1>3. Has(ctl, "finish", t)
  BY <1>1 DEF Has
<1>4. phone.next[t] = Size[t] /\ h.barrier = done[t] + Len(frames[t])
  BY <1>1, <1>2, <1>3 DEF Manners, BarrierAt
<1>5. Len(frames[t]) = 0
  <2>1. Len(frames[t]) \in Nat
    BY <1>2, WaitingFacts
  <2> QED BY <1>1, <1>2, <1>4, <2>1 DEF Behind
<1>6. frames[t] = << >>
  BY <1>2, <1>5, WaitingFacts
<1>7. Chain(frames[t], up[t].received, phone.next[t])
  BY <1>2 DEF Manners, Open, OpenNow
<1> QED BY <1>4, <1>6, <1>7 DEF Chain

LEMMA MannersFinish ==
    ASSUME Inv, Inv', Mannered, NEW q \in Queue, FinishUpload(q)
    PROVE  Mannered'
<1> DEFINE t == Head1(q).of
           v == [Flushed(up[t]) EXCEPT !.idle = FALSE, !.stream = "closing"]
<1>1. /\ ctl[q] # << >> /\ Head1(q).op = "finish" /\ t \in Transfer
      /\ UNCHANGED <<frames, done, file, node>> /\ Ready(q, "finish")
  BY Readily DEF FinishUpload
<1>2. \A s \in Transfer : Mild(up[s], up'[s])
  <2>1. CASE UNCHANGED up
    BY <2>1, MildSame
  <2>2. CASE up' = Aborting(up, {t})
    BY <2>2, MildSame
  <2>3. CASE Open(t) /\ up' = [up EXCEPT ![t] = v]
    <3>0. UploadsSound(up) /\ Sound(t, up[t])
      BY <1>1 DEF Inv, UploadsSound
    <3>4. Follows(t, up[t], Flushed(up[t]))
      BY <1>1, <3>0, Flushing
    <3>1. up[t] \in UploadType /\ Flushed(up[t]) \in UploadType /\ UploadsSound(up)
      <4>1. up[t] \in UploadType
        BY <3>0 DEF Sound, Shaped
      <4>2. Flushed(up[t]) \in UploadType
        BY ONLY <3>4 DEF Follows, Sound, Shaped
      <4> QED BY <3>0, <4>1, <4>2
    <3>2. Tally(v) = Tally(up[t])
      <4> DEFINE w == Flushed(up[t])
      <4>1. Tally(w) = Tally(up[t]) /\ w \in UploadType
        BY <3>1, Tallies
      <4> HIDE DEF w
      <4>2. Tally([w EXCEPT !.idle = FALSE, !.stream = "closing"]) = Tally(w)
        BY ONLY <4>1 DEF Tally, UploadType
      <4> QED BY <4>1, <4>2 DEF w
    <3>3. OpenNow(up[t])
      BY <2>3 DEF Open, OpenNow
    <3> HIDE DEF v
    <3> QED BY <1>1, <2>3, <3>1, <3>2, <3>3, MildMoves
  <2> QED BY <2>1, <2>2, <2>3 DEF FinishUpload
<1>3. \E step : To(q, step)
  BY DEF FinishUpload
<1>4. Subtasks(ctl, ctl') /\ Once(ctl', phone.sent)
  BY <1>1, <1>3, ToStays
<1>5. Disposed => Disposed'
  BY <1>1 DEF Disposed
<1>6. /\ phone'.begun = phone.begun /\ phone'.sent = phone.sent /\ phone'.next = phone.next
      /\ phone'.misfit \cap Polite \subseteq phone.misfit
  <2>1. phone \in PhoneType
    BY DEF Inv, Typed
  <2>2. CASE UNCHANGED phone
    BY <2>2
  <2>3. CASE /\ Open(t) /\ up[t].received # Size[t]
             /\ phone' = [phone EXCEPT !.misfit = IF Disposed THEN @ ELSE @ \cup {t}]
    <3>1. Disposed \/ t \notin Polite
      BY <1>1, <2>3, FinishFinds
    <3> QED BY <2>1, <2>3, <3>1 DEF PhoneType
  <2> QED BY <2>2, <2>3 DEF FinishUpload
<1> QED BY <1>1, <1>2, <1>4, <1>5, <1>6, MildKeeps

LEMMA MannersClose ==
    ASSUME Inv, Inv', Mannered, NEW q \in Queue, CloseSettles(q)
    PROVE  Mannered'
<1> DEFINE t == Head1(q).of
           v == [Landed(up[t]) EXCEPT !.stream = "closed", !.present = FALSE]
<1>1. /\ ctl[q] # << >> /\ Head1(q).op = "finish" /\ t \in Transfer
      /\ UNCHANGED <<frames, done, node, phone>>
  BY Heads DEF CloseSettles, At
<1>2. UploadsSound(up) /\ Sound(t, up[t])
  BY <1>1 DEF Inv, UploadsSound
<1>3. CASE up[t].stream = "closing" /\ Return(q, [up EXCEPT ![t] = v])
  <2>1. Follows(t, up[t], v)
    BY <1>1, <1>2, <1>3, Committing
  <2>2. ~OpenNow(v)
    <3>0. Shaped(t, up[t]) /\ up[t].stream # "closed"
      BY <1>2, <1>3 DEF Sound
    <3>2. Shaped(t, Landed(up[t]))
      BY <1>1, <3>0, Landing
    <3>1. Landed(up[t]) \in UploadType
      BY <3>2 DEF Shaped
    <3> QED BY <3>1 DEF OpenNow, UploadType
  <2> HIDE DEF v
  <2>3. UploadsSound([up EXCEPT ![t] = v]) /\ \A s \in Transfer : Mild(up[s], [up EXCEPT ![t] = v][s])
    BY <1>1, <1>2, <2>1, <2>2, OneChanges, MildMoves DEF UploadsFollow
  <2> QED BY <1>1, <1>3, <2>3, MildReturn, MildTo
<1>4. CASE up' = Aborting([up EXCEPT ![t] = Lost(@)], {t}) /\ To(q, "cleanup")
  <2>1. Shaped(t, Lost(up[t])) /\ Lost(up[t]).present = up[t].present
        /\ Lost(up[t]).cleanup = up[t].cleanup
    BY <1>1, <1>2, Losing DEF Sound
  <2>2. \A s \in Transfer : Mild(up[s], up'[s])
    <3> DEFINE w == Lost(up[t])
               mid == [up EXCEPT ![t] = w]
    <3>1. mid[t] = w /\ \A s \in Transfer \ {t} : mid[s] = up[s]
      BY <1>1, <1>2 DEF UploadsSound, Uploads
    <3> HIDE DEF mid, w
    <3>2. up' = Aborting(mid, {t})
      BY <1>4 DEF mid, w
    <3>3. ~OpenNow(up'[t])
      <4>1. up'[t] = GivenUp(w)
        BY <1>1, <3>1, <3>2, AbortingIs
      <4>2. Shaped(t, w)
        BY <2>1 DEF w
      <4> QED BY <1>1, <4>1, <4>2, GivingUp
    <3>4. \A s \in Transfer \ {t} : up'[s] = up[s]
      BY <3>1, <3>2, AbortingIs
    <3> QED BY <3>3, <3>4 DEF Mild
  <2> QED BY <1>1, <1>4, <2>2, MildTo
<1> QED BY <1>3, <1>4 DEF CloseSettles

LEMMA PopStays ==
    ASSUME Inv, Mannered, NEW q \in Queue, ctl[q] # << >>, ctl' = [ctl EXCEPT ![q] = Tail(@)]
    PROVE  /\ Subtasks(ctl, ctl') /\ Once(ctl', phone.sent)
           /\ ~Has(ctl', Head1(q).op, Head1(q).of)
           /\ <<Head1(q).op, Head1(q).of>> \in phone.sent
           /\ Has(ctl, Head1(q).op, Head1(q).of)
<1>1. ctl \in Lines /\ Once(ctl, phone.sent) /\ ctl[q] \in Line
  BY DEF Inv, Mannered, Lines
<1>2. 1 \in 1 .. Len(ctl[q])
  BY <1>1, LineHead
<1>3. <<ctl[q][1].op, ctl[q][1].of>> \in phone.sent
  BY <1>1, <1>2 DEF Once
<1>4. Has(ctl, ctl[q][1].op, ctl[q][1].of)
  BY <1>2 DEF Has
<1>5. Subtasks(ctl, ctl') /\ Once(ctl', phone.sent) /\ ~Has(ctl', ctl[q][1].op, ctl[q][1].of)
  BY <1>1, PopHas
<1> QED BY <1>3, <1>4, <1>5 DEF Head1

LEMMA MannersSkip ==
    ASSUME Inv, Inv', Mannered, NEW q \in Queue, SkipTask(q)
    PROVE  Mannered'
<1>1. /\ ctl[q] # << >> /\ ctl' = [ctl EXCEPT ![q] = Tail(@)]
      /\ UNCHANGED <<up, frames, done, node, phone>>
  BY DEF SkipTask, At
<1>2. Subtasks(ctl, ctl') /\ Once(ctl', phone.sent)
  BY <1>1, PopStays
<1>3. \A t \in Transfer : Mild(up[t], up'[t])
  BY <1>1, MildSame
<1>4. Disposed => Disposed'
  BY <1>1 DEF Disposed
<1> QED BY <1>1, <1>2, <1>3, <1>4, MildKeeps

(* The end of a finish or an abort, of which there is one for a transfer.  *)
LEMMA MannersEnd ==
    ASSUME NEW t \in Transfer, NEW u \in UploadType, u.idle => Quiet(u), NEW s \in FrameLine,
           NEW n \in Nat, NEW live, NEW ph, NEW cs, NEW after, NEW op \in {"finish", "abort"},
           Manners(t, u, s, n, live, ph, cs), Subtasks(cs, after), ~Has(after, op, t),
           Has(cs, op, t)
    PROVE  Manners(t, CompleteTerminal(u), s, n, live, ph, after)
<1> DEFINE v == CompleteTerminal(u)
<1>1. /\ v \in UploadType /\ (OpenNow(v) <=> OpenNow(u))
      /\ v.received = u.received /\ v.queuedFrames = u.queuedFrames
      /\ v.activeOperations = u.activeOperations
      /\ v.queuedTerminalControls = Less(u.queuedTerminalControls)
  BY Counting, Tallies DEF Counts, OpenNow, Tally
<1> HIDE DEF v
<1>2. ASSUME OpenNow(v) PROVE CountedFrames(v, s) /\ CountedEnds(v, after, t)
  <2>1. CountedFrames(u, s) /\ CountedEnds(u, cs, t)
    BY <1>1, <1>2 DEF Manners
  <2>2. CountedFrames(v, s)
    BY <1>1, <2>1 DEF CountedFrames
  <2>3. Cardinality(Endings(after, t)) <= Cardinality(Endings(cs, t)) - 1
    <3>1. Endings(after, t) \subseteq Endings(cs, t) \ {op} /\ op \in Endings(cs, t)
      BY EndingsFewer DEF Endings
    <3>2. IsFiniteSet(Endings(cs, t))
      BY EndingsFinite
    <3>3. IsFiniteSet(Endings(cs, t) \ {op})
          /\ Cardinality(Endings(cs, t) \ {op}) = Cardinality(Endings(cs, t)) - 1
      BY <3>1, <3>2, FS_RemoveElement
    <3> QED BY <3>1, <3>3, FS_Subset
  <2>4. /\ Cardinality(Endings(after, t)) \in Nat /\ Cardinality(Endings(cs, t)) \in Nat
        /\ u.queuedTerminalControls \in Nat
    BY EndingsFewer DEF UploadType
  <2>5. CountedEnds(v, after, t)
    BY <1>1, <2>1, <2>3, <2>4, LessFacts DEF CountedEnds
  <2> QED BY <2>2, <2>5
<1>3. OpenNow(v) /\ live => Chain(s, v.received, ph.next[t])
  BY <1>1 DEF Manners
<1>4. Has(after, "finish", t) => ph.next[t] = Size[t] /\ BarrierAt(after, t, n + Len(s))
  <2>1. n + Len(s) \in Nat
    BY DEF FrameLine
  <2> QED BY <2>1 DEF Manners, Subtasks, Ops
<1>5. t \in ph.begun => <<"begin", t>> \in ph.sent /\ ~Has(after, "begin", t)
  BY DEF Manners, Subtasks, Ops
<1> QED BY <1>2, <1>3, <1>4, <1>5 DEF Manners, v

LEMMA MannersBegun ==
    ASSUME NEW t, NEW u, NEW s, NEW n, NEW live, NEW ph, NEW told, NEW cs,
           Manners(t, u, s, n, live, ph, cs),
           told.sent = ph.sent, told.next = ph.next, told.misfit = ph.misfit,
           ph.begun \subseteq told.begun,
           t \in told.begun => t \in ph.begun \/ (<<"begin", t>> \in ph.sent /\ ~Has(cs, "begin", t))
    PROVE  Manners(t, u, s, n, live, told, cs)
BY DEF Manners, Unbegun

LEMMA MannersEndTask ==
    ASSUME Inv, Inv', Mannered, NEW q \in Queue, ctl[q] # << >>, EndTask(q),
           UNCHANGED <<frames, done, node>>,
           phone'.sent = phone.sent, phone'.next = phone.next, phone'.misfit = phone.misfit,
           phone.begun \subseteq phone'.begun,
           \A t \in phone'.begun \ phone.begun : Head1(q).op = "begin" /\ t = Head1(q).of
    PROVE  Mannered'
<1> DEFINE h == Head1(q)
<1>1. ctl' = [ctl EXCEPT ![q] = Tail(@)]
  BY DEF EndTask
<1>2. /\ Subtasks(ctl, ctl') /\ Once(ctl', phone.sent) /\ ~Has(ctl', h.op, h.of)
      /\ <<h.op, h.of>> \in phone.sent /\ Has(ctl, h.op, h.of)
  BY <1>1, PopStays
<1>3. (Disposed' <=> Disposed)
  BY DEF Disposed
<1>4. ASSUME NEW t \in Polite
      PROVE  Manners(t, up'[t], frames'[t], done'[t], ~Disposed', phone', ctl')
  <2>1. /\ t \in Transfer /\ up[t] \in UploadType /\ frames[t] \in FrameLine /\ done[t] \in Nat
        /\ Manners(t, up[t], frames[t], done[t], ~Disposed, phone, ctl)
        /\ (up[t].idle => Quiet(up[t]))
    BY ManneredFacts DEF Sound, Shaped
  <2>2. Manners(t, up'[t], frames[t], done[t], ~Disposed, phone, ctl')
    <3>1. CASE h.op \in {"finish", "abort"} /\ h.of = t /\ Open(t)
      <4>1. up'[t] = CompleteTerminal(up[t])
        BY <2>1, <3>1 DEF EndTask, Noted, Inv, UploadsSound, Uploads
      <4> QED BY <1>2, <2>1, <3>1, <4>1, MannersEnd
    <3>2. CASE ~(h.op \in {"finish", "abort"} /\ h.of = t /\ Open(t))
      <4>1. up'[t] = up[t]
        BY <2>1, <3>2 DEF EndTask, Noted, Inv, UploadsSound, Uploads
      <4>2. Mild(up[t], up[t])
        BY DEF Mild
      <4>3. t \notin phone.misfit
        BY <2>1 DEF Manners
      <4> QED BY <1>2, <2>1, <4>1, <4>2, <4>3, MannersMild
    <3> QED BY <3>1, <3>2
  <2>3. t \in phone'.begun => t \in phone.begun \/ (<<"begin", t>> \in phone.sent /\ ~Has(ctl', "begin", t))
    BY <1>2
  <2>4. phone.begun \subseteq phone'.begun
    OBVIOUS
  <2>5. Manners(t, up'[t], frames[t], done[t], ~Disposed, phone', ctl')
    BY <2>2, <2>3, <2>4, MannersBegun
  <2> QED BY <1>3, <2>5
<1> QED BY <1>2, <1>4 DEF Mannered

LEMMA MannersRespond ==
    ASSUME Inv, Inv', Mannered, NEW q \in Queue, Respond(q) \/ Fail(q) \/ Swept(q)
    PROVE  Mannered'
<1>1. ctl[q] # << >> /\ UNCHANGED <<frames, done, node>>
  BY DEF Respond, Fail, Swept, At
<1>2. phone \in PhoneType
  BY DEF Inv, Typed
<1>3. CASE EndTask(q) /\ UNCHANGED phone
  BY <1>1, <1>3, MannersEndTask
<1>4. CASE /\ EndTask(q)
           /\ phone' = [phone EXCEPT
                 !.begun    = IF Head1(q).op = "begin" THEN @ \cup {Head1(q).of} ELSE @,
                 !.finished = IF Head1(q).op = "finish" THEN @ \cup {Head1(q).of} ELSE @]
  <2>1. /\ phone'.sent = phone.sent /\ phone'.next = phone.next /\ phone'.misfit = phone.misfit
        /\ phone.begun \subseteq phone'.begun
        /\ \A t \in phone'.begun \ phone.begun : Head1(q).op = "begin" /\ t = Head1(q).of
    BY <1>2, <1>4 DEF PhoneType
  <2> QED BY <1>1, <1>4, <2>1, MannersEndTask
<1>5. CASE up' = Aborting(up, {Head1(q).of}) /\ To(q, "cleanup") /\ UNCHANGED phone
  BY <1>1, <1>5, MildSame, MildTo
<1> QED BY <1>3, <1>4, <1>5 DEF Respond, Fail, Swept

(* An upload that begins: its transfer has neither frames nor endings.     *)
LEMMA MannersNew ==
    ASSUME NEW t \in Transfer, NEW u, NEW v \in UploadType, NEW s, NEW n, NEW live, NEW ph,
           NEW cs, NEW after, Manners(t, u, s, n, live, ph, cs), Subtasks(cs, after),
           Once(cs, ph.sent), Has(cs, "begin", t), OpenNow(v) => v.received = 0
    PROVE  Manners(t, v, s, n, live, ph, after)
<1>1. t \notin ph.begun /\ Unbegun(t, s, ph)
  BY DEF Manners
<1>2. \A op \in {"finish", "abort"} : ~Has(cs, op, t)
  BY <1>1 DEF Unbegun, Once, Has
<1>3. \A op \in {"finish", "abort"} : ~Has(after, op, t)
  BY <1>2 DEF Subtasks, Ops
<1>4. CountedEnds(v, after, t)
  <2>1. Endings(after, t) = {}
    BY <1>3 DEF Endings
  <2> QED BY <2>1, FS_EmptySet DEF CountedEnds, UploadType
<1>5. CountedFrames(v, s)
  BY <1>1 DEF CountedFrames, Unbegun, Waiting, UploadType
<1>6. OpenNow(v) => Chain(s, v.received, ph.next[t])
  BY <1>1 DEF Chain, Unbegun
<1>7. t \notin ph.misfit
  BY DEF Manners
<1> QED BY <1>1, <1>3, <1>4, <1>5, <1>6, <1>7 DEF Manners

LEMMA MannersInstall ==
    ASSUME Inv, Inv', Mannered, NEW q \in Queue, CreateWritable(q)
    PROVE  Mannered'
<1> DEFINE h == Head1(q)
           t == h.of
           ups == [up EXCEPT ![t] = Installed(h.fresh)]
<1>1. /\ ctl[q] # << >> /\ h.op = "begin" /\ t \in Transfer /\ h.fresh \in BOOLEAN
      /\ UNCHANGED <<frames, done, node, phone>>
  BY Heads DEF CreateWritable, At, Reserving
<1>2. CASE To(q, IF h.fresh THEN "undo" ELSE "fail") /\ UNCHANGED up
  BY <1>1, <1>2, MildSame, MildTo
<1>3. CASE Return(q, ups)
  <2>1. /\ UploadsSound(ups) /\ ups[t] = Installed(h.fresh)
        /\ \A s \in Transfer \ {t} : ups[s] = up[s]
    <3>1. Sound(t, Installed(h.fresh)) /\ Installed(h.fresh) \in UploadType
      BY <1>1, Installing DEF Sound, Shaped
    <3> QED BY <1>1, <3>1 DEF Inv, UploadsSound, Uploads
  <2>2. Installed(h.fresh).received = 0
    BY DEF Installed, Absent
  <2>3. Has(ctl, "begin", t)
    <3>1. ctl[q] \in Line
      BY DEF Inv, Lines
    <3>2. 1 \in 1 .. Len(ctl[q])
      BY <1>1, <3>1, LineHead
    <3> QED BY <1>1, <3>2 DEF Has, Head1
  <2> HIDE DEF ups, t
  <2>4. \A s \in Transfer : Mild(ups[s], up'[s])
    BY <1>3, <2>1, MildMoves DEF Return
  <2>5. \E step : To(q, step)
    BY <1>3 DEF Return
  <2>6. Subtasks(ctl, ctl') /\ Once(ctl', phone.sent)
    BY <1>1, <2>5, ToStays
  <2>7. Disposed' <=> Disposed
    BY <1>1 DEF Disposed
  <2>8. ASSUME NEW s \in Polite
        PROVE  Manners(s, up'[s], frames[s], done[s], ~Disposed, phone, ctl')
    <3>1. /\ s \in Transfer /\ frames[s] \in FrameLine /\ done[s] \in Nat
          /\ Manners(s, up[s], frames[s], done[s], ~Disposed, phone, ctl)
      BY ManneredFacts
    <3>2. up'[s] \in UploadType
      BY <3>1 DEF Inv, UploadsSound, Uploads
    <3>3. CASE s = t
      <4>1. OpenNow(up'[s]) => up'[s].received = 0
        BY <2>1, <2>2, <2>4, <3>1, <3>3 DEF Mild, Tally
      <4>2. Once(ctl, phone.sent)
        BY DEF Mannered
      <4>3. Has(ctl, "begin", s)
        BY <2>3, <3>3
      <4> QED BY <2>6, <3>1, <3>2, <4>1, <4>2, <4>3, MannersNew
    <3>4. CASE s # t
      <4>1. Mild(up[s], up'[s]) /\ s \notin phone.misfit
        BY <2>1, <2>4, <3>1, <3>4 DEF Manners
      <4> QED BY <2>6, <3>1, <3>2, <4>1, MannersMild
    <3> QED BY <3>3, <3>4
  <2> QED BY <1>1, <2>6, <2>7, <2>8 DEF Mannered
<1> QED BY <1>2, <1>3 DEF CreateWritable

LEMMA EndingsMore ==
    ASSUME NEW cs, NEW after, NEW op, NEW x, NEW b, Grows(cs, after, op, x, b),
           NEW t \in Transfer
    PROVE  /\ Cardinality(Endings(cs, t)) \in Nat /\ Cardinality(Endings(after, t)) \in Nat
           /\ Cardinality(Endings(after, t))
                 <= Cardinality(Endings(cs, t)) + (IF op \in {"finish", "abort"} /\ x = t THEN 1 ELSE 0)
<1>1. IsFiniteSet(Endings(cs, t))
  BY EndingsFinite
<1>2. CASE op \in {"finish", "abort"} /\ x = t
  <2>1. Endings(after, t) \subseteq Endings(cs, t) \cup {op}
    BY <1>2 DEF Endings, Grows
  <2>2. /\ IsFiniteSet(Endings(cs, t) \cup {op})
        /\ Cardinality(Endings(cs, t) \cup {op}) <= Cardinality(Endings(cs, t)) + 1
    BY <1>1, OneMore
  <2>3. IsFiniteSet(Endings(after, t))
        /\ Cardinality(Endings(after, t)) <= Cardinality(Endings(cs, t) \cup {op})
    BY <2>1, <2>2, FS_Subset
  <2> QED BY <1>1, <1>2, <2>2, <2>3, FS_CardinalityType
<1>3. CASE ~(op \in {"finish", "abort"} /\ x = t)
  <2>1. Endings(after, t) \subseteq Endings(cs, t)
    BY <1>3 DEF Endings, Grows
  <2> QED BY <1>1, <1>3, <2>1, FS_Subset, FS_CardinalityType
<1> QED BY <1>2, <1>3

LEMMA MannersAsked ==
    ASSUME NEW t \in Transfer, NEW u \in UploadType, NEW v \in UploadType, NEW s \in FrameLine,
           NEW n \in Nat, NEW live, NEW ph, NEW told, NEW cs, NEW after,
           NEW op, NEW x, NEW b, Grows(cs, after, op, x, b), Manners(t, u, s, n, live, ph, cs),
           told.begun = ph.begun, told.next = ph.next, told.misfit = ph.misfit,
           told.sent = ph.sent \cup {<<op, x>>}, <<op, x>> \notin ph.sent,
           OpenNow(v) =>
              /\ OpenNow(u) /\ v.received = u.received /\ v.queuedFrames = u.queuedFrames
              /\ v.activeOperations = u.activeOperations
              /\ v.queuedTerminalControls = u.queuedTerminalControls
                    + (IF op \in {"finish", "abort"} /\ x = t THEN 1 ELSE 0),
           op \in {"finish", "abort"} /\ x = t => t \in ph.begun,
           op = "finish" /\ x = t => ph.next[t] = Size[t] /\ b = n + Len(s)
    PROVE  Manners(t, v, s, n, live, told, after)
<1>1. t \notin told.begun => Unbegun(t, s, told)
  BY DEF Manners, Unbegun
<1>2. t \in told.begun => <<"begin", t>> \in told.sent /\ ~Has(after, "begin", t)
  <2>1. t \in ph.begun => <<"begin", t>> \in ph.sent /\ ~Has(cs, "begin", t)
    BY DEF Manners
  <2> QED BY <2>1 DEF Grows
<1>3. ASSUME OpenNow(v) PROVE CountedFrames(v, s) /\ CountedEnds(v, after, t)
  <2>1. CountedFrames(u, s) /\ CountedEnds(u, cs, t)
    BY <1>3 DEF Manners
  <2>2. CountedFrames(v, s)
    BY <1>3, <2>1 DEF CountedFrames
  <2>3. u.queuedTerminalControls \in Nat /\ v.queuedTerminalControls \in Nat
    BY DEF UploadType
  <2>4. CountedEnds(v, after, t)
    BY <1>3, <2>1, <2>3, EndingsMore DEF CountedEnds
  <2> QED BY <2>2, <2>4
<1>4. OpenNow(v) /\ live => Chain(s, v.received, told.next[t])
  BY DEF Manners
<1>5. ASSUME Has(after, "finish", t)
      PROVE  told.next[t] = Size[t] /\ BarrierAt(after, t, n + Len(s))
  <2>1. Has(cs, "finish", t) \/ (op = "finish" /\ x = t)
    BY <1>5 DEF Grows
  <2>2. BarrierAt(cs, t, n + Len(s))
    <3>1. Has(cs, "finish", t) => BarrierAt(cs, t, n + Len(s))
      BY DEF Manners
    <3>2. ~Has(cs, "finish", t) => BarrierAt(cs, t, n + Len(s))
      BY DEF Has, BarrierAt
    <3> QED BY <3>1, <3>2
  <2>3. BarrierAt(after, t, n + Len(s))
    BY <2>2 DEF Grows
  <2> QED BY <2>1, <2>3 DEF Manners
<1>6. t \notin told.misfit
  BY DEF Manners
<1> QED BY <1>1, <1>2, <1>3, <1>4, <1>5, <1>6 DEF Manners

LEMMA MannersArrive ==
    ASSUME NEW t \in Transfer, NEW u \in UploadType, NEW v \in UploadType, NEW s \in FrameLine,
           NEW n \in Nat, NEW live, NEW ph, NEW told, NEW cs, NEW h \in FrameType,
           h.step = "queued", t \in ph.begun, ~Has(cs, "finish", t), ph.next[t] \in Nat,
           h.offset = ph.next[t], told.next[t] = ph.next[t] + h.length,
           told.begun = ph.begun, told.sent = ph.sent, told.misfit = ph.misfit,
           Manners(t, u, s, n, live, ph, cs),
           OpenNow(v) =>
              /\ OpenNow(u) /\ v.received = u.received /\ v.queuedFrames = u.queuedFrames + 1
              /\ v.activeOperations = u.activeOperations
              /\ v.queuedTerminalControls = u.queuedTerminalControls
    PROVE  /\ Manners(t, v, Append(s, h), n, live, told, cs)
           /\ Manners(t, v, s, n, FALSE, told, cs)
<1>1. /\ t \in told.begun /\ <<"begin", t>> \in told.sent /\ ~Has(cs, "begin", t)
      /\ t \notin told.misfit
  BY DEF Manners
<1>2. ASSUME OpenNow(v)
      PROVE  CountedFrames(v, s) /\ CountedFrames(v, Append(s, h)) /\ CountedEnds(v, cs, t)
  <2>1. CountedFrames(u, s) /\ CountedEnds(u, cs, t)
    BY <1>2 DEF Manners
  <2>2. u.queuedFrames \in Nat /\ v.queuedFrames \in Nat
    BY DEF UploadType
  <2>3. Waiting(s) \in Nat
    BY WaitingFacts
  <2>4. CountedFrames(v, s)
    BY <1>2, <2>1, <2>2, <2>3 DEF CountedFrames
  <2>5. CountedFrames(v, Append(s, h))
    <3> DEFINE a == Append(s, h)
    <3>1. /\ a \in FrameLine /\ Len(a) = Len(s) + 1 /\ a[Len(s) + 1] = h
          /\ \A i \in 1 .. Len(s) : a[i] = s[i]
          /\ Len(s) \in Nat
      BY FramePush, WaitingFacts
    <3> HIDE DEF a
    <3>2. a # << >>
      BY <3>1 DEF FrameLine
    <3>3. CASE s = << >>
      <4>1. a[1] = h /\ Len(a) = 1
        BY <3>1, <3>3
      <4> QED BY <1>2, <2>1, <2>2, <2>3, <3>2, <4>1 DEF CountedFrames, Waiting, a
    <3>4. CASE s # << >>
      <4>1. a[1] = s[1]
        <5>1. 1 \in 1 .. Len(s)
          BY <3>4, FrameHead
        <5> QED BY <3>1, <5>1
      <4>2. Waiting(a) = Waiting(s) + 1
        BY <3>1, <3>2, <3>4, <4>1 DEF Waiting
      <4> QED BY <1>2, <2>1, <2>2, <2>3, <3>4, <4>1, <4>2 DEF CountedFrames, a
    <3> QED BY <3>3, <3>4
  <2> QED BY <1>2, <2>1, <2>4, <2>5 DEF CountedEnds
<1>3. OpenNow(v) /\ live => Chain(Append(s, h), v.received, told.next[t])
  BY ChainPush DEF Manners
<1> QED BY <1>1, <1>2, <1>3 DEF Manners

LEMMA MannersRequest ==
    ASSUME Inv, Inv', Mannered, NEW r \in Requests, ReceiveRequest(r[1], r[2])
    PROVE  Mannered'
<1> DEFINE op == r[1]
           x == r[2]
           h == Request(op, x)
<1>1. /\ op \in Ops /\ (op # "remove" => x \in Transfer) /\ (op = "remove" => x \in Path)
      /\ r = <<op, x>>
  BY UploadAssumption DEF Ops
<1>2. h.op = op /\ h.of = x /\ h.step = "queued"
      /\ (op \in {"finish", "abort"} => h.barrier = done[x] + Len(frames[x]))
  BY DEF Request
<1>3. h \in GoodTask
  <2>1. op \in {"finish", "abort"} => done[x] + Len(frames[x]) \in Nat
    <3>1. ASSUME op \in {"finish", "abort"} PROVE done[x] \in Nat /\ frames[x] \in Seq(FrameType)
      BY <1>1, <3>1 DEF Inv, Typed, FrameLines, FrameLine
    <3> QED BY <3>1
  <2> DEFINE b == IF op \in {"finish", "abort"} THEN done[x] + Len(frames[x]) ELSE 0
  <2>2. b \in Nat
    BY <2>1
  <2>3. h = [op |-> op, of |-> x, step |-> "queued", fresh |-> FALSE, barrier |-> b]
    BY DEF Request
  <2> HIDE DEF b, op, x, h
  <2> QED BY <1>1, <2>2, <2>3 DEF GoodTask, TaskType, Step, Reserving, Ops
<1> HIDE DEF h
<1>4. PICK q \in Queue : ctl' = [ctl EXCEPT ![q] = Append(@, h)]
  BY DEF ReceiveRequest, Queue, h
<1>5. /\ <<op, x>> \notin phone.sent
      /\ x \in Polite /\ op \in {"finish", "abort"} => x \in phone.begun
      /\ x \in Polite /\ op = "finish" => phone.next[x] = Size[x]
  BY DEF ReceiveRequest, MaySend, Told
<1>6. UNCHANGED <<frames, done, node>> /\ (Disposed' <=> Disposed)
  BY DEF ReceiveRequest, Disposed
<1>7. /\ phone'.begun = phone.begun /\ phone'.next = phone.next /\ phone'.misfit = phone.misfit
      /\ phone'.sent = phone.sent \cup {<<op, x>>}
  BY DEF ReceiveRequest, Inv, Typed, PhoneType
<1>8. up' = IF op \in {"finish", "abort"} THEN Noted(x, NoteTerminal(up[x])) ELSE up
  BY DEF ReceiveRequest
<1> HIDE DEF op, x
<1>9. Grows(ctl, ctl', op, x, h.barrier) /\ Once(ctl', phone'.sent)
  <2>1. ctl \in Lines /\ Once(ctl, phone.sent)
    BY DEF Inv, Mannered
  <2>2. <<h.op, h.of>> = <<op, x>>
    BY <1>2
  <2>3. Grows(ctl, ctl', h.op, h.of, h.barrier) /\ Once(ctl', phone.sent \cup {<<h.op, h.of>>})
    BY <1>2, <1>3, <1>4, <1>5, <2>1, <2>2, PushHas
  <2> QED BY <1>2, <1>7, <2>2, <2>3
<1>10. ASSUME NEW t \in Polite
       PROVE  Manners(t, up'[t], frames[t], done[t], ~Disposed, phone', ctl')
  <2>1. /\ t \in Transfer /\ up[t] \in UploadType /\ frames[t] \in FrameLine /\ done[t] \in Nat
        /\ Manners(t, up[t], frames[t], done[t], ~Disposed, phone, ctl)
        /\ (up[t].idle => Quiet(up[t]))
    BY ManneredFacts DEF Sound, Shaped
  <2>2. up'[t] \in UploadType
    BY <2>1 DEF Inv, UploadsSound, Uploads
  <2>3. OpenNow(up'[t]) =>
           /\ OpenNow(up[t]) /\ up'[t].received = up[t].received
           /\ up'[t].queuedFrames = up[t].queuedFrames
           /\ up'[t].activeOperations = up[t].activeOperations
           /\ up'[t].queuedTerminalControls = up[t].queuedTerminalControls
                 + (IF op \in {"finish", "abort"} /\ x = t THEN 1 ELSE 0)
    <3>1. CASE op \in {"finish", "abort"} /\ x = t
      <4>1. CASE Open(t)
        <5>1. up'[t] = NoteTerminal(up[t])
          BY <1>8, <2>1, <3>1, <4>1 DEF Noted, Inv, UploadsSound, Uploads
        <5>2. Tally(NoteTerminal(up[t]))
                 = <<up[t].received, up[t].queuedFrames, up[t].queuedTerminalControls + 1,
                     up[t].activeOperations>>
          BY <2>1, Tallies
        <5> QED BY <3>1, <4>1, <5>1, <5>2 DEF Tally, Open, OpenNow
      <4>2. CASE ~Open(t)
        BY <1>8, <3>1, <4>2 DEF Noted, Open, OpenNow
      <4> QED BY <4>1, <4>2
    <3>2. CASE ~(op \in {"finish", "abort"} /\ x = t)
      <4>1. up'[t] = up[t]
        BY <1>1, <1>8, <2>1, <3>2 DEF Noted, Inv, UploadsSound, Uploads
      <4>2. up[t].queuedTerminalControls \in Nat
        BY <2>1 DEF UploadType
      <4> QED BY <3>2, <4>1, <4>2
    <3> QED BY <3>1, <3>2
  <2>4. op \in {"finish", "abort"} /\ x = t => t \in phone.begun
    BY <1>5
  <2>5. op = "finish" /\ x = t => phone.next[t] = Size[t] /\ h.barrier = done[t] + Len(frames[t])
    BY <1>2, <1>5
  <2> QED BY <1>5, <1>7, <1>9, <2>1, <2>2, <2>3, <2>4, <2>5, MannersAsked
<1> QED BY <1>6, <1>9, <1>10 DEF Mannered

LEMMA MannersFrameIn ==
    ASSUME Inv, Inv', Mannered, NEW t \in Transfer, NEW length \in 1 .. MaxFrame,
           NEW offset \in phone.next[t] .. phone.next[t] + MaxGap, ReceiveFrame(t, offset, length)
    PROVE  Mannered'
<1> DEFINE h == [offset |-> offset, length |-> length, step |-> "queued"]
<1>1. offset \in Nat /\ length \in Nat \ {0} /\ phone \in PhoneType
  <2>1. phone.next[t] \in Nat /\ phone \in PhoneType
    BY DEF Inv, Typed, PhoneType
  <2> QED BY <2>1, UploadAssumption
<1>2. h \in FrameType /\ h.step = "queued" /\ h.offset = offset /\ h.length = length
  BY <1>1 DEF FrameType, FrameStep
<1>3. \/ frames' = [frames EXCEPT ![t] = Append(@, h)] /\ UNCHANGED node
      \/ UNCHANGED frames /\ Dispose(TRUE)
  BY DEF ReceiveFrame
<1> HIDE DEF h
<1>4. /\ phone'.begun = phone.begun /\ phone'.misfit = phone.misfit /\ phone'.sent = phone.sent
      /\ \A s \in Transfer \ {t} : phone'.next[s] = phone.next[s]
      /\ phone'.next[t] = IF offset = phone.next[t] THEN offset + length ELSE phone.next[t]
  BY <1>1 DEF ReceiveFrame, PhoneType
<1>5. UNCHANGED <<ctl, done>> /\ up' = Noted(t, NoteFrame(up[t])) /\ MaySendFrame(t, offset, length)
  BY DEF ReceiveFrame
<1>6. Dispose(TRUE) => Disposed'
  BY DEF Dispose, Disposed, Inv, Typed, NodeType
<1>7. ASSUME NEW s \in Polite
      PROVE  Manners(s, up'[s], frames'[s], done'[s], ~Disposed', phone', ctl')
  <2>1. /\ s \in Transfer /\ up[s] \in UploadType /\ frames[s] \in FrameLine /\ done[s] \in Nat
        /\ Manners(s, up[s], frames[s], done[s], ~Disposed, phone, ctl)
    BY ManneredFacts
  <2>2. up'[s] \in UploadType
    BY <2>1 DEF Inv, UploadsSound, Uploads
  <2>3. CASE s = t
    <3>1. s \in phone.begun /\ offset = phone.next[s] /\ phone.next[s] \in Nat
      BY <1>1, <1>5, <2>3 DEF MaySendFrame
    <3>2. ~Has(ctl, "finish", s)
      <4>1. <<"finish", s>> \notin phone.sent
        BY <1>5, <2>3 DEF MaySendFrame, Told
      <4> QED BY <4>1 DEF Mannered, Once, Has
    <3>3. OpenNow(up'[s]) =>
             /\ OpenNow(up[s]) /\ up'[s].received = up[s].received
             /\ up'[s].queuedFrames = up[s].queuedFrames + 1
             /\ up'[s].activeOperations = up[s].activeOperations
             /\ up'[s].queuedTerminalControls = up[s].queuedTerminalControls
      <4>1. CASE Open(s)
        <5>1. up'[s] = NoteFrame(up[s])
          BY <1>5, <2>1, <2>3, <4>1 DEF Noted, Inv, UploadsSound, Uploads
        <5>2. Tally(NoteFrame(up[s]))
                 = <<up[s].received, up[s].queuedFrames + 1, up[s].queuedTerminalControls,
                     up[s].activeOperations>>
          BY <2>1, Tallies
        <5> QED BY <4>1, <5>1, <5>2 DEF Tally, Open, OpenNow
      <4>2. CASE ~Open(s)
        BY <1>5, <2>3, <4>2 DEF Noted, Open, OpenNow
      <4> QED BY <4>1, <4>2
    <3>4. phone'.next[s] = phone.next[s] + h.length /\ h.offset = phone.next[s]
      BY <1>2, <1>4, <2>3, <3>1
    <3>5. /\ Manners(s, up'[s], Append(frames[s], h), done[s], ~Disposed, phone', ctl)
          /\ Manners(s, up'[s], frames[s], done[s], FALSE, phone', ctl)
      BY <1>2, <1>4, <2>1, <2>2, <3>1, <3>2, <3>3, <3>4, MannersArrive
    <3>6. CASE frames' = [frames EXCEPT ![t] = Append(@, h)] /\ UNCHANGED node
      <4>1. frames'[s] = Append(frames[s], h) /\ (Disposed' <=> Disposed)
        BY <2>1, <2>3, <3>6 DEF Inv, FrameLines, Disposed
      <4> QED BY <1>5, <3>5, <4>1
    <3>7. CASE UNCHANGED frames /\ Dispose(TRUE)
      BY <1>5, <1>6, <3>5, <3>7
    <3> QED BY <1>3, <3>6, <3>7
  <2>4. CASE s # t
    <3>1. up'[s] = up[s] /\ frames'[s] = frames[s] /\ phone'.next[s] = phone.next[s]
      BY <1>3, <1>4, <1>5, <2>1, <2>4 DEF Noted, Inv, UploadsSound, Uploads, FrameLines
    <3>2. Disposed => Disposed'
      BY <1>3, <1>6 DEF Disposed
    <3> QED BY <1>4, <1>5, <2>1, <3>1, <3>2 DEF Manners, Unbegun
  <2> QED BY <2>3, <2>4
<1> QED BY <1>4, <1>5, <1>7 DEF Mannered

(* The channel, disposal, cleanup and the timers touch no queue.           *)
LEMMA MannersAside ==
    ASSUME Inv, Inv', Mannered,
           \/ PageDisposes \/ ReceiveViolation \/ ChannelCloses \/ Quiesce
           \/ \E t \in Transfer : CleanupStep(t) \/ Expire(t)
    PROVE  Mannered'
<1>1. UNCHANGED <<ctl, frames, done, phone>>
  BY DEF PageDisposes, ReceiveViolation, ChannelCloses, Quiesce, CleanupStep, AbortSettles,
         CleanupRemoves, Expire
<1>2. Disposed => Disposed'
  <2>1. node \in NodeType
    BY DEF Inv, Typed
  <2>2. CASE PageDisposes \/ ReceiveViolation
    BY <2>1, <2>2 DEF PageDisposes, ReceiveViolation, Listening
  <2>3. CASE ChannelCloses
    BY <2>1, <2>3 DEF ChannelCloses, Disposed, NodeType
  <2>4. CASE Quiesce
    BY <2>1, <2>4 DEF Quiesce, Disposed, NodeType
  <2>5. CASE UNCHANGED node
    BY <2>5 DEF Disposed
  <2>6. \A t \in Transfer : CleanupStep(t) \/ Expire(t) => UNCHANGED node
    BY DEF CleanupStep, AbortSettles, CleanupRemoves, Expire
  <2> QED BY <2>2, <2>3, <2>4, <2>5, <2>6
<1>3. \A t \in Transfer : Mild(up[t], up'[t])
  <2>1. CASE UNCHANGED up
    BY <2>1, MildSame
  <2>2. CASE up' = Aborting(up, Transfer)
    BY <2>2, MildSame
  <2>3. ASSUME NEW t \in Transfer, CleanupStep(t) \/ Expire(t)
        PROVE  \A s \in Transfer : Mild(up[s], up'[s])
    <3>1. UploadsSound(up) /\ Sound(t, up[t]) /\ up[t] \in UploadType
      BY DEF Inv, UploadsSound, Uploads
    <3>2. ~OpenNow(up'[t]) /\ \A s \in Transfer \ {t} : up'[s] = up[s]
      <4>1. CASE AbortSettles(t)
        BY <3>1, <4>1 DEF AbortSettles, UploadsSound, Uploads, OpenNow, Removed, UploadType
      <4>2. CASE CleanupRemoves(t)
        BY <3>1, <4>2 DEF CleanupRemoves, UploadsSound, Uploads, OpenNow, Removed, UploadType
      <4>3. CASE Expire(t)
        <5> DEFINE v == [up[t] EXCEPT !.idle = FALSE]
                   mid == [up EXCEPT ![t] = v]
        <5>1. Shaped(t, v)
          BY <3>1, Counting, CountsKeep DEF Sound, Shaped
        <5>2. mid[t] = v /\ \A s \in Transfer \ {t} : mid[s] = up[s]
          BY <3>1 DEF Uploads, UploadsSound
        <5>3. up' = Aborting(mid, {t})
          BY <4>3 DEF Expire
        <5> HIDE DEF v, mid
        <5>4. up'[t] = GivenUp(v) /\ \A s \in Transfer \ {t} : up'[s] = up[s]
          BY <5>2, <5>3, AbortingIs
        <5> QED BY <5>1, <5>4, GivingUp
      <4> QED BY <2>3, <4>1, <4>2, <4>3 DEF CleanupStep
    <3> QED BY <3>2 DEF Mild
  <2> QED BY <2>1, <2>2, <2>3
        DEF PageDisposes, ReceiveViolation, ChannelCloses, Quiesce
<1>4. Subtasks(ctl, ctl') /\ Once(ctl', phone.sent)
  BY <1>1 DEF Mannered, Subtasks
<1> QED BY <1>1, <1>2, <1>3, <1>4, MildKeeps

(* A step of one frame queue leaves the other transfers alone.             *)
LEMMA FrameStays ==
    ASSUME Inv, Inv', Mannered, NEW t \in Transfer, UNCHANGED <<ctl, node, phone>>,
           \A s \in Transfer \ {t} :
              up'[s] = up[s] /\ frames'[s] = frames[s] /\ done'[s] = done[s],
           t \in Polite => Manners(t, up'[t], frames'[t], done'[t], ~Disposed, phone, ctl)
    PROVE  Mannered'
<1>1. Disposed' <=> Disposed
  BY DEF Disposed
<1>2. ASSUME NEW s \in Polite
      PROVE  Manners(s, up'[s], frames'[s], done'[s], ~Disposed, phone, ctl)
  <2>1. s \in Transfer /\ Manners(s, up[s], frames[s], done[s], ~Disposed, phone, ctl)
    BY ManneredFacts
  <2>2. CASE s = t
    BY <2>2
  <2>3. CASE s # t
    <3>1. up'[s] = up[s] /\ frames'[s] = frames[s] /\ done'[s] = done[s]
      BY <2>1, <2>3
    <3> QED BY <2>1, <3>1
  <2> QED BY <2>2, <2>3
<1> QED BY <1>1, <1>2 DEF Mannered

LEMMA PopFrame ==
    ASSUME Inv, Inv', Mannered, NEW t \in Transfer, frames[t] # << >>,
           UNCHANGED <<ctl, node, phone>>, \A s \in Transfer \ {t} : up'[s] = up[s], EndFrame(t),
           t \in Polite /\ OpenNow(up'[t]) =>
              /\ OpenNow(up[t])
              /\ up'[t].queuedTerminalControls = up[t].queuedTerminalControls
              /\ up'[t].queuedFrames >= up[t].queuedFrames - Counted(frames[t])
              /\ ~Disposed => up'[t].received = frames[t][1].offset + frames[t][1].length
    PROVE  Mannered'
<1>1. frames \in FrameLines /\ done \in [Transfer -> Nat]
  BY DEF Inv, Typed
<1>2. /\ frames'[t] = Tail(frames[t]) /\ done'[t] = done[t] + 1
      /\ \A s \in Transfer \ {t} : frames'[s] = frames[s] /\ done'[s] = done[s]
  BY <1>1 DEF EndFrame, FrameLines
<1>3. t \in Polite => Manners(t, up'[t], frames'[t], done'[t], ~Disposed, phone, ctl)
  <2> SUFFICES ASSUME t \in Polite
               PROVE  Manners(t, up'[t], Tail(frames[t]), done[t] + 1, ~Disposed, phone, ctl)
    BY <1>2
  <2>1. /\ up[t] \in UploadType /\ frames[t] \in FrameLine /\ done[t] \in Nat
        /\ Manners(t, up[t], frames[t], done[t], ~Disposed, phone, ctl)
    BY ManneredFacts
  <2>2. up'[t] \in UploadType
    BY DEF Inv, UploadsSound, Uploads
  <2> QED BY <2>1, <2>2, MannersPop
<1> QED BY <1>2, <1>3, FrameStays

LEMMA GoFrame ==
    ASSUME Inv, Inv', Mannered, NEW t \in Transfer, frames[t] # << >>,
           UNCHANGED <<ctl, node, phone>>, \A s \in Transfer \ {t} : up'[s] = up[s],
           NEW step \in FrameStep \ {"queued"}, FrameTo(t, step),
           t \in Polite /\ OpenNow(up'[t]) =>
              /\ OpenNow(up[t]) /\ step # "cleanup" /\ up'[t].activeOperations >= 1
              /\ up'[t].queuedTerminalControls = up[t].queuedTerminalControls
              /\ up'[t].queuedFrames >= up[t].queuedFrames - Counted(frames[t])
              /\ ~Disposed => up'[t].received = IF step = "last"
                                                  THEN frames[t][1].offset + frames[t][1].length
                                                  ELSE frames[t][1].offset
    PROVE  Mannered'
<1>1. frames \in FrameLines /\ done \in [Transfer -> Nat]
  BY DEF Inv, Typed
<1>2. /\ frames'[t] = [frames[t] EXCEPT ![1].step = step] /\ done' = done
      /\ \A s \in Transfer \ {t} : frames'[s] = frames[s]
  BY <1>1 DEF FrameTo, FrameLines
<1>3. t \in Polite => Manners(t, up'[t], frames'[t], done'[t], ~Disposed, phone, ctl)
  <2> SUFFICES ASSUME t \in Polite
               PROVE  Manners(t, up'[t], [frames[t] EXCEPT ![1].step = step], done[t], ~Disposed,
                              phone, ctl)
    BY <1>2
  <2>1. /\ up[t] \in UploadType /\ frames[t] \in FrameLine /\ done[t] \in Nat
        /\ Manners(t, up[t], frames[t], done[t], ~Disposed, phone, ctl)
    BY ManneredFacts
  <2>2. up'[t] \in UploadType
    BY DEF Inv, UploadsSound, Uploads
  <2> QED BY <2>1, <2>2, MannersGo
<1> QED BY <1>2, <1>3, FrameStays

LEMMA MannersFails ==
    ASSUME Inv, Inv', Mannered, NEW t \in Transfer, frames[t] # << >>,
           UNCHANGED <<ctl, node, phone>>, NEW u, Shaped(t, u),
           u.present = up[t].present, u.cleanup = up[t].cleanup, FrameFails(t, u)
    PROVE  Mannered'
<1> DEFINE v == EndOperation(u)
           mid == [up EXCEPT ![t] = v]
<1>1. Shaped(t, v)
  <2>1. u \in UploadType /\ (u.idle => Quiet(u))
    BY DEF Shaped
  <2> QED BY <2>1, Counting, CountsKeep
<1>2. up' = Aborting(mid, {t}) /\ FrameTo(t, "cleanup")
  BY DEF FrameFails
<1>3. mid[t] = v /\ \A s \in Transfer \ {t} : mid[s] = up[s]
  BY DEF Inv, UploadsSound, Uploads
<1> HIDE DEF v, mid
<1>4. up'[t] = GivenUp(v) /\ \A s \in Transfer \ {t} : up'[s] = up[s]
  BY <1>2, <1>3, AbortingIs
<1>5. ~OpenNow(up'[t])
  BY <1>1, <1>4, GivingUp
<1>6. "cleanup" \in FrameStep \ {"queued"}
  BY DEF FrameStep
<1> QED BY <1>2, <1>4, <1>5, <1>6, GoFrame

LEMMA MannersDropped ==
    ASSUME Inv, Inv', Mannered, NEW t \in Transfer, SkipFrame(t) \/ FrameGivenUp(t)
    PROVE  Mannered'
<1>1. frames[t] # << >> /\ EndFrame(t) /\ UNCHANGED <<up, ctl, node, phone>>
  BY DEF SkipFrame, FrameGivenUp, FrameAt
<1>2. up[t].queuedFrames \in Nat /\ Counted(frames[t]) \in Nat
  BY DEF Inv, UploadsSound, Uploads, UploadType, Counted
<1>3. CASE SkipFrame(t)
  BY <1>1, <1>2, <1>3, PopFrame DEF SkipFrame
<1>4. CASE FrameGivenUp(t)
  <2>1. t \in Polite => ~OpenNow(up[t])
    <3>1. frames[t][1].step = "cleanup"
      BY <1>4 DEF FrameGivenUp, FrameAt
    <3> QED BY <1>1, <3>1, ManneredFacts DEF Manners, CountedFrames
  <2> QED BY <1>1, <2>1, PopFrame
<1> QED BY <1>3, <1>4

LEMMA OpenStays ==
    ASSUME NEW u \in UploadType, u.idle => Quiet(u)
    PROVE  /\ OpenNow(EndOperation(u)) <=> OpenNow(u)
           /\ OpenNow(Flushed(u)) <=> OpenNow(u)
           /\ OpenNow(Landed(u)) <=> OpenNow(u)
           /\ \A f : OpenNow(Taken(u, f)) <=> OpenNow(u)
           /\ OpenNow(BeginOperation(CompleteFrame(u))) <=> OpenNow(u)
<1>1. Counts(u, EndOperation(u)) /\ Counts(u, BeginOperation(CompleteFrame(u)))
  BY Counting
<1>2. /\ OpenNow(EndOperation(u)) <=> OpenNow(u)
      /\ OpenNow(BeginOperation(CompleteFrame(u))) <=> OpenNow(u)
  BY <1>1 DEF Counts, OpenNow
<1>3. /\ OpenNow(Flushed(u)) <=> OpenNow(u)
      /\ OpenNow(Landed(u)) <=> OpenNow(u)
      /\ \A f : OpenNow(Taken(u, f)) <=> OpenNow(u)
  BY DEF Flushed, Landed, Taken, OpenNow, UploadType
<1> QED BY <1>2, <1>3

LEMMA MannersTake ==
    ASSUME Inv, Inv', Mannered, NEW t \in Transfer, frames[t] # << >>,
           UNCHANGED <<ctl, node, phone>>, NEW u \in UploadType, u.idle => Quiet(u), Take(t, u),
           t \in Polite /\ OpenNow(u) =>
              /\ OpenNow(up[t]) /\ u.activeOperations >= 1
              /\ u.queuedTerminalControls = up[t].queuedTerminalControls
              /\ u.queuedFrames >= up[t].queuedFrames - Counted(frames[t])
              /\ ~Disposed => u.received = frames[t][1].offset + frames[t][1].length
    PROVE  Mannered'
<1>1. up \in Uploads
  BY DEF Inv, UploadsSound
<1>2. CASE up' = [up EXCEPT ![t] = EndOperation(u)] /\ EndFrame(t)
  <2>1. up'[t] = EndOperation(u) /\ \A s \in Transfer \ {t} : up'[s] = up[s]
    BY <1>1, <1>2 DEF Uploads
  <2>2. /\ OpenNow(up'[t]) <=> OpenNow(u)
        /\ up'[t].received = u.received /\ up'[t].queuedFrames = u.queuedFrames
        /\ up'[t].queuedTerminalControls = u.queuedTerminalControls
    BY <2>1, OpenStays, Tallies DEF Tally
  <2> QED BY <1>2, <2>1, <2>2, PopFrame
<1>3. CASE up' = [up EXCEPT ![t] = Flushed(u)] /\ FrameTo(t, "last")
  <2>1. up'[t] = Flushed(u) /\ \A s \in Transfer \ {t} : up'[s] = up[s]
    BY <1>1, <1>3 DEF Uploads
  <2>2. /\ OpenNow(up'[t]) <=> OpenNow(u)
        /\ up'[t].received = u.received /\ up'[t].queuedFrames = u.queuedFrames
        /\ up'[t].queuedTerminalControls = u.queuedTerminalControls
        /\ up'[t].activeOperations = u.activeOperations
    BY <2>1, OpenStays, Tallies DEF Tally
  <2>3. "last" \in FrameStep \ {"queued"}
    BY DEF FrameStep
  <2> QED BY <1>3, <2>1, <2>2, <2>3, GoFrame
<1> QED BY <1>2, <1>3 DEF Take

LEMMA MannersAccept ==
    ASSUME Inv, Inv', Mannered, NEW t \in Transfer, AcceptFrame(t)
    PROVE  Mannered'
<1> DEFINE f == frames[t][1]
           u == BeginOperation(CompleteFrame(up[t]))
<1>1. /\ frames[t] # << >> /\ f.step = "queued" /\ f.length \in Nat \ {0} /\ f.offset \in Nat
      /\ ~Disposed /\ UNCHANGED <<ctl, node, phone>>
  BY FrameHeads DEF AcceptFrame, FrameAt, FrameType
<1>2. Sound(t, up[t]) /\ up[t] \in UploadType /\ (up[t].idle => Quiet(up[t])) /\ up \in Uploads
  BY DEF Inv, UploadsSound, Sound, Shaped
<1>3. Counts(up[t], u) /\ Shaped(t, u) /\ u \in UploadType /\ (u.idle => Quiet(u))
  <2>1. Counts(up[t], u)
    BY <1>2, Counting
  <2>2. Shaped(t, u)
    BY <1>2, <2>1, CountsKeep DEF Sound
  <2> QED BY <2>1, <2>2 DEF Shaped
<1>4. /\ OpenNow(u) <=> OpenNow(up[t])
      /\ u.received = up[t].received /\ u.activeOperations >= 1
      /\ u.queuedTerminalControls = up[t].queuedTerminalControls
      /\ u.queuedFrames >= up[t].queuedFrames - Counted(frames[t])
  <2>1. /\ u.received = up[t].received /\ u.activeOperations = up[t].activeOperations + 1
        /\ u.queuedTerminalControls = up[t].queuedTerminalControls
        /\ u.queuedFrames = Less(up[t].queuedFrames)
    BY <1>2, Tallies DEF Tally
  <2>2. up[t].activeOperations \in Nat /\ up[t].queuedFrames \in Nat
    BY <1>2 DEF UploadType
  <2> HIDE DEF u
  <2>3. OpenNow(u) <=> OpenNow(up[t])
    BY <1>2, OpenStays DEF u
  <2>4. Counted(frames[t]) = 1
    BY <1>1 DEF Counted
  <2>5. Less(up[t].queuedFrames) >= up[t].queuedFrames - 1
    BY <2>2, LessFacts
  <2>6. up[t].activeOperations + 1 >= 1
    BY <2>2
  <2> QED BY <2>1, <2>3, <2>4, <2>5, <2>6
<1> HIDE DEF u
<1>5. CASE ~Open(t) /\ FrameTo(t, "cleanup") /\ UNCHANGED up
  <2>1. ~OpenNow(up'[t])
    BY <1>5 DEF Open, OpenNow
  <2>2. "cleanup" \in FrameStep \ {"queued"}
    BY DEF FrameStep
  <2> QED BY <1>1, <1>5, <2>1, <2>2, GoFrame
<1>6. CASE up' = Aborting([up EXCEPT ![t] = EndOperation(u)], {t}) /\ FrameTo(t, "cleanup")
  BY <1>1, <1>3, <1>6, MannersFails DEF FrameFails, Counts
<1>7. Open(t) /\ ~Invalid(t, f) => f.offset = up[t].received
  BY DEF Invalid
<1>8. CASE Open(t) /\ ~Invalid(t, f) /\ up' = [up EXCEPT ![t] = Flushed(u)] /\ FrameTo(t, "early")
  <2>1. up'[t] = Flushed(u) /\ \A s \in Transfer \ {t} : up'[s] = up[s]
    BY <1>2, <1>8 DEF Uploads
  <2>2. /\ OpenNow(up'[t]) <=> OpenNow(u)
        /\ up'[t].received = u.received /\ up'[t].queuedFrames = u.queuedFrames
        /\ up'[t].queuedTerminalControls = u.queuedTerminalControls
        /\ up'[t].activeOperations = u.activeOperations
    BY <1>3, <2>1, OpenStays, Tallies DEF Tally
  <2>3. "early" \in FrameStep \ {"queued"}
    BY DEF FrameStep
  <2> QED BY <1>1, <1>4, <1>7, <1>8, <2>1, <2>2, <2>3, GoFrame
<1>9. CASE Open(t) /\ ~Invalid(t, f) /\ Take(t, Taken(u, f))
  <2> DEFINE v == Taken(u, f)
  <2>1. v \in UploadType /\ (v.idle => Quiet(v))
    <3>1. u.pending + f.length \in Nat /\ u.received + f.length \in Nat
      <4>1. u.pending \in Nat /\ u.received \in Nat
        BY <1>3 DEF UploadType
      <4>2. f.length \in Nat
        BY <1>1
      <4> HIDE DEF f
      <4> QED BY <4>1, <4>2
    <3> DEFINE n == u.pending + f.length
               m == u.received + f.length
    <3>2. v = [u EXCEPT !.pending = n, !.received = m] /\ n \in Nat /\ m \in Nat
      BY <3>1 DEF Taken
    <3> HIDE DEF n, m
    <3> QED BY <1>3, <3>2 DEF UploadType, Quiet
  <2>2. /\ OpenNow(v) <=> OpenNow(u)
        /\ v.received = u.received + f.length /\ v.queuedFrames = u.queuedFrames
        /\ v.queuedTerminalControls = u.queuedTerminalControls
        /\ v.activeOperations = u.activeOperations
    BY <1>3, OpenStays, Tallies DEF Tally
  <2> HIDE DEF v
  <2>3. Take(t, v)
    BY <1>9 DEF v
  <2> QED BY <1>1, <1>4, <1>7, <1>9, <2>1, <2>2, <2>3, MannersTake
<1> QED BY <1>5, <1>6, <1>8, <1>9 DEF AcceptFrame, u

LEMMA MannersEarly ==
    ASSUME Inv, Inv', Mannered, NEW t \in Transfer, EarlyWriteSettles(t)
    PROVE  Mannered'
<1> DEFINE f == frames[t][1]
           v == Landed(up[t])
           u == Taken(v, f)
<1>1. /\ frames[t] # << >> /\ f.step = "early" /\ f.length \in Nat /\ f.offset \in Nat
      /\ UNCHANGED <<ctl, node, phone>>
  BY FrameHeads DEF EarlyWriteSettles, FrameAt, FrameType
<1>2. Sound(t, up[t]) /\ Shaped(t, up[t]) /\ up[t] \in UploadType /\ (up[t].idle => Quiet(up[t]))
  BY DEF Inv, UploadsSound, Sound, Shaped
<1>3. CASE FrameFails(t, Lost(up[t]))
  <2>1. /\ Shaped(t, Lost(up[t])) /\ Lost(up[t]).present = up[t].present
        /\ Lost(up[t]).cleanup = up[t].cleanup
    BY <1>2, Losing
  <2> QED BY <1>1, <1>3, <2>1, MannersFails
<1>4. CASE up[t].stream = "open" /\ (Take(t, u) \/ FrameFails(t, u))
  <2>1. /\ Follows(t, up[t], v) /\ v.stream = "open" /\ v.present = up[t].present
        /\ v.cleanup = up[t].cleanup
    BY <1>2, <1>4, Landing
  <2>2. Sound(t, v) /\ v \in UploadType /\ (v.idle => Quiet(v))
    BY <2>1 DEF Follows, Sound, Shaped
  <2>3. Tally(v) = Tally(up[t]) /\ (OpenNow(v) <=> OpenNow(up[t]))
    BY <1>2, OpenStays, Tallies
  <2> HIDE DEF v
  <2>4. Follows(t, v, u)
    BY <1>1, <2>1, <2>2, Taking
  <2>5. Shaped(t, u) /\ u \in UploadType /\ (u.idle => Quiet(u))
    BY <2>4 DEF Follows, Sound, Shaped
  <2>6. u.present = v.present /\ u.cleanup = v.cleanup
    BY <2>2 DEF Taken, UploadType
  <2>7. /\ OpenNow(u) <=> OpenNow(v)
        /\ Tally(u) = <<v.received + f.length, v.queuedFrames, v.queuedTerminalControls,
                        v.activeOperations>>
    BY <2>2, OpenStays, Tallies
  <2>8. /\ OpenNow(u) <=> OpenNow(up[t])
        /\ u.received = up[t].received + f.length /\ u.queuedFrames = up[t].queuedFrames
        /\ u.queuedTerminalControls = up[t].queuedTerminalControls
        /\ u.activeOperations = up[t].activeOperations
    BY <2>3, <2>7 DEF Tally
  <2>9. CASE FrameFails(t, u)
    BY <1>1, <2>1, <2>5, <2>6, <2>9, MannersFails
  <2>10. CASE Take(t, u)
    <3>1. ASSUME t \in Polite, OpenNow(up[t])
          PROVE  /\ up[t].activeOperations >= 1
                 /\ ~Disposed => up[t].received = f.offset
      <4>1. Manners(t, up[t], frames[t], done[t], ~Disposed, phone, ctl)
        BY <3>1, ManneredFacts
      <4>2. CountedFrames(up[t], frames[t])
        BY <3>1, <4>1 DEF Manners
      <4>3. ~Disposed => Chain(frames[t], up[t].received, phone.next[t])
        BY <3>1, <4>1 DEF Manners
      <4> QED BY <1>1, <4>2, <4>3 DEF CountedFrames, Chain
    <3>2. up[t].queuedFrames \in Nat /\ Counted(frames[t]) = 0
      BY <1>1, <1>2 DEF UploadType, Counted
    <3>3. u.queuedFrames >= up[t].queuedFrames - Counted(frames[t])
      BY <2>8, <3>2
    <3> HIDE DEF u
    <3> QED BY <1>1, <2>5, <2>8, <2>10, <3>1, <3>3, MannersTake
  <2> QED BY <1>4, <2>9, <2>10
<1> QED BY <1>3, <1>4 DEF EarlyWriteSettles

LEMMA MannersWrite ==
    ASSUME Inv, Inv', Mannered, NEW t \in Transfer, WriteSettles(t)
    PROVE  Mannered'
<1> DEFINE f == frames[t][1]
           v == Landed(up[t])
<1>1. /\ frames[t] # << >> /\ f.step = "last" /\ UNCHANGED <<ctl, node, phone>>
  BY DEF WriteSettles, FrameAt
<1>2. /\ Sound(t, up[t]) /\ Shaped(t, up[t]) /\ up[t] \in UploadType /\ up \in Uploads
      /\ (up[t].idle => Quiet(up[t]))
  BY DEF Inv, UploadsSound, Sound, Shaped
<1>3. CASE FrameFails(t, Lost(up[t]))
  <2>1. /\ Shaped(t, Lost(up[t])) /\ Lost(up[t]).present = up[t].present
        /\ Lost(up[t]).cleanup = up[t].cleanup
    BY <1>2, Losing
  <2> QED BY <1>1, <1>3, <2>1, MannersFails
<1>4. up[t].stream # "closed" =>
         Shaped(t, v) /\ v.present = up[t].present /\ v.cleanup = up[t].cleanup
  BY <1>2, Landing
<1>5. CASE up[t].stream \in {"open", "closing"} /\ FrameFails(t, v)
  BY <1>1, <1>4, <1>5, MannersFails
<1>6. CASE /\ up[t].stream \in {"open", "closing"}
           /\ up' = [up EXCEPT ![t] = EndOperation(v)] /\ EndFrame(t)
  <2>1. up'[t] = EndOperation(v) /\ \A s \in Transfer \ {t} : up'[s] = up[s]
    BY <1>2, <1>6 DEF Uploads
  <2>2. v \in UploadType /\ (v.idle => Quiet(v))
    BY <1>4, <1>6 DEF Shaped
  <2>3. Tally(v) = Tally(up[t]) /\ (OpenNow(v) <=> OpenNow(up[t]))
    BY <1>2, OpenStays, Tallies
  <2> HIDE DEF v
  <2>4. /\ OpenNow(EndOperation(v)) <=> OpenNow(v)
        /\ Tally(EndOperation(v)) = <<v.received, v.queuedFrames, v.queuedTerminalControls,
                                      Less(v.activeOperations)>>
    BY <2>2, OpenStays, Tallies
  <2>5. /\ OpenNow(up'[t]) <=> OpenNow(up[t])
        /\ up'[t].received = up[t].received /\ up'[t].queuedFrames = up[t].queuedFrames
        /\ up'[t].queuedTerminalControls = up[t].queuedTerminalControls
    BY <2>1, <2>3, <2>4 DEF Tally
  <2>6. t \in Polite /\ OpenNow(up[t]) /\ ~Disposed => up[t].received = f.offset + f.length
    BY <1>1, ManneredFacts DEF Manners, Chain
  <2>7. up[t].queuedFrames \in Nat /\ Counted(frames[t]) = 0
    BY <1>1, <1>2 DEF UploadType, Counted
  <2>8. up'[t].queuedFrames >= up[t].queuedFrames - Counted(frames[t])
    BY <2>5, <2>7
  <2> QED BY <1>1, <1>6, <2>1, <2>5, <2>6, <2>8, PopFrame
<1> QED BY <1>3, <1>5, <1>6 DEF WriteSettles

LEMMA ManneredFirst == Init => Mannered
<1> SUFFICES ASSUME Init PROVE Mannered
  OBVIOUS
<1>1. \A q \in Queue : ctl[q] = << >> /\ Len(ctl[q]) = 0
  BY DEF Init
<1>2. Once(ctl, phone.sent) /\ \A op, x : ~Has(ctl, op, x)
  BY <1>1 DEF Once, Distinct, Has
<1>3. ASSUME NEW t \in Polite
      PROVE  Manners(t, up[t], frames[t], done[t], ~Disposed, phone, ctl)
  <2>1. /\ t \in Transfer /\ up[t] = Absent /\ frames[t] = << >> /\ phone.next[t] = 0
        /\ phone.sent = {} /\ phone.begun = {} /\ phone.misfit = {}
    BY UploadAssumption DEF Init
  <2>2. ~OpenNow(up[t])
    BY <2>1 DEF OpenNow, Absent
  <2> QED BY <1>2, <2>1, <2>2 DEF Manners, Unbegun
<1> QED BY <1>2, <1>3 DEF Mannered

LEMMA ManneredNext ==
    ASSUME Inv, Inv', Mannered, [Next]_vars
    PROVE  Mannered'
<1>1. CASE Receive
  BY <1>1, MannersRequest, MannersFrameIn, MannersAside DEF Receive
<1>2. ASSUME NEW q \in Queue, ControlStep(q) PROVE Mannered'
  BY <1>2, MannersSkip, MannersOn, MannersLookUp, MannersInstall, MannersFinish, MannersClose,
     MannersRespond DEF ControlStep
<1>3. ASSUME NEW t \in Transfer, FrameTask(t) PROVE Mannered'
  BY <1>3, MannersDropped, MannersAccept, MannersEarly, MannersWrite DEF FrameTask
<1>4. CASE \/ PageDisposes \/ ChannelCloses \/ Quiesce
           \/ \E t \in Transfer : CleanupStep(t) \/ Expire(t)
  BY <1>4, MannersAside
<1>5. CASE UNCHANGED vars
  BY <1>5 DEF vars, Mannered, Disposed
<1> QED BY <1>1, <1>2, <1>3, <1>4, <1>5 DEF Next

(* What a phone that keeps to the protocol may count on, whatever else     *)
(* the channel, the folder and the other transfers do: its requests are    *)
(* queued once, the counters of an open upload cover its queues, its       *)
(* frames continue what was received, and its finish waits for all of      *)
(* them.                                                                   *)
THEOREM Manner == Spec => []Mannered
<1>1. Init => Mannered
  BY ManneredFirst
<1>2. Inv /\ Inv' /\ Mannered /\ [Next]_vars => Mannered'
  BY ManneredNext
<1> QED BY <1>1, <1>2, Invariance, PTL DEF Spec

(* Finish is a final barrier (protocol/README.md): on a live node it never *)
(* finds bytes missing that a polite phone sent before it.                 *)
THEOREM Barrier == Spec => []FinishIsBarrier
<1>1. Mannered => FinishIsBarrier
  BY DEF Mannered, Manners, FinishIsBarrier
<1> QED BY <1>1, Manner, PTL

(* The idle timer of a polite phone's upload runs only while neither a     *)
(* frame nor a finish or abort of it is queued or under way: a transfer    *)
(* that is worked on never expires.                                        *)
THEOREM Timers == Spec => []TimerOnlyWhenIdle
<1>1. Inv /\ Mannered => TimerOnlyWhenIdle
  <2> SUFFICES ASSUME Inv, Mannered, NEW t \in Polite, Open(t), up[t].idle
               PROVE  /\ frames[t] = << >>
                      /\ \A q \in Queue : \A i \in 1 .. Len(ctl[q]) :
                            ctl[q][i].op \in {"finish", "abort"} => ctl[q][i].of # t
    BY DEF TimerOnlyWhenIdle
  <2>1. /\ t \in Transfer /\ up[t] \in UploadType /\ frames[t] \in FrameLine
        /\ Manners(t, up[t], frames[t], done[t], ~Disposed, phone, ctl) /\ Quiet(up[t])
    BY ManneredFacts DEF Sound, Shaped
  <2>2. CountedFrames(up[t], frames[t]) /\ CountedEnds(up[t], ctl, t)
    BY <2>1 DEF Manners, Open, OpenNow
  <2>3. /\ up[t].queuedFrames = 0 /\ up[t].queuedTerminalControls = 0
        /\ up[t].activeOperations = 0
    BY <2>1 DEF Quiet
  <2>4. frames[t] = << >>
    <3> SUFFICES ASSUME frames[t] # << >> PROVE FALSE
      OBVIOUS
    <3>1. frames[t][1].step = "queued" /\ Len(frames[t]) \in Nat \ {0}
      BY <2>1, <2>2, <2>3, FrameHead DEF CountedFrames
    <3>2. Waiting(frames[t]) = Len(frames[t])
      BY <3>1 DEF Waiting
    <3> QED BY <2>2, <2>3, <3>1, <3>2 DEF CountedFrames
  <2>5. Endings(ctl, t) = {}
    <3>1. Cardinality(Endings(ctl, t)) = 0
      BY <2>2, <2>3, EndingsFinite DEF CountedEnds
    <3> QED BY <3>1, EndingsFinite, FS_EmptySet
  <2> QED BY <2>4, <2>5 DEF Endings, Has
<1> QED BY <1>1, Invariance, Manner, PTL
=============================================================================
