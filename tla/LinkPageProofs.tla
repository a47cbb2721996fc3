--------------------------- MODULE LinkPageProofs ---------------------------
(***************************************************************************)
(* Proofs about LinkPage: the inductive invariant that ties the fields of  *)
(* a tab to its links, its nodes, the Web Lock and the receipts, and from  *)
(* it NothingLeftBehind, StaleAttemptsAreInert and the refinement of       *)
(* NodePromise, for any number of tabs and attempts.                       *)
(***************************************************************************)
EXTENDS LinkPage, TLAPS

(* Receipt lists are taken from some set Q: what SelectSeq returns cannot  *)
(* be typed here, and nothing below depends on what a receipt list holds.  *)
LinkShape(Q) ==
    [step : {"none", "locking", "granted", "refused", "preparing", "over"},
     socket : Wire, channel : Wire,
     auth : {"none", "deriving", "challenged", "confirming", "over"},
     close : {"none", "waiting", "storing"},
     reclaim : Q, stored : Q]

Shape(Q) ==
    /\ tab \in [Tab -> TabType]
    /\ link \in [Scope -> LinkShape(Q)]
    /\ node \in [Scope -> {"none", "live", "disposing", "quiet", "gone"}]
    /\ lock \in Scope \cup {None}
    /\ storage \in Q /\ << >> \in Q

(* The fields t of tab p, and the lock h.                                  *)
TabSane(p, t, h) ==
    /\ t.current = 0 <=> t.state \in Idle
    /\ t.current \in {0, t.started}
    /\ t.lease \in {0, t.current} /\ t.socket \in {0, t.current}
    /\ t.channel \in {0, t.current} /\ t.controller \in {0, t.current}
    /\ t.expiry \in {0, t.current} /\ t.authTimer \in {0, t.current}
    /\ t.controller # 0 <=> t.state = "connected"
    /\ t.controller # 0 => t.lease # 0 /\ t.channel # 0 /\ t.expiry = 0 /\ t.authTimer = 0
    /\ t.lease # 0 => h = <<p, t.lease>>
    /\ t.cleanup # 0 => t.current = 0 /\ h = <<p, t.cleanup>>

(* How far the link l of attempt k has come, against the fields of its tab *)
(* and its node n.                                                         *)
LinkSane(k, t, l, n) ==
    /\ k > t.started =>
         /\ l.step = "none" /\ l.socket = "none" /\ l.channel = "none"
         /\ l.auth = "none" /\ l.close = "none" /\ n = "none"
    /\ l.step \in {"locking", "granted", "refused"} =>
         l.close = "none" /\ n = "none" /\ t.lease # k
    /\ l.socket # "none" => l.step = "over"
    /\ t.current = k /\ l.step # "over" => t.socket = 0 /\ t.channel = 0 /\ t.controller = 0
    /\ l.socket = "open" => t.socket = k
    /\ l.channel \in {"connecting", "open"} => t.channel = k
    /\ t.controller = k => l.channel \notin {"none", "connecting"} /\ l.auth = "over"
    /\ t.current = k /\ l.auth = "confirming" => t.lease = k /\ t.controller = 0

(* The lock h and the receipts r, as far as scope s is concerned.          *)
LockSane(s, t, l, h, r) ==
    /\ l.step = "granted" => h = s
    /\ h = s => s[2] \in {t.lease, t.cleanup} \/ l.step = "granted"
    /\ t.lease = s[2] => l.reclaim = r
    /\ l.close = "storing" => l.stored = r

(* The node n of attempt k is at work or coming to rest only for its tab.  *)
NodeSane(k, t, l, n) ==
    /\ l.close # "none" <=> t.cleanup = k
    /\ l.close = "storing" => n = "quiet"
    /\ n = "live" => t.controller = k
    /\ n = "disposing" => t.controller = k \/ t.cleanup = k
    /\ t.current = k /\ t.controller = 0 => n = "none"

ScopeSane(s, t, l, n, h, r) ==
    LinkSane(s[2], t, l, n) /\ LockSane(s, t, l, h, r) /\ NodeSane(s[2], t, l, n)

Sane ==
    /\ \A p \in Tab : TabSane(p, tab[p], lock)
    /\ \A s \in Scope : ScopeSane(s, tab[s[1]], link[s], node[s], lock, storage)

Inv == (\E Q : Shape(Q)) /\ Sane

-----------------------------------------------------------------------------
(* A scope is a tab and the number of one of its attempts.                 *)
LEMMA ScopeFacts ==
    ASSUME NEW s \in Scope
    PROVE  /\ s[1] \in Tab /\ s[2] \in Nat /\ s[2] # 0 /\ s # None
           /\ s = <<s[1], s[2]>>
           /\ \A x \in Scope : x[1] = s[1] /\ x[2] = s[2] => x = s
<1>1. \A x \in Scope : /\ x[1] \in Tab /\ x[2] \in Nat /\ x[2] # 0
                       /\ x = <<x[1], x[2]>> /\ x \in Tab \X Nat
  BY LinkAssumption DEF Scope
<1> QED BY <1>1, LinkAssumption

LEMMA NoneFact == \A p \in Tab, k \in Nat : <<p, k>> # None
BY LinkAssumption

LEMMA InitInv == Init => Inv
<1> SUFFICES ASSUME Init PROVE Inv
  OBVIOUS
<1>1. Shape({<< >>})
  BY DEF Init, Shape, TabType, Fresh, LinkShape, Unused, Wire, Idle
<1>2. \A p \in Tab : TabSane(p, tab[p], lock)
  BY DEF Init, TabSane, Fresh, Idle
<1>3. \A s \in Scope : ScopeSane(s, tab[s[1]], link[s], node[s], lock, storage)
  BY ScopeFacts DEF Init, ScopeSane, LinkSane, LockSane, NodeSane, Fresh, Unused
<1> QED BY <1>1, <1>2, <1>3 DEF Inv, Sane

(* An action that works on attempt s of one tab leaves everything else.    *)
Others(s) ==
    /\ \A q \in Tab \ {s[1]} : tab'[q] = tab[q]
    /\ \A x \in Scope \ {s} : link'[x] = link[x] /\ node'[x] = node[x]

LEMMA OneScope ==
    ASSUME NEW s \in Scope, Others(s),
           \A q \in Tab \ {s[1]} : TabSane(q, tab[q], lock'),
           TabSane(s[1], tab'[s[1]], lock'),
           \A x \in Scope \ {s} : ScopeSane(x, tab'[x[1]], link[x], node[x], lock', storage'),
           ScopeSane(s, tab'[s[1]], link'[s], node'[s], lock', storage')
    PROVE  Sane'
<1>1. \A q \in Tab : TabSane(q, tab'[q], lock')
  <2> TAKE q \in Tab
  <2>1. CASE q = s[1] BY <2>1
  <2>2. CASE q # s[1] BY <2>2 DEF Others
  <2> QED BY <2>1, <2>2
<1>2. \A x \in Scope : ScopeSane(x, tab'[x[1]], link'[x], node'[x], lock', storage')
  <2> TAKE x \in Scope
  <2>1. CASE x = s BY <2>1
  <2>2. CASE x # s BY <2>2 DEF Others
  <2> QED BY <2>1, <2>2
<1> QED BY <1>1, <1>2 DEF Sane

(* ... and neither the lock nor the receipts.                              *)
LEMMA OneTab ==
    ASSUME Sane, NEW s \in Scope, Others(s), lock' = lock, storage' = storage,
           TabSane(s[1], tab'[s[1]], lock),
           \A x \in Scope \ {s} :
               x[1] = s[1] => ScopeSane(x, tab'[s[1]], link[x], node[x], lock, storage),
           ScopeSane(s, tab'[s[1]], link'[s], node'[s], lock, storage)
    PROVE  Sane'
<1>1. \A x \in Scope \ {s} : ScopeSane(x, tab'[x[1]], link[x], node[x], lock', storage')
  <2> TAKE x \in Scope \ {s}
  <2>1. CASE x[1] = s[1] BY <2>1
  <2>2. CASE x[1] # s[1] BY <2>2, ScopeFacts DEF Others, Sane
  <2> QED BY <2>1, <2>2
<1>2. \A q \in Tab \ {s[1]} : TabSane(q, tab[q], lock')
  BY DEF Sane
<1> QED BY <1>1, <1>2, OneScope

(* ... nor the tab. *)
LEMMA OneLink ==
    ASSUME Sane, NEW s \in Scope, Others(s), UNCHANGED <<tab, lock, storage>>,
           ScopeSane(s, tab[s[1]], link'[s], node'[s], lock, storage)
    PROVE  Sane'
<1>1. \A x \in Scope \ {s} : x[1] = s[1] => ScopeSane(x, tab'[s[1]], link[x], node[x], lock, storage)
  BY DEF Sane
<1>2. TabSane(s[1], tab'[s[1]], lock)
  BY ScopeFacts DEF Sane
<1> QED BY <1>1, <1>2, OneTab

LEMMA ScopeTyped ==
    ASSUME NEW Q, Shape(Q), Sane, NEW s \in Scope
    PROVE  /\ tab[s[1]] \in TabType /\ link[s] \in LinkShape(Q)
           /\ node[s] \in {"none", "live", "disposing", "quiet", "gone"}
           /\ lock \in Scope \cup {None} /\ storage \in Q /\ << >> \in Q
           /\ TabSane(s[1], tab[s[1]], lock)
           /\ ScopeSane(s, tab[s[1]], link[s], node[s], lock, storage)
BY ScopeFacts DEF Shape, Sane

-----------------------------------------------------------------------------
(* The way out.                                                            *)

(* What a handler may already have noted when it fails the connection.     *)
LinkEnds(l, m) ==
    /\ m.close = l.close /\ m.reclaim = l.reclaim /\ m.stored = l.stored
    /\ m.step = l.step \/ (m.step = "over" /\ l.step \in {"refused", "preparing"})
    /\ m.socket = l.socket \/ (m.socket = "closed" /\ l.socket = "open")
    /\ m.channel = l.channel \/ (m.channel = "closed" /\ l.channel = "closeEvent")
    /\ \/ m.auth = l.auth
       \/ m.auth = "over" /\ l.auth \in {"deriving", "challenged", "confirming"}

LEMMA EndedSane ==
    ASSUME NEW s, NEW t, NEW l, NEW m, NEW n, NEW h, NEW r,
           ScopeSane(s, t, l, n, h, r), LinkEnds(l, m)
    PROVE  ScopeSane(s, t, m, n, h, r)
<1>1. LinkSane(s[2], t, m, n)
  BY DEF ScopeSane, LinkSane, LinkEnds
<1>2. LockSane(s, t, m, h, r)
  BY DEF ScopeSane, LockSane, LinkEnds
<1>3. NodeSane(s[2], t, m, n)
  BY DEF ScopeSane, NodeSane, LinkEnds
<1> QED BY <1>1, <1>2, <1>3 DEF ScopeSane

(* What Dispose leaves of a tab, of a link and its node, and of the lock.  *)
Serves(t) == t.lease # 0 /\ t.controller # 0

LeftTab(t, shown) ==
    [Fresh(t.started) EXCEPT !.state = shown,
                             !.cleanup = IF Serves(t) THEN t.lease ELSE t.cleanup]

LeftLink(x, t, l) ==
    [l EXCEPT !.socket = IF x[2] = t.socket THEN "closed" ELSE @,
              !.channel = IF x[2] = t.channel THEN Closed(@) ELSE @,
              !.close = IF x[2] = t.lease /\ Serves(t) THEN "waiting" ELSE @,
              !.auth = IF @ = "challenged" THEN "over" ELSE @]

LeftNode(x, p, t, n) == IF x = <<p, t.controller>> THEN DisposedNode(n) ELSE n

LeftLock(p, t, h) == IF h = <<p, t.lease>> /\ ~Serves(t) THEN None ELSE h

(* One scope of the tab whose connection is disposed.                      *)
LEMMA DisposedSane ==
    ASSUME NEW p \in Tab, NEW t \in TabType, NEW h, NEW r, NEW x \in Scope, x[1] = p,
           NEW Q, NEW l \in LinkShape(Q), NEW n,
           TabSane(p, t, h), ScopeSane(x, t, l, n, h, r), t.current # 0, NEW shown \in Idle
    PROVE  ScopeSane(x, LeftTab(t, shown), LeftLink(x, t, l), LeftNode(x, p, t, n),
                     LeftLock(p, t, h), r)
<1> DEFINE u == LeftTab(t, shown)
           m == LeftLink(x, t, l)
           k == LeftNode(x, p, t, n)
           g == LeftLock(p, t, h)
           serves == Serves(t)
<1> SUFFICES ScopeSane(x, u, m, k, g, r)
  OBVIOUS
<1>1. /\ x[2] \in Nat /\ x[2] # 0 /\ x # None /\ x = <<p, x[2]>>
      /\ (x = <<p, t.controller>> <=> x[2] = t.controller)
      /\ (x = <<p, t.lease>> <=> x[2] = t.lease)
  BY ScopeFacts
<1>2. /\ t.cleanup = 0
      /\ t.lease \in {0, t.current} /\ t.controller \in {0, t.current}
      /\ t.socket \in {0, t.current} /\ t.channel \in {0, t.current}
      /\ t.controller # 0 => t.lease # 0
      /\ t.lease # 0 => h = <<p, t.lease>>
      /\ t.current \in {0, t.started}
  BY DEF TabSane
<1>3. /\ u.started = t.started /\ u.current = 0 /\ u.lease = 0 /\ u.socket = 0 /\ u.channel = 0
      /\ u.controller = 0
      /\ serves => u.cleanup = t.lease
      /\ ~serves => u.cleanup = 0
  BY <1>2 DEF Fresh, LeftTab
<1>4. /\ m.step = l.step /\ m.reclaim = l.reclaim /\ m.stored = l.stored
      /\ x[2] = t.socket => m.socket = "closed"
      /\ x[2] # t.socket => m.socket = l.socket
      /\ x[2] = t.channel => m.channel = Closed(l.channel)
      /\ x[2] # t.channel => m.channel = l.channel
      /\ x[2] = t.lease /\ serves => m.close = "waiting"
      /\ ~(x[2] = t.lease /\ serves) => m.close = l.close
      /\ l.auth = "challenged" => m.auth = "over"
      /\ l.auth # "challenged" => m.auth = l.auth
  BY DEF LinkShape, LeftLink
<1>5. LinkSane(x[2], t, l, n) /\ LockSane(x, t, l, h, r) /\ NodeSane(x[2], t, l, n)
  BY DEF ScopeSane
<1>6. /\ x[2] = t.controller => k = DisposedNode(n)
      /\ x[2] # t.controller => k = n
  BY <1>1 DEF LeftNode
<1>7. /\ h = <<p, t.lease>> /\ ~serves => g = None
      /\ ~(h = <<p, t.lease>> /\ ~serves) => g = h
  BY DEF LeftLock
<1> HIDE DEF u, m, k, g
<1>8. LinkSane(x[2], u, m, k)
  <2>1. x[2] > t.started => x[2] \notin {t.socket, t.channel, t.lease, t.controller}
    BY <1>1, <1>2 DEF TabType
  <2>2. x[2] > u.started =>
          /\ m.step = "none" /\ m.socket = "none" /\ m.channel = "none"
          /\ m.auth = "none" /\ m.close = "none" /\ k = "none"
    BY <2>1, <1>3, <1>4, <1>5, <1>6 DEF LinkSane
  <2>3. m.step \in {"locking", "granted", "refused"} =>
          m.close = "none" /\ k = "none" /\ u.lease # x[2]
    BY <1>1, <1>3, <1>4, <1>5, <1>6 DEF LinkSane, DisposedNode
  <2>4. m.socket # "none" => m.step = "over"
    <3>1. CASE x[2] # t.socket
      BY <3>1, <1>4, <1>5 DEF LinkSane
    <3>2. CASE x[2] = t.socket
      BY <3>2, <1>1, <1>2, <1>4, <1>5 DEF LinkSane
    <3> QED BY <3>1, <3>2
  <2>5. m.channel \notin {"connecting", "open"} /\ m.socket # "open"
    BY <1>1, <1>4, <1>5 DEF LinkSane, Closed
  <2> QED BY <1>1, <1>3, <2>2, <2>3, <2>4, <2>5 DEF LinkSane
<1>9. LockSane(x, u, m, g, r)
  BY <1>1, <1>2, <1>3, <1>4, <1>5, <1>7 DEF LockSane, LinkSane, NodeSane, Serves
<1>10. NodeSane(x[2], u, m, k)
  BY <1>1, <1>2, <1>3, <1>4, <1>5, <1>6 DEF NodeSane, LinkSane, DisposedNode, Serves
<1> QED BY <1>8, <1>9, <1>10 DEF ScopeSane
(* The others of the tab and the other tabs, when one tab is disposed.     *)
LEMMA DisposeInv ==
    ASSUME NEW Q, Shape(Q), Sane, NEW p \in Tab, tab[p].current # 0,
           NEW shown \in Idle, NEW links \in [Scope -> LinkShape(Q)],
           \A x \in Scope : LinkEnds(link[x], links[x]),
           Dispose(p, shown, links), storage' = storage
    PROVE  Shape(Q)' /\ Sane'
<1> DEFINE t == tab[p]
           u == LeftTab(t, shown)
           m(x) == LeftLink(x, t, links[x])
           k(x) == LeftNode(x, p, t, node[x])
           g == LeftLock(p, t, lock)
<1>0. /\ t \in TabType /\ TabSane(p, t, lock)
      /\ \A x \in Scope : links[x] \in LinkShape(Q)
      /\ \A x \in Scope : x[1] \in Tab
      /\ \A x \in Scope : ScopeSane(x, tab[x[1]], link[x], node[x], lock, storage)
  BY ScopeFacts DEF Shape, Sane
<1>1. /\ tab' = [tab EXCEPT ![p] = u]
      /\ link' = [x \in Scope |-> IF x[1] # p THEN links[x] ELSE m(x)]
      /\ node' = [x \in Scope |-> k(x)]
      /\ lock' = g
  <2>1. tab' = [tab EXCEPT ![p] = u]
    BY DEF Dispose, Serves, LeftTab
  <2>2. link' = [x \in Scope |-> IF x[1] # p THEN links[x] ELSE m(x)]
    BY DEF Dispose, Serves, LeftLink
  <2>3. node' = [x \in Scope |-> k(x)]
    BY DEF Dispose, LeftNode
  <2>4. lock' = g
    BY DEF Dispose, Serves, LeftLock
  <2> QED BY <2>1, <2>2, <2>3, <2>4
<1>2. u \in TabType
  BY <1>0 DEF Fresh, TabType, Idle, LeftTab
<1>3. ASSUME NEW x \in Scope
      PROVE  m(x) \in LinkShape(Q) /\ k(x) \in {"none", "live", "disposing", "quiet", "gone"}
  <2>1. links[x] \in LinkShape(Q) /\ node[x] \in {"none", "live", "disposing", "quiet", "gone"}
    BY <1>0 DEF Shape
  <2>2. k(x) \in {"none", "live", "disposing", "quiet", "gone"}
    BY <2>1 DEF LeftNode, DisposedNode
  <2>3. Closed(links[x].channel) \in Wire /\ "closed" \in Wire
    BY <2>1 DEF Closed, LinkShape, Wire
  <2>4. m(x) \in LinkShape(Q)
    BY <2>1, <2>3 DEF LinkShape, LeftLink
  <2> QED BY <2>2, <2>4
<1>4. Shape(Q)'
  <2>1. link' \in [Scope -> LinkShape(Q)]
    BY <1>0, <1>1, <1>3
  <2>2. node' \in [Scope -> {"none", "live", "disposing", "quiet", "gone"}]
    BY <1>1, <1>3
  <2> QED BY <1>1, <1>2, <2>1, <2>2 DEF Shape, LeftLock
<1>5. \A x \in Scope : ScopeSane(x, tab[x[1]], links[x], node[x], lock, storage)
  BY <1>0, EndedSane
<1>6. tab'[p] = u /\ \A q \in Tab : q # p => tab'[q] = tab[q]
  BY <1>1 DEF Shape
<1>7. t.lease # 0 => lock = <<p, t.lease>>
  BY <1>0 DEF TabSane
<1>8. TabSane(p, u, g)
  <2>1. /\ u.current = 0 /\ u.state = shown /\ u.lease = 0 /\ u.socket = 0 /\ u.channel = 0
        /\ u.controller = 0 /\ u.expiry = 0 /\ u.authTimer = 0
        /\ Serves(t) => u.cleanup = t.lease
        /\ ~Serves(t) => u.cleanup = 0
    BY <1>0 DEF Fresh, TabSane, LeftTab
  <2> HIDE DEF u
  <2>2. Serves(t) => g = lock
    BY DEF LeftLock
  <2> HIDE DEF g
  <2> QED BY <1>7, <2>1, <2>2 DEF TabSane, Idle, Serves
<1>9. ASSUME NEW q \in Tab, q # p
      PROVE  TabSane(q, tab[q], g)
  <2>1. TabSane(q, tab[q], lock)
    BY DEF Sane
  <2>2. CASE g = lock
    BY <2>1, <2>2
  <2>3. CASE lock = <<p, t.lease>> /\ g = None
    BY <1>9, <2>1, <2>3 DEF TabSane
  <2> QED BY <2>2, <2>3 DEF LeftLock
<1>10. ASSUME NEW x \in Scope, x[1] = p
       PROVE  ScopeSane(x, u, m(x), k(x), g, storage)
  <2>1. ScopeSane(x, t, links[x], node[x], lock, storage)
    BY <1>5, <1>10
  <2> QED BY <1>0, <1>10, <2>1, DisposedSane
<1>11. ASSUME NEW x \in Scope, x[1] # p
       PROVE  ScopeSane(x, tab[x[1]], links[x], k(x), g, storage)
  <2>1. ScopeSane(x, tab[x[1]], links[x], node[x], lock, storage) /\ k(x) = node[x]
    BY <1>5, <1>11 DEF LeftNode
  <2>2. CASE g = lock
    BY <2>1, <2>2
  <2>3. CASE lock = <<p, t.lease>> /\ g = None
    BY <1>11, <2>1, <2>3, ScopeFacts DEF ScopeSane, LockSane
  <2> QED BY <2>2, <2>3 DEF LeftLock
<1> HIDE DEF u, m, k, g
<1>12. \A q \in Tab : TabSane(q, tab'[q], lock')
  BY <1>1, <1>6, <1>8, <1>9
<1>13. \A x \in Scope : ScopeSane(x, tab'[x[1]], link'[x], node'[x], lock', storage')
  <2> TAKE x \in Scope
  <2>1. CASE x[1] = p
    BY <2>1, <1>1, <1>6, <1>10
  <2>2. CASE x[1] # p
    BY <2>2, <1>0, <1>1, <1>6, <1>11
  <2> QED BY <2>1, <2>2
<1> QED BY <1>4, <1>12, <1>13 DEF Sane
LEMMA FailInv ==
    ASSUME NEW Q, Shape(Q), Sane, NEW s \in Scope, NEW m \in LinkShape(Q),
           LinkEnds(link[s], m), Fail(s, [link EXCEPT ![s] = m]), storage' = storage
    PROVE  Shape(Q)' /\ Sane'
<1> DEFINE links == [link EXCEPT ![s] = m]
<1>1. /\ links \in [Scope -> LinkShape(Q)]
      /\ \A x \in Scope : LinkEnds(link[x], links[x])
  BY DEF Shape, LinkEnds
<1>2. CASE Current(s) /\ Of(s).state \notin Idle
  <2>1. Dispose(s[1], "error", links) /\ "error" \in Idle
    BY <1>2 DEF Fail, Idle
  <2>2. s[1] \in Tab /\ tab[s[1]].current # 0
    BY <1>2, ScopeFacts DEF Current, Of
  <2> HIDE DEF links
  <2> QED BY <1>1, <2>1, <2>2, DisposeInv
<1>3. CASE ~(Current(s) /\ Of(s).state \notin Idle)
  <2>1. link' = links /\ UNCHANGED <<tab, node, lock, storage>>
    BY <1>3 DEF Fail
  <2>2. \A x \in Scope : ScopeSane(x, tab[x[1]], links[x], node[x], lock, storage)
    BY <1>1, EndedSane DEF Sane
  <2> HIDE DEF links
  <2> QED BY <1>1, <2>1, <2>2 DEF Shape, Sane
<1> QED BY <1>2, <1>3

-----------------------------------------------------------------------------
LEMMA LockAnswersInv ==
    ASSUME NEW Q, Shape(Q), Sane, NEW s \in Scope, LockAnswers(s)
    PROVE  Shape(Q)' /\ Sane'
<1> DEFINE t == tab[s[1]]
           m == link'[s]
<1>0. /\ t \in TabType /\ link[s] \in LinkShape(Q)
      /\ ScopeSane(s, t, link[s], node[s], lock, storage)
      /\ link[s].step = "locking" /\ UNCHANGED <<tab, node, storage>>
  BY ScopeTyped DEF LockAnswers
<1>1. Shape(Q)' /\ Others(s)
  BY DEF Shape, LockAnswers, Step, LinkShape, Others
<1>2. CASE lock' = lock /\ m = [link[s] EXCEPT !.step = "refused"]
  <2>1. ScopeSane(s, t, m, node[s], lock, storage)
    BY <1>0, <1>2 DEF ScopeSane, LinkSane, LockSane, NodeSane, LinkShape
  <2> QED BY <1>0, <1>1, <1>2, <2>1, OneLink
<1>3. CASE lock = None /\ lock' = s /\ m = [link[s] EXCEPT !.step = "granted"]
  <2>1. ScopeSane(s, t, m, node[s], s, storage)
    BY <1>0, <1>3 DEF ScopeSane, LinkSane, LockSane, NodeSane, LinkShape
  <2>2. \A q \in Tab : TabSane(q, tab[q], s)
    BY <1>3, NoneFact DEF Sane, Shape, TabSane, TabType
  <2>3. \A x \in Scope \ {s} : ScopeSane(x, tab[x[1]], link[x], node[x], s, storage)
    BY <1>3, ScopeFacts DEF Sane, ScopeSane, LockSane
  <2> QED BY <1>0, <1>1, <1>3, <2>1, <2>2, <2>3, OneScope, ScopeFacts
<1> QED BY <1>2, <1>3 DEF LockAnswers, Step, Shape

LEMMA CreateLinkInv ==
    ASSUME NEW Q, Shape(Q), Sane, NEW p \in Tab, CreateLink(p)
    PROVE  Shape(Q)' /\ Sane'
<1> DEFINE k == tab[p].started + 1
           s == <<p, k>>
           t == tab[p]
           u == tab'[p]
           m == link'[s]
<1>0. /\ s \in Scope /\ t.state \in Idle /\ t.cleanup = 0 /\ UNCHANGED <<node, lock, storage>>
      /\ s[1] = p /\ s[2] = k
  BY DEF CreateLink
<1>1. /\ t \in TabType /\ link[s] \in LinkShape(Q) /\ TabSane(p, t, lock)
      /\ ScopeSane(s, t, link[s], node[s], lock, storage)
  BY <1>0, ScopeTyped
<1>2. /\ u = [t EXCEPT !.started = k, !.current = k, !.state = "preparing"]
      /\ m = [link[s] EXCEPT !.step = "locking"]
      /\ Others(s)
  BY <1>0 DEF CreateLink, Step, Shape, Others
<1>3. /\ t.current = 0 /\ t.lease = 0 /\ t.socket = 0 /\ t.channel = 0 /\ t.controller = 0
      /\ t.expiry = 0 /\ t.authTimer = 0 /\ k \in Nat /\ k > t.started /\ t.started \in Nat /\ k # 0
  BY <1>0, <1>1 DEF TabSane, TabType
<1>4. /\ u.current = k /\ u.started = k /\ u.state = "preparing"
      /\ u.lease = 0 /\ u.socket = 0 /\ u.channel = 0 /\ u.controller = 0
      /\ u.expiry = 0 /\ u.authTimer = 0 /\ u.cleanup = 0
  BY <1>0, <1>1, <1>2, <1>3 DEF TabType
<1>5. TabSane(p, u, lock)
  <2> HIDE DEF u, k
  <2> QED BY <1>3, <1>4 DEF TabSane, Idle
<1>6. /\ m.step = "locking" /\ m.socket = "none" /\ m.channel = "none" /\ m.auth = "none"
      /\ m.close = "none" /\ node[s] = "none" /\ link[s].step = "none"
  BY <1>0, <1>1, <1>2, <1>3 DEF ScopeSane, LinkSane, LinkShape
<1>7. lock # s
  BY <1>0, <1>1, <1>3, <1>6 DEF ScopeSane, LockSane
<1>8. ScopeSane(s, u, m, node[s], lock, storage)
  <2> HIDE DEF u, m, k
  <2> QED BY <1>0, <1>3, <1>4, <1>6, <1>7 DEF ScopeSane, LinkSane, LockSane, NodeSane
<1>9. ASSUME NEW x \in Scope \ {s}, x[1] = p
      PROVE  ScopeSane(x, u, link[x], node[x], lock, storage)
  <2>1. ScopeSane(x, t, link[x], node[x], lock, storage) /\ x[2] # k /\ x[2] \in Nat /\ x[2] # 0
    BY <1>0, <1>9, ScopeFacts DEF Sane
  <2> HIDE DEF u, m, k, t
  <2>2. LinkSane(x[2], u, link[x], node[x])
    BY <2>1, <1>3, <1>4 DEF ScopeSane, LinkSane
  <2>3. LockSane(x, u, link[x], lock, storage)
    BY <2>1, <1>0, <1>3, <1>4 DEF ScopeSane, LockSane
  <2>4. NodeSane(x[2], u, link[x], node[x])
    BY <2>1, <1>0, <1>3, <1>4 DEF ScopeSane, NodeSane
  <2> QED BY <2>2, <2>3, <2>4 DEF ScopeSane
<1>10. Shape(Q)'
  <2>1. u \in TabType /\ m \in LinkShape(Q)
    BY <1>1, <1>2, <1>3 DEF TabType, LinkShape
  <2> QED BY <2>1, <1>0, <1>1 DEF Shape, CreateLink, Step
<1>11. Sane'
  <2>1. /\ lock' = lock /\ storage' = storage /\ node'[s] = node[s]
        /\ TabSane(s[1], tab'[s[1]], lock)
        /\ \A x \in Scope \ {s} :
              x[1] = s[1] => ScopeSane(x, tab'[s[1]], link[x], node[x], lock, storage)
        /\ ScopeSane(s, tab'[s[1]], link'[s], node'[s], lock, storage)
    BY <1>0, <1>5, <1>8, <1>9
  <2> HIDE DEF s
  <2> QED BY <1>0, <1>2, <2>1, OneTab
<1> QED BY <1>10, <1>11
(* A failure that has noted nothing. *)
LEMMA FailNow ==
    ASSUME NEW Q, Shape(Q), Sane, NEW s \in Scope, Fail(s, link), storage' = storage
    PROVE  Shape(Q)' /\ Sane'
<1> DEFINE m == link[s]
<1>1. link = [link EXCEPT ![s] = m] /\ m \in LinkShape(Q) /\ LinkEnds(link[s], m)
  BY DEF Shape, LinkEnds
<1>2. Fail(s, [link EXCEPT ![s] = m])
  BY <1>1
<1> HIDE DEF m
<1> QED BY <1>1, <1>2, FailInv

(* A failure that has first noted an end, in one field of the link.        *)
LEMMA FailNoted ==
    ASSUME NEW Q, Shape(Q), Sane, NEW s \in Scope, storage' = storage, NEW v,
           \/ v = "step" /\ link[s].step \in {"refused", "preparing"} /\ Fail(s, Step(s, v, "over"))
           \/ v = "auth" /\ link[s].auth \in {"deriving", "challenged", "confirming"}
              /\ Fail(s, Step(s, v, "over"))
           \/ v = "socket" /\ link[s].socket = "open" /\ Fail(s, Step(s, v, "closed"))
           \/ v = "channel" /\ link[s].channel = "closeEvent" /\ Fail(s, Step(s, v, "closed"))
    PROVE  Shape(Q)' /\ Sane'
<1>0. link[s] \in LinkShape(Q) /\ "closed" \in Wire
  BY DEF Shape, Wire
<1>1. CASE link[s].step \in {"refused", "preparing"} /\ Fail(s, Step(s, "step", "over"))
  <2> DEFINE m == [link[s] EXCEPT !.step = "over"]
  <2>1. m \in LinkShape(Q) /\ LinkEnds(link[s], m) /\ Fail(s, [link EXCEPT ![s] = m])
    BY <1>0, <1>1 DEF LinkShape, LinkEnds, Step
  <2> HIDE DEF m
  <2> QED BY <2>1, FailInv
<1>2. CASE /\ link[s].auth \in {"deriving", "challenged", "confirming"}
           /\ Fail(s, Step(s, "auth", "over"))
  <2> DEFINE m == [link[s] EXCEPT !.auth = "over"]
  <2>1. m \in LinkShape(Q) /\ LinkEnds(link[s], m) /\ Fail(s, [link EXCEPT ![s] = m])
    BY <1>0, <1>2 DEF LinkShape, LinkEnds, Step
  <2> HIDE DEF m
  <2> QED BY <2>1, FailInv
<1>3. CASE link[s].socket = "open" /\ Fail(s, Step(s, "socket", "closed"))
  <2> DEFINE m == [link[s] EXCEPT !.socket = "closed"]
  <2>1. m \in LinkShape(Q) /\ LinkEnds(link[s], m) /\ Fail(s, [link EXCEPT ![s] = m])
    BY <1>0, <1>3 DEF LinkShape, LinkEnds, Step
  <2> HIDE DEF m
  <2> QED BY <2>1, FailInv
<1>4. CASE link[s].channel = "closeEvent" /\ Fail(s, Step(s, "channel", "closed"))
  <2> DEFINE m == [link[s] EXCEPT !.channel = "closed"]
  <2>1. m \in LinkShape(Q) /\ LinkEnds(link[s], m) /\ Fail(s, [link EXCEPT ![s] = m])
    BY <1>0, <1>4 DEF LinkShape, LinkEnds, Step
  <2> HIDE DEF m
  <2> QED BY <2>1, FailInv
<1> QED BY <1>1, <1>2, <1>3, <1>4

-----------------------------------------------------------------------------
(* The steps of a connection.                                              *)

LEMMA ReadReceiptsInv ==
    ASSUME NEW Q, Shape(Q), Sane, NEW s \in Scope, ReadReceipts(s)
    PROVE  Shape(Q)' /\ Sane'
<1> DEFINE t == tab[s[1]]
           l == link[s]
           m == link'[s]
<1>0. /\ t \in TabType /\ l \in LinkShape(Q) /\ TabSane(s[1], t, lock)
      /\ ScopeSane(s, t, l, node[s], lock, storage)
      /\ s[2] \in Nat /\ s[2] # 0 /\ s[1] \in Tab /\ s = <<s[1], s[2]>>
  BY ScopeTyped, ScopeFacts
<1>1. /\ m = [l EXCEPT !.close = "storing", !.stored = storage]
      /\ l.close = "waiting" /\ node[s] = "quiet" /\ UNCHANGED <<tab, node, lock, storage>>
  BY DEF ReadReceipts, Step, Shape
<1>2. Shape(Q)' /\ Others(s)
  <2>1. m \in LinkShape(Q)
    <3>1. storage \in Q
      BY ScopeTyped
    <3> QED BY <1>0, <1>1, <3>1 DEF LinkShape
  <2> QED BY <2>1, <1>1 DEF Shape, ReadReceipts, Step, Others
<1>3. ScopeSane(s, t, m, node[s], lock, storage)
  BY <1>0, <1>1 DEF ScopeSane, LinkSane, LockSane, NodeSane, LinkShape
<1> QED BY <1>1, <1>2, <1>3, OneLink

LEMMA ChannelBreaksInv ==
    ASSUME NEW Q, Shape(Q), Sane, NEW s \in Scope, ChannelBreaks(s)
    PROVE  Shape(Q)' /\ Sane'
<1> DEFINE t == tab[s[1]]
           l == link[s]
           m == link'[s]
<1>0. /\ t \in TabType /\ l \in LinkShape(Q) /\ TabSane(s[1], t, lock)
      /\ ScopeSane(s, t, l, node[s], lock, storage)
      /\ s[2] \in Nat /\ s[2] # 0 /\ s[1] \in Tab /\ s = <<s[1], s[2]>>
  BY ScopeTyped, ScopeFacts
<1>1. /\ m = [l EXCEPT !.channel = "closeEvent"]
      /\ l.channel = "open" /\ UNCHANGED <<tab, node, lock, storage>>
  BY DEF ChannelBreaks, Step, Shape
<1>2. Shape(Q)' /\ Others(s)
  <2>1. m \in LinkShape(Q)
    BY <1>0, <1>1, ScopeTyped DEF LinkShape, Wire
  <2> QED BY <2>1, <1>1 DEF Shape, ChannelBreaks, Step, Others
<1>3. ScopeSane(s, t, m, node[s], lock, storage)
  BY <1>0, <1>1 DEF ScopeSane, LinkSane, LockSane, NodeSane, LinkShape
<1> QED BY <1>1, <1>2, <1>3, OneLink

LEMMA ChallengedInv ==
    ASSUME NEW Q, Shape(Q), Sane, NEW s \in Scope, Challenged(s)
    PROVE  Shape(Q)' /\ Sane'
<1> DEFINE t == tab[s[1]]
           l == link[s]
           m == link'[s]
<1>0. /\ t \in TabType /\ l \in LinkShape(Q) /\ TabSane(s[1], t, lock)
      /\ ScopeSane(s, t, l, node[s], lock, storage)
      /\ s[2] \in Nat /\ s[2] # 0 /\ s[1] \in Tab /\ s = <<s[1], s[2]>>
  BY ScopeTyped, ScopeFacts
<1>1. CASE /\ link' = Step(s, "auth", "challenged") /\ l.auth = "deriving"
           /\ UNCHANGED <<tab, node, lock, storage>>
  <2>1. m = [l EXCEPT !.auth = "challenged"]
    BY <1>1 DEF Step, Shape
  <2>2. Shape(Q)' /\ Others(s)
    BY <1>0, <1>1 DEF Shape, Step, LinkShape, Others
  <2>3. ScopeSane(s, t, m, node[s], lock, storage)
    BY <1>0, <1>1, <2>1 DEF ScopeSane, LinkSane, LockSane, NodeSane, LinkShape
  <2> QED BY <1>1, <2>2, <2>3, OneLink
<1>2. CASE /\ Fail(s, Step(s, "auth", "over")) /\ storage' = storage
           /\ l.auth \in {"deriving", "challenged", "confirming"}
  BY <1>2, FailNoted
<1> QED BY <1>1, <1>2 DEF Challenged

LEMMA AuthResponseInv ==
    ASSUME NEW Q, Shape(Q), Sane, NEW s \in Scope, AuthResponse(s)
    PROVE  Shape(Q)' /\ Sane'
<1> DEFINE t == tab[s[1]]
           l == link[s]
           m == link'[s]
<1>0. /\ t \in TabType /\ l \in LinkShape(Q) /\ TabSane(s[1], t, lock)
      /\ ScopeSane(s, t, l, node[s], lock, storage)
      /\ s[2] \in Nat /\ s[2] # 0 /\ s[1] \in Tab /\ s = <<s[1], s[2]>>
  BY ScopeTyped, ScopeFacts
<1>1. CASE /\ link' = Step(s, "auth", "confirming") /\ l.auth = "challenged" /\ t.current = s[2] /\ t.controller = 0 /\ t.lease # 0
           /\ UNCHANGED <<tab, node, lock, storage>>
  <2>1. m = [l EXCEPT !.auth = "confirming"]
    BY <1>1 DEF Step, Shape
  <2>2. Shape(Q)' /\ Others(s)
    BY <1>0, <1>1 DEF Shape, Step, LinkShape, Others
  <2>3. ScopeSane(s, t, m, node[s], lock, storage)
    BY <1>0, <1>1, <2>1 DEF ScopeSane, LinkSane, LockSane, NodeSane, LinkShape, TabSane
  <2> QED BY <1>1, <2>2, <2>3, OneLink
<1>2. CASE /\ Fail(s, Step(s, "auth", "over")) /\ storage' = storage
           /\ l.auth \in {"deriving", "challenged", "confirming"}
  BY <1>2, FailNoted
<1> QED BY <1>1, <1>2 DEF AuthResponse, Listens, Current, Of

LEMMA FailuresInv ==
    ASSUME NEW Q, Shape(Q), Sane, NEW s \in Scope,
           \/ LockRefused(s) \/ Trouble(s) \/ SocketCloses(s) \/ ChannelCloses(s)
           \/ AuthTimeout(s) \/ PairingExpires(s)
    PROVE  Shape(Q)' /\ Sane'
<1>1. CASE Fail(s, link) /\ storage' = storage
  BY <1>1, FailNow
<1>2. CASE LockRefused(s)
  BY <1>2, FailNoted DEF LockRefused
<1> DEFINE m == link'[s]
<1>3. ASSUME link' = [link EXCEPT ![s] = m], m \in LinkShape(Q), LinkEnds(link[s], m),
             UNCHANGED <<tab, node, lock, storage>>
      PROVE  Shape(Q)' /\ Sane'
  <2>1. Shape(Q)' /\ Others(s)
    BY <1>3 DEF Shape, Others
  <2>2. ScopeSane(s, tab[s[1]], m, node[s], lock, storage)
    BY <1>3, EndedSane, ScopeTyped
  <2> QED BY <1>3, <2>1, <2>2, OneLink
<1>4. link[s] \in LinkShape(Q) /\ "closed" \in Wire
  BY DEF Shape, Wire
<1>5. CASE SocketCloses(s)
  <2>1. CASE Fail(s, Step(s, "socket", "closed")) /\ storage' = storage
    BY <1>5, <2>1, FailNoted DEF SocketCloses
  <2>2. CASE link' = Step(s, "socket", "closed") /\ UNCHANGED <<tab, node, lock, storage>>
    <3>1. m = [link[s] EXCEPT !.socket = "closed"] /\ link' = [link EXCEPT ![s] = m]
      BY <2>2 DEF Step, Shape
    <3>2. m \in LinkShape(Q) /\ LinkEnds(link[s], m)
      BY <1>4, <1>5, <3>1 DEF SocketCloses, LinkShape, LinkEnds
    <3> QED BY <1>3, <2>2, <3>1, <3>2
  <2> QED BY <1>5, <2>1, <2>2 DEF SocketCloses
<1>6. CASE ChannelCloses(s)
  <2>1. CASE Fail(s, Step(s, "channel", "closed")) /\ storage' = storage
    BY <1>6, <2>1, FailNoted DEF ChannelCloses
  <2>2. CASE link' = Step(s, "channel", "closed") /\ UNCHANGED <<tab, node, lock, storage>>
    <3>1. m = [link[s] EXCEPT !.channel = "closed"] /\ link' = [link EXCEPT ![s] = m]
      BY <2>2 DEF Step, Shape
    <3>2. m \in LinkShape(Q) /\ LinkEnds(link[s], m)
      BY <1>4, <1>6, <3>1 DEF ChannelCloses, LinkShape, LinkEnds
    <3> QED BY <1>3, <2>2, <3>1, <3>2
  <2> QED BY <1>6, <2>1, <2>2 DEF ChannelCloses
<1> QED BY <1>1, <1>2, <1>5, <1>6 DEF Trouble, AuthTimeout, PairingExpires

LEMMA NodeClosesInv ==
    ASSUME NEW Q, Shape(Q), Sane, NEW s \in Scope, NodeCloses(s)
    PROVE  Shape(Q)' /\ Sane'
<1> DEFINE t == tab[s[1]]
           l == link[s]
           m == link'[s]
<1>0. /\ t \in TabType /\ l \in LinkShape(Q) /\ TabSane(s[1], t, lock)
      /\ ScopeSane(s, t, l, node[s], lock, storage)
      /\ s[2] \in Nat /\ s[2] # 0 /\ s[1] \in Tab /\ s = <<s[1], s[2]>>
  BY ScopeTyped, ScopeFacts
<1>1. /\ m = [l EXCEPT !.channel = Closed(l.channel)]
      /\ node[s] = "live" /\ node'[s] = "disposing" /\ UNCHANGED <<tab, lock, storage>>
  BY DEF NodeCloses, Step, Shape
<1>2. Shape(Q)' /\ Others(s)
  <2>1. m \in LinkShape(Q)
    BY <1>0, <1>1 DEF LinkShape, Closed, Wire
  <2> QED BY <2>1, <1>1 DEF Shape, NodeCloses, Step, Others
<1>3. ScopeSane(s, t, m, node'[s], lock, storage)
  BY <1>0, <1>1 DEF ScopeSane, LinkSane, LockSane, NodeSane, LinkShape, Closed
<1> QED BY <1>1, <1>2, <1>3, OneLink

LEMMA NodeQuiescesInv ==
    ASSUME NEW Q, Shape(Q), Sane, NEW s \in Scope, NodeQuiesces(s)
    PROVE  Shape(Q)' /\ Sane'
<1> DEFINE t == tab[s[1]]
           l == link[s]
           m == link'[s]
<1>0. /\ t \in TabType /\ l \in LinkShape(Q) /\ TabSane(s[1], t, lock)
      /\ ScopeSane(s, t, l, node[s], lock, storage)
      /\ s[2] \in Nat /\ s[2] # 0 /\ s[1] \in Tab /\ s = <<s[1], s[2]>>
  BY ScopeTyped, ScopeFacts
<1>1. /\ m = l
      /\ node[s] = "disposing" /\ node'[s] = "quiet" /\ UNCHANGED <<tab, lock, storage>>
  BY DEF NodeQuiesces, Step, Shape
<1>2. Shape(Q)' /\ Others(s)
  <2>1. m \in LinkShape(Q)
    BY <1>0, <1>1 DEF LinkShape, Closed, Wire
  <2> QED BY <2>1, <1>1 DEF Shape, NodeQuiesces, Step, Others
<1>3. ScopeSane(s, t, m, node'[s], lock, storage)
  BY <1>0, <1>1 DEF ScopeSane, LinkSane, LockSane, NodeSane, LinkShape, Closed
<1> QED BY <1>1, <1>2, <1>3, OneLink

LEMMA LockGrantedMoves ==
    ASSUME NEW Q, Shape(Q), Sane, NEW s \in Scope, LockGranted(s), Current(s)
    PROVE  Shape(Q)' /\ Sane'
<1> DEFINE t == tab[s[1]]
           l == link[s]
           u == tab'[s[1]]
           m == link'[s]
<1>0. /\ t \in TabType /\ l \in LinkShape(Q) /\ TabSane(s[1], t, lock)
      /\ ScopeSane(s, t, l, node[s], lock, storage)
      /\ s[2] \in Nat /\ s[2] # 0 /\ s[1] \in Tab /\ s = <<s[1], s[2]>>
  BY ScopeTyped, ScopeFacts
<1>1. /\ u = [t EXCEPT !.lease = s[2]]
      /\ m = [l EXCEPT !.step = "preparing", !.reclaim = storage]
      /\ l.step = "granted" /\ t.current = s[2]
      /\ UNCHANGED <<node, lock, storage>> /\ Others(s)
  BY <1>0 DEF Step, Shape, Shown, Of, Current, Others, LockGranted
<1>2. Shape(Q)'
  <2>1. storage \in Q
    BY ScopeTyped
  <2>2. u \in TabType
    BY <1>0, <1>1 DEF TabType
  <2>3. m \in LinkShape(Q)
    <3> HIDE DEF m
    <3> QED BY <1>0, <1>1, <2>1 DEF LinkShape, Wire
  <2> QED BY <2>2, <2>3, <1>0, <1>1 DEF Shape, Step, Shown, Of, LockGranted
<1>3. TabSane(s[1], u, lock)
  BY <1>0, <1>1 DEF TabSane, ScopeSane, LinkSane, LockSane, TabType, Idle
<1>4. ScopeSane(s, u, m, node[s], lock, storage)
  <2> HIDE DEF m, u
  <2>1. LinkSane(s[2], u, m, node[s])
    BY <1>0, <1>1 DEF TabSane, ScopeSane, LinkSane, TabType, LinkShape
  <2>2. LockSane(s, u, m, lock, storage)
    BY <1>0, <1>1 DEF TabSane, ScopeSane, LockSane, LinkSane, TabType, LinkShape
  <2>3. NodeSane(s[2], u, m, node[s])
    BY <1>0, <1>1 DEF TabSane, ScopeSane, NodeSane, LinkSane, TabType, LinkShape
  <2> QED BY <2>1, <2>2, <2>3 DEF ScopeSane
<1>5. ASSUME NEW x \in Scope \ {s}, x[1] = s[1]
      PROVE  ScopeSane(x, u, link[x], node[x], lock, storage)
  <2>1. ScopeSane(x, t, link[x], node[x], lock, storage) /\ x[2] # s[2] /\ x[2] \in Nat /\ x[2] # 0
    BY <1>0, <1>5, ScopeFacts DEF Sane
  <2>2. LinkSane(x[2], u, link[x], node[x])
    BY <2>1, <1>0, <1>1 DEF TabSane, ScopeSane, LinkSane, TabType
  <2>3. LockSane(x, u, link[x], lock, storage)
    BY <2>1, <1>0, <1>1 DEF TabSane, ScopeSane, LockSane, TabType
  <2>4. NodeSane(x[2], u, link[x], node[x])
    BY <2>1, <1>0, <1>1 DEF TabSane, ScopeSane, NodeSane, TabType
  <2> QED BY <2>2, <2>3, <2>4 DEF ScopeSane
<1>6. lock' = lock /\ storage' = storage /\ node'[s] = node[s]
  BY <1>1
<1> QED BY <1>1, <1>2, <1>3, <1>4, <1>5, <1>6, OneTab

LEMMA PreparedMoves ==
    ASSUME NEW Q, Shape(Q), Sane, NEW s \in Scope, Prepared(s),
           Current(s) /\ Shown(s, [Of(s) EXCEPT !.state = "waiting", !.socket = s[2], !.expiry = s[2]]),
           link' = [link EXCEPT ![s].step = "over", ![s].socket = "open"],
           UNCHANGED <<node, lock>>
    PROVE  Shape(Q)' /\ Sane'
<1> DEFINE t == tab[s[1]]
           l == link[s]
           u == tab'[s[1]]
           m == link'[s]
<1>0. /\ t \in TabType /\ l \in LinkShape(Q) /\ TabSane(s[1], t, lock)
      /\ ScopeSane(s, t, l, node[s], lock, storage)
      /\ s[2] \in Nat /\ s[2] # 0 /\ s[1] \in Tab /\ s = <<s[1], s[2]>>
  BY ScopeTyped, ScopeFacts
<1>1. /\ u = [t EXCEPT !.state = "waiting", !.socket = s[2], !.expiry = s[2]]
      /\ m = [l EXCEPT !.step = "over", !.socket = "open"]
      /\ l.step = "preparing" /\ t.current = s[2]
      /\ UNCHANGED <<node, lock, storage>> /\ Others(s)
  BY <1>0 DEF Step, Shape, Shown, Of, Current, Others, Prepared
<1>2. Shape(Q)'
  <2>1. storage \in Q
    BY ScopeTyped
  <2>2. u \in TabType
    BY <1>0, <1>1 DEF TabType
  <2>3. m \in LinkShape(Q)
    <3> HIDE DEF m
    <3> QED BY <1>0, <1>1, <2>1 DEF LinkShape, Wire
  <2> QED BY <2>2, <2>3, <1>0, <1>1 DEF Shape, Step, Shown, Of, Prepared
<1>3. TabSane(s[1], u, lock)
  BY <1>0, <1>1 DEF TabSane, ScopeSane, LinkSane, LockSane, TabType, Idle
<1>4. ScopeSane(s, u, m, node[s], lock, storage)
  <2> HIDE DEF m, u
  <2>1. LinkSane(s[2], u, m, node[s])
    BY <1>0, <1>1 DEF TabSane, ScopeSane, LinkSane, TabType, LinkShape
  <2>2. LockSane(s, u, m, lock, storage)
    BY <1>0, <1>1 DEF TabSane, ScopeSane, LockSane, LinkSane, TabType, LinkShape
  <2>3. NodeSane(s[2], u, m, node[s])
    BY <1>0, <1>1 DEF TabSane, ScopeSane, NodeSane, LinkSane, TabType, LinkShape
  <2> QED BY <2>1, <2>2, <2>3 DEF ScopeSane
<1>5. ASSUME NEW x \in Scope \ {s}, x[1] = s[1]
      PROVE  ScopeSane(x, u, link[x], node[x], lock, storage)
  <2>1. ScopeSane(x, t, link[x], node[x], lock, storage) /\ x[2] # s[2] /\ x[2] \in Nat /\ x[2] # 0
    BY <1>0, <1>5, ScopeFacts DEF Sane
  <2>2. LinkSane(x[2], u, link[x], node[x])
    BY <2>1, <1>0, <1>1 DEF TabSane, ScopeSane, LinkSane, TabType
  <2>3. LockSane(x, u, link[x], lock, storage)
    BY <2>1, <1>0, <1>1 DEF TabSane, ScopeSane, LockSane, TabType
  <2>4. NodeSane(x[2], u, link[x], node[x])
    BY <2>1, <1>0, <1>1 DEF TabSane, ScopeSane, NodeSane, TabType
  <2> QED BY <2>2, <2>3, <2>4 DEF ScopeSane
<1>6. lock' = lock /\ storage' = storage /\ node'[s] = node[s]
  BY <1>1
<1> QED BY <1>1, <1>2, <1>3, <1>4, <1>5, <1>6, OneTab

LEMMA PeerJoinedMoves ==
    ASSUME NEW Q, Shape(Q), Sane, NEW s \in Scope, PeerJoined(s)
    PROVE  Shape(Q)' /\ Sane'
<1> DEFINE t == tab[s[1]]
           l == link[s]
           u == tab'[s[1]]
           m == link'[s]
<1>0. /\ t \in TabType /\ l \in LinkShape(Q) /\ TabSane(s[1], t, lock)
      /\ ScopeSane(s, t, l, node[s], lock, storage)
      /\ s[2] \in Nat /\ s[2] # 0 /\ s[1] \in Tab /\ s = <<s[1], s[2]>>
  BY ScopeTyped, ScopeFacts
<1>1. /\ u = [t EXCEPT !.state = "negotiating", !.channel = s[2]]
      /\ m = [l EXCEPT !.channel = "connecting"]
      /\ l.socket # "none" /\ t.current = s[2] /\ t.channel = 0
      /\ UNCHANGED <<node, lock, storage>> /\ Others(s)
  BY <1>0 DEF Step, Shape, Shown, Of, Current, Others, PeerJoined
<1>2. Shape(Q)'
  <2>1. storage \in Q
    BY ScopeTyped
  <2>2. u \in TabType
    BY <1>0, <1>1 DEF TabType
  <2>3. m \in LinkShape(Q)
    <3> HIDE DEF m
    <3> QED BY <1>0, <1>1, <2>1 DEF LinkShape, Wire
  <2> QED BY <2>2, <2>3, <1>0, <1>1 DEF Shape, Step, Shown, Of, PeerJoined
<1>3. TabSane(s[1], u, lock)
  BY <1>0, <1>1 DEF TabSane, ScopeSane, LinkSane, LockSane, TabType, Idle
<1>4. ScopeSane(s, u, m, node[s], lock, storage)
  <2> HIDE DEF m, u
  <2>1. LinkSane(s[2], u, m, node[s])
    BY <1>0, <1>1 DEF TabSane, ScopeSane, LinkSane, TabType, LinkShape
  <2>2. LockSane(s, u, m, lock, storage)
    BY <1>0, <1>1 DEF TabSane, ScopeSane, LockSane, LinkSane, TabType, LinkShape
  <2>3. NodeSane(s[2], u, m, node[s])
    BY <1>0, <1>1 DEF TabSane, ScopeSane, NodeSane, LinkSane, TabType, LinkShape
  <2> QED BY <2>1, <2>2, <2>3 DEF ScopeSane
<1>5. ASSUME NEW x \in Scope \ {s}, x[1] = s[1]
      PROVE  ScopeSane(x, u, link[x], node[x], lock, storage)
  <2>1. ScopeSane(x, t, link[x], node[x], lock, storage) /\ x[2] # s[2] /\ x[2] \in Nat /\ x[2] # 0
    BY <1>0, <1>5, ScopeFacts DEF Sane
  <2>2. LinkSane(x[2], u, link[x], node[x])
    BY <2>1, <1>0, <1>1 DEF TabSane, ScopeSane, LinkSane, TabType
  <2>3. LockSane(x, u, link[x], lock, storage)
    BY <2>1, <1>0, <1>1 DEF TabSane, ScopeSane, LockSane, TabType
  <2>4. NodeSane(x[2], u, link[x], node[x])
    BY <2>1, <1>0, <1>1 DEF TabSane, ScopeSane, NodeSane, TabType
  <2> QED BY <2>2, <2>3, <2>4 DEF ScopeSane
<1>6. lock' = lock /\ storage' = storage /\ node'[s] = node[s]
  BY <1>1
<1> QED BY <1>1, <1>2, <1>3, <1>4, <1>5, <1>6, OneTab

LEMMA ChannelOpensMoves ==
    ASSUME NEW Q, Shape(Q), Sane, NEW s \in Scope, ChannelOpens(s), Listens(s)
    PROVE  Shape(Q)' /\ Sane'
<1> DEFINE t == tab[s[1]]
           l == link[s]
           u == tab'[s[1]]
           m == link'[s]
<1>0. /\ t \in TabType /\ l \in LinkShape(Q) /\ TabSane(s[1], t, lock)
      /\ ScopeSane(s, t, l, node[s], lock, storage)
      /\ s[2] \in Nat /\ s[2] # 0 /\ s[1] \in Tab /\ s = <<s[1], s[2]>>
  BY ScopeTyped, ScopeFacts
<1>1. /\ u = [t EXCEPT !.authTimer = IF t.authTimer = 0 THEN s[2] ELSE t.authTimer]
      /\ m = [l EXCEPT !.channel = "open"]
      /\ l.channel = "connecting" /\ t.current = s[2]
      /\ UNCHANGED <<node, lock, storage>> /\ Others(s)
  BY <1>0 DEF Step, Shape, Shown, Of, Current, Others, ChannelOpens, Listens, TimeoutStarted
<1>2. Shape(Q)'
  <2>1. storage \in Q
    BY ScopeTyped
  <2>2. u \in TabType
    BY <1>0, <1>1 DEF TabType
  <2>3. m \in LinkShape(Q)
    <3> HIDE DEF m
    <3> QED BY <1>0, <1>1, <2>1 DEF LinkShape, Wire
  <2> QED BY <2>2, <2>3, <1>0, <1>1 DEF Shape, Step, Shown, Of, ChannelOpens, Listens, TimeoutStarted
<1>3. TabSane(s[1], u, lock)
  BY <1>0, <1>1 DEF TabSane, ScopeSane, LinkSane, LockSane, TabType, Idle
<1>4. ScopeSane(s, u, m, node[s], lock, storage)
  <2> HIDE DEF m, u
  <2>1. LinkSane(s[2], u, m, node[s])
    BY <1>0, <1>1 DEF TabSane, ScopeSane, LinkSane, TabType, LinkShape
  <2>2. LockSane(s, u, m, lock, storage)
    BY <1>0, <1>1 DEF TabSane, ScopeSane, LockSane, LinkSane, TabType, LinkShape
  <2>3. NodeSane(s[2], u, m, node[s])
    BY <1>0, <1>1 DEF TabSane, ScopeSane, NodeSane, LinkSane, TabType, LinkShape
  <2> QED BY <2>1, <2>2, <2>3 DEF ScopeSane
<1>5. ASSUME NEW x \in Scope \ {s}, x[1] = s[1]
      PROVE  ScopeSane(x, u, link[x], node[x], lock, storage)
  <2>1. ScopeSane(x, t, link[x], node[x], lock, storage) /\ x[2] # s[2] /\ x[2] \in Nat /\ x[2] # 0
    BY <1>0, <1>5, ScopeFacts DEF Sane
  <2>2. LinkSane(x[2], u, link[x], node[x])
    BY <2>1, <1>0, <1>1 DEF TabSane, ScopeSane, LinkSane, TabType
  <2>3. LockSane(x, u, link[x], lock, storage)
    BY <2>1, <1>0, <1>1 DEF TabSane, ScopeSane, LockSane, TabType
  <2>4. NodeSane(x[2], u, link[x], node[x])
    BY <2>1, <1>0, <1>1 DEF TabSane, ScopeSane, NodeSane, TabType
  <2> QED BY <2>2, <2>3, <2>4 DEF ScopeSane
<1>6. lock' = lock /\ storage' = storage /\ node'[s] = node[s]
  BY <1>1
<1> QED BY <1>1, <1>2, <1>3, <1>4, <1>5, <1>6, OneTab

LEMMA AuthReadyMoves ==
    ASSUME NEW Q, Shape(Q), Sane, NEW s \in Scope, AuthReady(s)
    PROVE  Shape(Q)' /\ Sane'
<1> DEFINE t == tab[s[1]]
           l == link[s]
           u == tab'[s[1]]
           m == link'[s]
<1>0. /\ t \in TabType /\ l \in LinkShape(Q) /\ TabSane(s[1], t, lock)
      /\ ScopeSane(s, t, l, node[s], lock, storage)
      /\ s[2] \in Nat /\ s[2] # 0 /\ s[1] \in Tab /\ s = <<s[1], s[2]>>
  BY ScopeTyped, ScopeFacts
<1>1. /\ u = [t EXCEPT !.authTimer = IF t.authTimer = 0 THEN s[2] ELSE t.authTimer]
      /\ m = [l EXCEPT !.auth = "deriving"]
      /\ l.auth = "none" /\ l.channel = "open" /\ t.current = s[2]
      /\ UNCHANGED <<node, lock, storage>> /\ Others(s)
  BY <1>0 DEF Step, Shape, Shown, Of, Current, Others, AuthReady, Listens, TimeoutStarted
<1>2. Shape(Q)'
  <2>1. storage \in Q
    BY ScopeTyped
  <2>2. u \in TabType
    BY <1>0, <1>1 DEF TabType
  <2>3. m \in LinkShape(Q)
    <3> HIDE DEF m
    <3> QED BY <1>0, <1>1, <2>1 DEF LinkShape, Wire
  <2> QED BY <2>2, <2>3, <1>0, <1>1 DEF Shape, Step, Shown, Of, AuthReady, Listens, TimeoutStarted
<1>3. TabSane(s[1], u, lock)
  BY <1>0, <1>1 DEF TabSane, ScopeSane, LinkSane, LockSane, TabType, Idle
<1>4. ScopeSane(s, u, m, node[s], lock, storage)
  <2> HIDE DEF m, u
  <2>1. LinkSane(s[2], u, m, node[s])
    BY <1>0, <1>1 DEF TabSane, ScopeSane, LinkSane, TabType, LinkShape
  <2>2. LockSane(s, u, m, lock, storage)
    BY <1>0, <1>1 DEF TabSane, ScopeSane, LockSane, LinkSane, TabType, LinkShape
  <2>3. NodeSane(s[2], u, m, node[s])
    BY <1>0, <1>1 DEF TabSane, ScopeSane, NodeSane, LinkSane, TabType, LinkShape
  <2> QED BY <2>1, <2>2, <2>3 DEF ScopeSane
<1>5. ASSUME NEW x \in Scope \ {s}, x[1] = s[1]
      PROVE  ScopeSane(x, u, link[x], node[x], lock, storage)
  <2>1. ScopeSane(x, t, link[x], node[x], lock, storage) /\ x[2] # s[2] /\ x[2] \in Nat /\ x[2] # 0
    BY <1>0, <1>5, ScopeFacts DEF Sane
  <2>2. LinkSane(x[2], u, link[x], node[x])
    BY <2>1, <1>0, <1>1 DEF TabSane, ScopeSane, LinkSane, TabType
  <2>3. LockSane(x, u, link[x], lock, storage)
    BY <2>1, <1>0, <1>1 DEF TabSane, ScopeSane, LockSane, TabType
  <2>4. NodeSane(x[2], u, link[x], node[x])
    BY <2>1, <1>0, <1>1 DEF TabSane, ScopeSane, NodeSane, TabType
  <2> QED BY <2>2, <2>3, <2>4 DEF ScopeSane
<1>6. lock' = lock /\ storage' = storage /\ node'[s] = node[s]
  BY <1>1
<1> QED BY <1>1, <1>2, <1>3, <1>4, <1>5, <1>6, OneTab

LEMMA LockGrantedLate ==
    ASSUME NEW Q, Shape(Q), Sane, NEW s \in Scope, LockGranted(s), ~Current(s)
    PROVE  Shape(Q)' /\ Sane'
<1> DEFINE t == tab[s[1]]
           l == link[s]
           m == link'[s]
<1>0. /\ t \in TabType /\ l \in LinkShape(Q) /\ TabSane(s[1], t, lock)
      /\ ScopeSane(s, t, l, node[s], lock, storage)
      /\ s[2] \in Nat /\ s[2] # 0 /\ s[1] \in Tab /\ s = <<s[1], s[2]>>
  BY ScopeTyped, ScopeFacts
<1>1. /\ m = [l EXCEPT !.step = "over"] /\ l.step = "granted" /\ t.current # s[2]
      /\ lock' = None /\ UNCHANGED <<tab, node, storage>> /\ Others(s)
  BY DEF LockGranted, Step, Shape, Others, Current, Of
<1>2. Shape(Q)'
  <2>1. m \in LinkShape(Q)
    BY <1>0, <1>1 DEF LinkShape
  <2> QED BY <2>1, <1>1 DEF Shape, LockGranted, Step, Current
<1>3. lock = s /\ t.lease = 0 /\ t.cleanup = 0
  BY <1>0, <1>1 DEF ScopeSane, LinkSane, LockSane, NodeSane, TabSane, TabType
<1>4. \A q \in Tab : TabSane(q, tab[q], None)
  <2> TAKE q \in Tab
  <2>1. TabSane(q, tab[q], lock)
    BY DEF Sane
  <2> QED BY <2>1, <1>0, <1>3 DEF TabSane
<1>5. \A x \in Scope \ {s} : ScopeSane(x, tab[x[1]], link[x], node[x], None, storage)
  BY <1>3, ScopeFacts DEF Sane, ScopeSane, LockSane
<1>6. ScopeSane(s, t, m, node[s], None, storage)
  <2> HIDE DEF m
  <2> QED BY <1>0, <1>1, <1>3, ScopeFacts DEF ScopeSane, LinkSane, LockSane, NodeSane, TabSane, LinkShape
<1> QED BY <1>0, <1>1, <1>2, <1>4, <1>5, <1>6, OneScope

LEMMA ConfirmedMoves ==
    ASSUME NEW Q, Shape(Q), Sane, NEW s \in Scope, Confirmed(s), node'[s] = "live", Listens(s),
           link[s].channel = "open", storage' = storage, lock' = lock,
           Shown(s, [Of(s) EXCEPT !.controller = s[2], !.state = "connected",
                                  !.expiry = 0, !.authTimer = 0]),
           node' = [node EXCEPT ![s] = "live"],
           link' = Step(s, "auth", "over")
    PROVE  Shape(Q)' /\ Sane'
<1> DEFINE t == tab[s[1]]
           l == link[s]
           u == tab'[s[1]]
           m == link'[s]
<1>0. /\ t \in TabType /\ l \in LinkShape(Q) /\ TabSane(s[1], t, lock)
      /\ ScopeSane(s, t, l, node[s], lock, storage)
      /\ s[2] \in Nat /\ s[2] # 0 /\ s[1] \in Tab /\ s = <<s[1], s[2]>>
  BY ScopeTyped, ScopeFacts
<1>1. /\ u = [t EXCEPT !.controller = s[2], !.state = "connected", !.expiry = 0, !.authTimer = 0]
      /\ m = [l EXCEPT !.auth = "over"]
      /\ l.auth = "confirming" /\ l.channel = "open" /\ t.current = s[2] /\ t.channel = s[2]
      /\ Others(s)
  BY <1>0 DEF Confirmed, Step, Shape, Shown, Of, Current, Others, Listens
<1>2. Shape(Q)'
  <2>1. u \in TabType
    <3> HIDE DEF u
    <3> QED BY <1>0, <1>1 DEF TabType
  <2>2. m \in LinkShape(Q)
    <3> HIDE DEF m
    <3> QED BY <1>0, <1>1 DEF LinkShape
  <2> QED BY <2>1, <2>2, <1>0, <1>1 DEF Shape, Step, Shown, Of
<1>3. t.lease = s[2] /\ t.controller = 0 /\ node[s] = "none" /\ l.step = "over" /\ t.cleanup = 0
  BY <1>0, <1>1 DEF ScopeSane, LinkSane, NodeSane, TabSane, TabType
<1>4. TabSane(s[1], u, lock)
  <2> HIDE DEF u
  <2> QED BY <1>0, <1>1, <1>3 DEF TabSane, TabType, Idle
<1>5. ScopeSane(s, u, m, "live", lock, storage)
  <2> HIDE DEF m, u
  <2>1. LinkSane(s[2], u, m, "live")
    BY <1>0, <1>1, <1>3 DEF TabSane, ScopeSane, LinkSane, TabType, LinkShape
  <2>2. LockSane(s, u, m, lock, storage)
    BY <1>0, <1>1, <1>3 DEF ScopeSane, LockSane, TabType, LinkShape
  <2>3. NodeSane(s[2], u, m, "live")
    BY <1>0, <1>1, <1>3 DEF ScopeSane, NodeSane, TabType, LinkShape
  <2> QED BY <2>1, <2>2, <2>3 DEF ScopeSane
<1>6. ASSUME NEW x \in Scope \ {s}, x[1] = s[1]
      PROVE  ScopeSane(x, u, link[x], node[x], lock, storage)
  <2>1. ScopeSane(x, t, link[x], node[x], lock, storage) /\ x[2] # s[2] /\ x[2] \in Nat /\ x[2] # 0
    BY <1>0, <1>6, ScopeFacts DEF Sane
  <2> HIDE DEF u
  <2>2. LinkSane(x[2], u, link[x], node[x])
    BY <2>1, <1>0, <1>1, <1>3 DEF TabSane, ScopeSane, LinkSane, TabType
  <2>3. LockSane(x, u, link[x], lock, storage)
    BY <2>1, <1>0, <1>1 DEF TabSane, ScopeSane, LockSane, TabType
  <2>4. NodeSane(x[2], u, link[x], node[x])
    BY <2>1, <1>0, <1>1, <1>3 DEF TabSane, ScopeSane, NodeSane, TabType
  <2> QED BY <2>2, <2>3, <2>4 DEF ScopeSane
<1> QED BY <1>1, <1>2, <1>4, <1>5, <1>6, OneTab

(* The receipts change only while the one scope that holds the lock is on  *)
(* its way out: nobody else holds a list that would become old.            *)
LEMMA WriteReceiptsInv ==
    ASSUME NEW Q, Shape(Q), Sane, NEW s \in Scope, WriteReceipts(s)
    PROVE  (\E R : Shape(R)') /\ Sane'
<1> DEFINE t == tab[s[1]]
           l == link[s]
           u == tab'[s[1]]
           m == link'[s]
<1>0. /\ t \in TabType /\ l \in LinkShape(Q) /\ TabSane(s[1], t, lock)
      /\ ScopeSane(s, t, l, node[s], lock, storage)
      /\ s[2] \in Nat /\ s[2] # 0 /\ s[1] \in Tab /\ s = <<s[1], s[2]>>
  BY ScopeTyped, ScopeFacts
<1>1. /\ u = [t EXCEPT !.cleanup = IF t.cleanup = s[2] THEN 0 ELSE t.cleanup]
      /\ m = [l EXCEPT !.close = "none", !.stored = << >>]
      /\ l.close = "storing" /\ lock' = None /\ node' = node /\ Others(s)
  BY <1>0 DEF WriteReceipts, Released, Shape, Shown, Of, Others
<1>2. t.cleanup = s[2] /\ t.current = 0 /\ lock = s
  BY <1>0, <1>1 DEF ScopeSane, NodeSane, TabSane
<1>3. \E R : Shape(R)'
  <2>0. PICK R : R = Q \cup {storage'}
    OBVIOUS
  <2>1. u \in TabType
    BY <1>0, <1>1 DEF TabType
  <2>2. link \in [Scope -> LinkShape(R)] /\ << >> \in R /\ storage' \in R /\ << >> \in Q
    BY <2>0 DEF Shape, LinkShape
  <2>3. m \in LinkShape(R)
    <3>1. l \in LinkShape(R)
      BY <2>2
    <3> HIDE DEF m
    <3> QED BY <1>1, <2>2, <3>1 DEF LinkShape
  <2>4. tab' \in [Tab -> TabType]
    BY <1>0, <2>1 DEF WriteReceipts, Released, Shape, Shown, Of
  <2>5. link' \in [Scope -> LinkShape(R)]
    BY <2>2, <2>3 DEF WriteReceipts
  <2>6. node' \in [Scope -> {"none", "live", "disposing", "quiet", "gone"}] /\ lock' \in Scope \cup {None}
    BY <1>1 DEF Shape
  <2>7. Shape(R)'
    BY <2>2, <2>4, <2>5, <2>6 DEF Shape
  <2> QED BY <2>7
<1>4. \A q \in Tab \ {s[1]} : TabSane(q, tab[q], None)
  <2> TAKE q \in Tab \ {s[1]}
  <2>1. TabSane(q, tab[q], lock)
    BY DEF Sane
  <2> QED BY <2>1, <1>0, <1>2 DEF TabSane
<1>5. TabSane(s[1], u, None)
  <2> HIDE DEF u
  <2> QED BY <1>0, <1>1, <1>2 DEF TabSane, TabType
<1>6. ASSUME NEW x \in Scope \ {s}
      PROVE  ScopeSane(x, tab'[x[1]], link[x], node[x], None, storage')
  <2>1. /\ ScopeSane(x, tab[x[1]], link[x], node[x], lock, storage)
        /\ TabSane(x[1], tab[x[1]], lock)
        /\ x[2] \in Nat /\ x[2] # 0 /\ x = <<x[1], x[2]>> /\ lock # x /\ x # None
        /\ tab[x[1]] \in TabType
    BY <1>2, ScopeFacts DEF Sane, Shape
  <2>2. link[x].step # "granted" /\ link[x].close # "storing" /\ tab[x[1]].lease # x[2]
        /\ tab[x[1]].cleanup # x[2]
    BY <2>1 DEF ScopeSane, LockSane, NodeSane, TabSane
  <2>3. CASE x[1] # s[1]
    <3>1. tab'[x[1]] = tab[x[1]]
      BY <2>3, <1>1, ScopeFacts DEF Others
    <3> QED BY <2>1, <2>2, <3>1 DEF ScopeSane, LockSane
  <2>4. CASE x[1] = s[1]
    <3>1. /\ u.started = t.started /\ u.current = t.current /\ u.lease = t.lease
          /\ u.socket = t.socket /\ u.channel = t.channel /\ u.controller = t.controller
          /\ u.cleanup = 0 /\ tab'[x[1]] = u /\ tab[x[1]] = t
      BY <1>0, <1>1, <1>2, <2>4 DEF TabType
    <3> HIDE DEF u, t
    <3>2. LinkSane(x[2], u, link[x], node[x])
      BY <2>1, <3>1 DEF ScopeSane, LinkSane
    <3>3. LockSane(x, u, link[x], None, storage')
      BY <2>1, <2>2, <3>1 DEF ScopeSane, LockSane
    <3>4. NodeSane(x[2], u, link[x], node[x])
      BY <2>1, <2>2, <3>1 DEF ScopeSane, NodeSane
    <3> QED BY <3>1, <3>2, <3>3, <3>4 DEF ScopeSane
  <2> QED BY <2>3, <2>4
<1>7. ScopeSane(s, u, m, node[s], None, storage')
  <2>1. /\ u.started = t.started /\ u.current = 0 /\ u.lease = 0
        /\ u.socket = t.socket /\ u.channel = t.channel /\ u.controller = t.controller
        /\ u.cleanup = 0 /\ s # None
        /\ m.close = "none" /\ m.step = l.step /\ m.socket = l.socket /\ m.channel = l.channel
        /\ m.auth = l.auth /\ node[s] = "quiet"
    BY <1>0, <1>1, <1>2, ScopeFacts DEF TabType, LinkShape, TabSane, ScopeSane, NodeSane
  <2> HIDE DEF u, m
  <2>2. LinkSane(s[2], u, m, node[s])
    BY <1>0, <1>1, <1>2, <2>1 DEF ScopeSane, LinkSane, TabType
  <2>3. LockSane(s, u, m, None, storage')
    BY <1>0, <1>1, <1>2, <2>1 DEF ScopeSane, LinkSane, LockSane
  <2>4. NodeSane(s[2], u, m, node[s])
    BY <1>0, <1>2, <2>1 DEF NodeSane
  <2> QED BY <2>2, <2>3, <2>4 DEF ScopeSane
<1> QED BY <1>1, <1>3, <1>4, <1>5, <1>6, <1>7, OneScope

LEMMA CrashInv ==
    ASSUME NEW Q, Shape(Q), Sane, NEW p \in Tab, Crash(p)
    PROVE  Shape(Q)' /\ Sane'
<1> DEFINE t == tab[p]
           u == Fresh(t.started)
           m(x) == [Unused EXCEPT !.reclaim = link[x].reclaim]
<1>0. t \in TabType /\ \A x \in Scope : link[x] \in LinkShape(Q)
  BY DEF Shape
<1>1. /\ tab' = [tab EXCEPT ![p] = u]
      /\ link' = [x \in Scope |-> IF x[1] = p THEN m(x) ELSE link[x]]
      /\ node' = [x \in Scope |-> IF x[1] = p /\ node[x] \in {"live", "disposing"} THEN "gone"
                                  ELSE node[x]]
      /\ lock' = IF lock # None /\ lock[1] = p THEN None ELSE lock
      /\ storage' = storage
  BY DEF Crash
<1>2. u \in TabType /\ \A x \in Scope : m(x) \in LinkShape(Q)
  <2>1. << >> \in Q
    BY DEF Shape
  <2> QED BY <1>0, <2>1 DEF Fresh, TabType, Idle, Unused, LinkShape, Wire
<1>3. Shape(Q)'
  <2>1. /\ tab \in [Tab -> TabType] /\ link \in [Scope -> LinkShape(Q)]
        /\ node \in [Scope -> {"none", "live", "disposing", "quiet", "gone"}]
        /\ lock \in Scope \cup {None} /\ storage \in Q /\ << >> \in Q
    BY DEF Shape
  <2> HIDE DEF u, m
  <2> QED BY <1>1, <1>2, <2>1 DEF Shape
<1>4. \A q \in Tab : TabSane(q, tab'[q], lock')
  <2> TAKE q \in Tab
  <2>1. TabSane(q, tab[q], lock)
    BY DEF Sane
  <2>2. CASE q = p
    <3>1. tab'[q] = u
      BY <1>1, <2>2 DEF Shape
    <3> QED BY <3>1 DEF TabSane, Fresh, Idle
  <2>3. CASE q # p
    <3>1. tab'[q] = tab[q]
      BY <1>1, <2>3 DEF Shape
    <3> QED BY <1>1, <2>1, <2>3, <3>1 DEF TabSane
  <2> QED BY <2>2, <2>3
<1>5. \A x \in Scope : ScopeSane(x, tab'[x[1]], link'[x], node'[x], lock', storage')
  <2> TAKE x \in Scope
  <2>1. /\ ScopeSane(x, tab[x[1]], link[x], node[x], lock, storage)
        /\ x[1] \in Tab /\ x[2] \in Nat /\ x[2] # 0 /\ x # None
        /\ node[x] \in {"none", "live", "disposing", "quiet", "gone"}
    BY ScopeFacts DEF Sane, Shape
  <2>2. CASE x[1] = p
    <3>1. tab'[x[1]] = u /\ link'[x] = m(x) /\ lock' # x
      BY <1>1, <2>1, <2>2 DEF Shape
    <3>2. node'[x] \notin {"live", "disposing"} /\ (node[x] = "none" => node'[x] = "none")
      BY <1>1, <2>1, <2>2
    <3>3. /\ u.started = t.started /\ u.current = 0 /\ u.lease = 0 /\ u.socket = 0 /\ u.channel = 0
          /\ u.controller = 0 /\ u.cleanup = 0
          /\ m(x).step = "none" /\ m(x).socket = "none" /\ m(x).channel = "none"
          /\ m(x).auth = "none" /\ m(x).close = "none"
      BY DEF Fresh, Unused
    <3>4. x[2] > t.started => node[x] = "none"
      BY <2>1, <2>2 DEF ScopeSane, LinkSane
    <3> HIDE DEF u, m
    <3> QED BY <2>1, <3>1, <3>2, <3>3, <3>4 DEF ScopeSane, LinkSane, LockSane, NodeSane
  <2>3. CASE x[1] # p
    <3>1. tab'[x[1]] = tab[x[1]] /\ link'[x] = link[x] /\ node'[x] = node[x]
      BY <1>1, <2>1, <2>3 DEF Shape
    <3>2. lock' = lock \/ (lock' = None /\ lock # x)
      BY <1>1, <2>3
    <3> QED BY <1>1, <2>1, <3>1, <3>2 DEF ScopeSane, LockSane
  <2> QED BY <2>2, <2>3
<1> QED BY <1>3, <1>4, <1>5 DEF Sane

LEMMA CancelInv ==
    ASSUME NEW Q, Shape(Q), Sane, NEW p \in Tab, CancelConnection(p)
    PROVE  Shape(Q)' /\ Sane'
<1>1. tab[p].current # 0
  BY DEF CancelConnection, Sane, TabSane
<1>2. link \in [Scope -> LinkShape(Q)] /\ \A x \in Scope : LinkEnds(link[x], link[x])
  BY DEF Shape, LinkEnds
<1>3. "idle" \in Idle /\ Dispose(p, "idle", link) /\ storage' = storage
  BY DEF CancelConnection, Idle
<1> QED BY <1>1, <1>2, <1>3, DisposeInv

-----------------------------------------------------------------------------
(* Every step keeps the invariant.                                         *)
LEMMA ScopeStepInv ==
    ASSUME NEW Q, Shape(Q), Sane, NEW s \in Scope, Resumes(s) \/ Event(s)
    PROVE  Shape(Q)' /\ Sane'
<1>1. CASE LockGranted(s)
  BY <1>1, LockGrantedMoves, LockGrantedLate
<1>2. CASE \/ LockRefused(s) \/ Trouble(s) \/ SocketCloses(s) \/ ChannelCloses(s)
           \/ AuthTimeout(s) \/ PairingExpires(s)
  BY <1>2, FailuresInv
<1>3. CASE Challenged(s) \/ AuthResponse(s) \/ ReadReceipts(s) \/ NodeCloses(s)
  BY <1>3, ChallengedInv, AuthResponseInv, ReadReceiptsInv, NodeClosesInv
<1>4. CASE PeerJoined(s) \/ AuthReady(s)
  BY <1>4, PeerJoinedMoves, AuthReadyMoves
<1>5. CASE Confirmed(s)
  <2>1. CASE Fail(s, Step(s, "auth", "over"))
    <3>1. storage' = storage /\ link[s].auth \in {"deriving", "challenged", "confirming"}
      BY <1>5 DEF Confirmed
    <3> QED BY <2>1, <3>1, FailNoted
  <2>2. CASE ~Fail(s, Step(s, "auth", "over"))
    <3>1. /\ Listens(s) /\ link[s].channel = "open" /\ storage' = storage /\ lock' = lock
          /\ Shown(s, [Of(s) EXCEPT !.controller = s[2], !.state = "connected",
                                    !.expiry = 0, !.authTimer = 0])
          /\ node' = [node EXCEPT ![s] = "live"]
          /\ link' = Step(s, "auth", "over")
      BY <1>5, <2>2 DEF Confirmed
    <3>2. node'[s] = "live"
      BY <3>1 DEF Shape
    <3> QED BY <1>5, <3>1, <3>2, ConfirmedMoves
  <2> QED BY <2>1, <2>2
<1>6. CASE Prepared(s)
  <2>1. CASE Fail(s, Step(s, "step", "over"))
    <3>1. storage' = storage /\ link[s].step \in {"refused", "preparing"}
      BY <1>6 DEF Prepared
    <3> QED BY <2>1, <3>1, FailNoted
  <2>2. CASE ~Fail(s, Step(s, "step", "over"))
    <3>1. /\ Current(s) /\ UNCHANGED <<node, lock>>
          /\ Shown(s, [Of(s) EXCEPT !.state = "waiting", !.socket = s[2], !.expiry = s[2]])
          /\ link' = [link EXCEPT ![s].step = "over", ![s].socket = "open"]
      BY <1>6, <2>2 DEF Prepared
    <3> QED BY <1>6, <3>1, PreparedMoves
  <2> QED BY <2>1, <2>2
<1>7. CASE ChannelOpens(s)
  <2>1. CASE Listens(s)
    BY <1>7, <2>1, ChannelOpensMoves
  <2>2. CASE ~Listens(s)
    <3> DEFINE m == link'[s]
    <3>1. /\ m = [link[s] EXCEPT !.channel = "open"] /\ link[s].channel = "connecting"
          /\ UNCHANGED <<tab, node, lock, storage>> /\ Others(s)
          /\ link' = [link EXCEPT ![s] = m]
      BY <1>7, <2>2 DEF ChannelOpens, Step, Shape, Others
    <3>2. m \in LinkShape(Q)
      <4>1. link[s] \in LinkShape(Q)
        BY DEF Shape
      <4> HIDE DEF m
      <4> QED BY <3>1, <4>1 DEF LinkShape, Wire
    <3>3. Shape(Q)'
      BY <3>1, <3>2 DEF Shape
    <3>4. ScopeSane(s, tab[s[1]], m, node[s], lock, storage)
      <4>1. link[s] \in LinkShape(Q) /\ ScopeSane(s, tab[s[1]], link[s], node[s], lock, storage)
        BY DEF Shape, Sane
      <4> HIDE DEF m
      <4> QED BY <3>1, <4>1 DEF ScopeSane, LinkSane, LockSane, NodeSane, LinkShape
    <3> QED BY <3>1, <3>3, <3>4, OneLink
  <2> QED BY <2>1, <2>2
<1> QED BY <1>1, <1>2, <1>3, <1>4, <1>5, <1>6, <1>7 DEF Resumes, Event

LEMMA StepInv == Inv /\ [Next]_vars => Inv'
<1> SUFFICES ASSUME Inv, [Next]_vars PROVE Inv'
  OBVIOUS
<1>0. PICK Q : Shape(Q)
  BY DEF Inv
<1>1. Sane
  BY DEF Inv
<1>2. CASE UNCHANGED vars
  BY <1>0, <1>1, <1>2 DEF vars, Inv, Shape, Sane
<1>3. ASSUME NEW p \in Tab, CreateLink(p) \/ CancelConnection(p) \/ Crash(p)
      PROVE  Inv'
  <2>1. Shape(Q)' /\ Sane'
    BY <1>0, <1>1, <1>3, CreateLinkInv, CancelInv, CrashInv
  <2> QED BY <2>1 DEF Inv
<1>4. ASSUME NEW s \in Scope, Resumes(s) \/ Event(s)
      PROVE  Inv'
  <2>1. Shape(Q)' /\ Sane'
    BY <1>0, <1>1, <1>4, ScopeStepInv
  <2> QED BY <2>1 DEF Inv
<1>5. ASSUME NEW s \in Scope, Outside(s)
      PROVE  Inv'
  <2>1. CASE LockAnswers(s) \/ ChannelBreaks(s) \/ NodeQuiesces(s)
    <3>1. Shape(Q)' /\ Sane'
      BY <1>0, <1>1, <2>1, LockAnswersInv, ChannelBreaksInv, NodeQuiescesInv
    <3> QED BY <3>1 DEF Inv
  <2>2. CASE WriteReceipts(s)
    <3>1. (\E R : Shape(R)') /\ Sane'
      BY <1>0, <1>1, <2>2, WriteReceiptsInv
    <3> QED BY <3>1 DEF Inv
  <2> QED BY <1>5, <2>1, <2>2 DEF Outside
<1> QED BY <1>2, <1>3, <1>4, <1>5 DEF Next

(* The fields of every tab, its links, its nodes, the lock and the receipt *)
(* list fit together in every reachable state.                             *)
THEOREM Invariance == Spec => []Inv
<1> QED BY InitInv, StepInv, PTL DEF Spec

-----------------------------------------------------------------------------
(* An attempt that is over has left no timer, socket, channel, live node   *)
(* or lock behind, and a connected tab holds the lock under this very      *)
(* attempt (disposeConnection and the guards of every listener).           *)
THEOREM NothingLeft == Spec => []NothingLeftBehind
<1>1. Inv => NothingLeftBehind
  <2> SUFFICES ASSUME Inv PROVE NothingLeftBehind
    OBVIOUS
  <2>1. ASSUME NEW p \in Tab
        PROVE  LET t == tab[p]
               IN  /\ t.current = 0 <=> t.state \in Idle
                   /\ {t.lease, t.socket, t.channel, t.controller, t.expiry, t.authTimer}
                        \subseteq {0, t.current}
                   /\ t.controller # 0 <=> t.state = "connected"
                   /\ t.state = "connected" => lock = <<p, t.lease>> /\ t.expiry = 0 /\ t.authTimer = 0
    <3>1. TabSane(p, tab[p], lock)
      BY DEF Inv, Sane
    <3> QED BY <3>1 DEF TabSane
  <2>2. ASSUME NEW s \in Scope
        PROVE  /\ link[s].socket = "open" => Of(s).socket = s[2]
               /\ link[s].channel \in {"connecting", "open"} => Of(s).channel = s[2]
               /\ node[s] = "live" => Of(s).controller = s[2]
               /\ lock = s => s[2] \in {Of(s).lease, Of(s).cleanup} \/ link[s].step = "granted"
    BY DEF Inv, Sane, ScopeSane, LinkSane, LockSane, NodeSane, Of
  <2> QED BY <2>1, <2>2 DEF NothingLeftBehind
<1> QED BY <1>1, Invariance, PTL

(* What arrives for an attempt that is over changes nothing the user or    *)
(* the next attempt has; at most it gives the lock back                    *)
(* (assertCurrentAttempt, and the guards of the listeners).                *)
THEOREM StaleInert == Spec => StaleAttemptsAreInert
<1>1. ASSUME NEW s \in Scope, ~Current(s), link[s].close # "waiting", Resumes(s) \/ Event(s)
      PROVE  UNCHANGED <<tab, storage>> /\ lock' \in {lock, None}
  <2>1. \A links : Fail(s, links) => UNCHANGED <<tab, lock>>
    BY <1>1 DEF Fail
  <2>2. CASE LockGranted(s) \/ LockRefused(s)
    BY <1>1, <2>1, <2>2 DEF LockGranted, LockRefused
  <2>3. CASE Challenged(s) \/ Confirmed(s) \/ AuthReady(s) \/ AuthResponse(s)
    BY <1>1, <2>1, <2>3 DEF Challenged, Confirmed, AuthReady, AuthResponse, Listens
  <2>4. CASE AuthTimeout(s) \/ PairingExpires(s) \/ Prepared(s) \/ Trouble(s)
    BY <1>1, <2>1, <2>4 DEF AuthTimeout, PairingExpires, Prepared, Trouble
  <2>5. CASE SocketCloses(s) \/ ChannelOpens(s) \/ ChannelCloses(s) \/ PeerJoined(s)
    BY <1>1, <2>1, <2>5 DEF SocketCloses, ChannelOpens, ChannelCloses, PeerJoined, Listens
  <2>6. CASE NodeCloses(s) \/ ReadReceipts(s)
    BY <1>1, <2>6 DEF NodeCloses, ReadReceipts
  <2> QED BY <1>1, <2>2, <2>3, <2>4, <2>5, <2>6 DEF Resumes, Event
<1>2. [Next]_vars =>
        [\A s \in Scope :
           ~Current(s) /\ link[s].close # "waiting" /\ (Resumes(s) \/ Event(s))
              => UNCHANGED <<tab, storage>> /\ lock' \in {lock, None}]_vars
  BY <1>1
<1> QED BY <1>2, PTL DEF Spec, StaleAttemptsAreInert

-----------------------------------------------------------------------------
(* The refinement of NodePromise.                                          *)

AtWork == {s \in Scope : node[s] \in {"live", "disposing"}}
AtRest == {s \in Scope : node[s] = "quiet"}
Told == [s \in Scope |-> IF node[s] = "none" THEN << >> ELSE link[s].reclaim]

(* The promise does not see the difference. *)
SameNode(s) ==
    /\ node'[s] \in {"live", "disposing"} <=> node[s] \in {"live", "disposing"}
    /\ node'[s] = "quiet" <=> node[s] = "quiet"
    /\ node'[s] = "none" <=> node[s] = "none"
    /\ node[s] # "none" => link'[s].reclaim = link[s].reclaim

LEMMA SameNodes ==
    ASSUME \A s \in Scope : SameNode(s)
    PROVE  AtWork' = AtWork /\ AtRest' = AtRest /\ Told' = Told
<1>1. AtWork' = AtWork /\ AtRest' = AtRest
  BY DEF AtWork, AtRest, SameNode
<1>2. Told' = Told
  BY DEF Told, SameNode
<1> QED BY <1>1, <1>2

LEMMA Quietly ==
    ASSUME \A s \in Scope : SameNode(s), lock' = lock, storage' = storage
    PROVE  UNCHANGED Kept!vars
BY SameNodes DEF Kept!vars, AtWork, AtRest, Told

(* A scope whose node is not at work leaves, with or without a receipt.    *)
LEMMA Leaves ==
    ASSUME NEW s \in Scope, lock = s, lock' = None, node[s] \notin {"live", "disposing"},
           \A x \in Scope : SameNode(x),
           storage' = storage \/ (node[s] = "quiet" /\ storage' = Kept!Noting(storage, s))
    PROVE  Kept!Next
<1>1. Kept!Leave(s)
  BY SameNodes DEF Kept!Leave, AtWork, AtRest, Told
<1> QED BY <1>1 DEF Kept!Next

LEMMA SameNote ==
    ASSUME NEW q, NEW x
    PROVE  Appending(q, x) = Kept!Noting(q, x)
BY DEF Appending, Kept!Noting, Last, Kept!Last

(* Whoever works holds the lock.                                           *)
LEMMA WorkersHold ==
    ASSUME Sane, NEW s \in Scope, node[s] \in {"live", "disposing"}
    PROVE  lock = s /\ tab[s[1]].current \in {0, s[2]}
BY ScopeFacts DEF Sane, ScopeSane, NodeSane, TabSane

LEMMA DisposePromise ==
    ASSUME NEW Q, Shape(Q), Sane, NEW p \in Tab, tab[p].current # 0, NEW shown,
           NEW links \in [Scope -> LinkShape(Q)],
           \A x \in Scope : links[x].reclaim = link[x].reclaim,
           Dispose(p, shown, links), storage' = storage
    PROVE  Kept!Next \/ UNCHANGED Kept!vars
<1> DEFINE t == tab[p]
<1>1. \A x \in Scope : /\ link'[x].reclaim = link[x].reclaim
                       /\ node'[x] = IF x = <<p, t.controller>> THEN DisposedNode(node[x]) ELSE node[x]
  <2> TAKE x \in Scope
  <2>1. links[x] \in LinkShape(Q)
    OBVIOUS
  <2>2. link'[x] = IF x[1] # p THEN links[x] ELSE LeftLink(x, t, links[x])
    BY DEF Dispose, LeftLink, Serves
  <2>3. LeftLink(x, t, links[x]).reclaim = links[x].reclaim
    BY <2>1 DEF LeftLink, LinkShape
  <2>4. node'[x] = IF x = <<p, t.controller>> THEN DisposedNode(node[x]) ELSE node[x]
    BY DEF Dispose
  <2> QED BY <2>2, <2>3, <2>4
<1>2. \A x \in Scope : SameNode(x)
  BY <1>1 DEF SameNode, DisposedNode
<1>3. CASE lock' = lock
  BY <1>2, <1>3, Quietly
<1>4. CASE lock' # lock
  <2>1. lock = <<p, t.lease>> /\ ~Serves(t) /\ lock' = None
    BY <1>4 DEF Dispose, Serves
  <2>2. lock \in Scope /\ lock[1] = p /\ lock[2] = t.lease
    BY <1>4, <2>1 DEF Shape
  <2>3. node[lock] \notin {"live", "disposing"}
    BY <2>1, <2>2, ScopeFacts DEF Sane, ScopeSane, NodeSane, TabSane, Serves
  <2>4. PICK s \in Scope : lock = s
    BY <2>2
  <2> QED BY <1>2, <2>1, <2>3, <2>4, Leaves
<1> QED BY <1>3, <1>4

LEMMA FailPromise ==
    ASSUME NEW Q, Shape(Q), Sane, NEW s \in Scope, NEW links \in [Scope -> LinkShape(Q)],
           \A x \in Scope : links[x].reclaim = link[x].reclaim,
           Fail(s, links), storage' = storage
    PROVE  Kept!Next \/ UNCHANGED Kept!vars
<1>1. CASE Current(s) /\ Of(s).state \notin Idle
  <2>1. Dispose(s[1], "error", links) /\ s[1] \in Tab /\ tab[s[1]].current # 0
    BY <1>1, ScopeFacts DEF Fail, Current, Of
  <2> QED BY <2>1, DisposePromise
<1>2. CASE ~(Current(s) /\ Of(s).state \notin Idle)
  <2>1. link' = links /\ UNCHANGED <<tab, node, lock, storage>>
    BY <1>2 DEF Fail
  <2>2. \A x \in Scope : SameNode(x)
    BY <2>1 DEF SameNode
  <2> QED BY <2>1, <2>2, Quietly
<1> QED BY <1>1, <1>2

(* One link moves and keeps what its phone will be told. *)
LEMMA MovePromise ==
    ASSUME NEW s \in Scope, UNCHANGED <<node, lock, storage>>,
           \A x \in Scope : link'[x].reclaim = link[x].reclaim
    PROVE  UNCHANGED Kept!vars
<1>1. \A x \in Scope : SameNode(x)
  BY DEF SameNode
<1> QED BY <1>1, Quietly

(* A step of link s alone that leaves reclaim as it is. *)
LEMMA StepKeepsTold ==
    ASSUME NEW Q, Shape(Q), NEW s \in Scope, NEW field \in {"step", "socket", "channel", "auth"},
           NEW v, v \in (IF field = "step" THEN {"locking", "granted", "refused", "over"}
                         ELSE IF field = "auth" THEN {"deriving", "challenged", "confirming", "over"}
                         ELSE Wire)
    PROVE  /\ Step(s, field, v) \in [Scope -> LinkShape(Q)]
           /\ \A x \in Scope : Step(s, field, v)[x].reclaim = link[x].reclaim
<1>0. link[s] \in LinkShape(Q) /\ link \in [Scope -> LinkShape(Q)]
  BY DEF Shape
<1> DEFINE m == [link[s] EXCEPT ![field] = v]
<1>1. m \in LinkShape(Q) /\ m.reclaim = link[s].reclaim
  <2>1. CASE field = "step" BY <2>1, <1>0 DEF LinkShape
  <2>2. CASE field = "socket" BY <2>2, <1>0 DEF LinkShape
  <2>3. CASE field = "channel" BY <2>3, <1>0 DEF LinkShape
  <2>4. CASE field = "auth" BY <2>4, <1>0 DEF LinkShape
  <2> QED BY <2>1, <2>2, <2>3, <2>4
<1>2. Step(s, field, v) = [link EXCEPT ![s] = m]
  BY DEF Step
<1> HIDE DEF m
<1> QED BY <1>0, <1>1, <1>2

LEMMA EventPromise ==
    ASSUME NEW Q, Shape(Q), Sane, NEW s \in Scope, Resumes(s) \/ Event(s)
    PROVE  Kept!Next \/ UNCHANGED Kept!vars
<1>0. /\ link[s] \in LinkShape(Q) /\ ScopeSane(s, tab[s[1]], link[s], node[s], lock, storage)
      /\ TabSane(s[1], tab[s[1]], lock) /\ s[2] # 0 /\ s # None
      /\ link \in [Scope -> LinkShape(Q)]
      /\ {"closed", "connecting", "open", "closeEvent"} \subseteq Wire
  BY ScopeTyped, ScopeFacts DEF Shape, Wire
<1>1. CASE /\ storage' = storage
           /\ \/ Fail(s, link) \/ Fail(s, Step(s, "step", "over")) \/ Fail(s, Step(s, "auth", "over"))
              \/ Fail(s, Step(s, "socket", "closed")) \/ Fail(s, Step(s, "channel", "closed"))
  <2>1. \A links \in [Scope -> LinkShape(Q)] :
          /\ \A x \in Scope : links[x].reclaim = link[x].reclaim
          /\ Fail(s, links)
          => Kept!Next \/ UNCHANGED Kept!vars
    BY <1>1, FailPromise
  <2>2. CASE Fail(s, link)
    BY <1>0, <2>1, <2>2
  <2>3. CASE Fail(s, Step(s, "step", "over"))
    BY <2>1, <2>3, StepKeepsTold
  <2>4. CASE Fail(s, Step(s, "auth", "over"))
    BY <2>1, <2>4, StepKeepsTold
  <2>5. CASE Fail(s, Step(s, "socket", "closed"))
    BY <1>0, <2>1, <2>5, StepKeepsTold
  <2>6. CASE Fail(s, Step(s, "channel", "closed"))
    BY <1>0, <2>1, <2>6, StepKeepsTold
  <2> QED BY <1>1, <2>2, <2>3, <2>4, <2>5, <2>6
<1>2. ASSUME NEW field \in {"step", "socket", "channel", "auth"}, NEW v,
             v \in (IF field = "step" THEN {"locking", "granted", "refused", "over"}
                    ELSE IF field = "auth" THEN {"deriving", "challenged", "confirming", "over"}
                    ELSE Wire),
             link' = Step(s, field, v), UNCHANGED <<node, lock, storage>>
      PROVE  UNCHANGED Kept!vars
  BY <1>2, StepKeepsTold, MovePromise
<1>3. CASE LockRefused(s) \/ Trouble(s) \/ AuthTimeout(s) \/ PairingExpires(s)
  BY <1>1, <1>3 DEF LockRefused, Trouble, AuthTimeout, PairingExpires
<1>4. CASE Challenged(s)
  BY <1>1, <1>2, <1>4 DEF Challenged
<1>5. CASE AuthResponse(s)
  BY <1>1, <1>2, <1>5 DEF AuthResponse
<1>6. CASE SocketCloses(s)
  BY <1>0, <1>1, <1>2, <1>6 DEF SocketCloses
<1>7. CASE ChannelCloses(s)
  BY <1>0, <1>1, <1>2, <1>7 DEF ChannelCloses
<1>8. CASE ChannelOpens(s) \/ PeerJoined(s)
  BY <1>0, <1>2, <1>8 DEF ChannelOpens, PeerJoined
<1>9. CASE AuthReady(s)
  BY <1>2, <1>9 DEF AuthReady
<1>10. CASE Prepared(s)
  <2>1. CASE Fail(s, Step(s, "step", "over"))
    BY <1>1, <1>10, <2>1 DEF Prepared
  <2>2. CASE link' = [link EXCEPT ![s].step = "over", ![s].socket = "open"] /\ UNCHANGED <<node, lock>>
    <3>1. \A x \in Scope : link'[x].reclaim = link[x].reclaim
      BY <1>0, <2>2 DEF LinkShape
    <3>2. storage' = storage
      BY <1>10 DEF Prepared
    <3> QED BY <2>2, <3>1, <3>2, MovePromise
  <2> QED BY <1>10, <2>1, <2>2 DEF Prepared
<1>11. CASE ReadReceipts(s)
  <2>1. \A x \in Scope : link'[x].reclaim = link[x].reclaim
    BY <1>0, <1>11 DEF ReadReceipts, LinkShape
  <2> QED BY <1>11, <2>1, MovePromise DEF ReadReceipts
<1>12. CASE NodeCloses(s)
  <2>1. \A x \in Scope : link'[x].reclaim = link[x].reclaim
    BY <1>0, <1>12 DEF NodeCloses, Step, LinkShape
  <2>2. \A x \in Scope : SameNode(x)
    BY <1>12, <2>1 DEF NodeCloses, Shape, SameNode
  <2> QED BY <1>12, <2>2, Quietly DEF NodeCloses
<1>13. CASE LockGranted(s)
  <2>1. link[s].step = "granted" /\ lock = s /\ node[s] = "none" /\ UNCHANGED <<node, storage>>
    BY <1>0, <1>13 DEF LockGranted, ScopeSane, LinkSane, LockSane
  <2>2. \A x \in Scope : x # s => link'[x] = link[x]
    BY <1>0, <1>13 DEF LockGranted, Step
  <2>3. \A x \in Scope : SameNode(x)
    BY <2>1, <2>2 DEF SameNode
  <2>4. CASE Current(s)
    BY <1>13, <2>1, <2>3, <2>4, Quietly DEF LockGranted
  <2>5. CASE ~Current(s)
    <3>1. lock' = None
      BY <1>13, <2>5 DEF LockGranted
    <3> QED BY <2>1, <2>3, <3>1, Leaves
  <2> QED BY <2>4, <2>5
<1>14. CASE Confirmed(s)
  <2>1. CASE Fail(s, Step(s, "auth", "over"))
    BY <1>1, <1>14, <2>1 DEF Confirmed
  <2>2. CASE ~Fail(s, Step(s, "auth", "over"))
    <3>1. /\ Current(s) /\ link[s].auth = "confirming" /\ UNCHANGED <<lock, storage>>
          /\ node' = [node EXCEPT ![s] = "live"] /\ link' = Step(s, "auth", "over")
      BY <1>14, <2>2 DEF Confirmed, Listens
    <3>2. /\ tab[s[1]].lease = s[2] /\ tab[s[1]].controller = 0 /\ node[s] = "none"
          /\ link[s].reclaim = storage
      BY <1>0, <3>1 DEF ScopeSane, LinkSane, LockSane, NodeSane, Current, Of
    <3>3. lock = s
      BY <1>0, <3>2, ScopeFacts DEF TabSane
    <3>4. AtWork = {}
      BY <3>2, <3>3, WorkersHold DEF AtWork
    <3>5. \A x \in Scope : link'[x].reclaim = link[x].reclaim
      BY <3>1, StepKeepsTold
    <3>6. node \in [Scope -> {"none", "live", "disposing", "quiet", "gone"}]
      BY DEF Shape
    <3>7. AtWork' = {s} /\ AtRest' = AtRest /\ s \notin AtRest
      BY <3>1, <3>2, <3>4, <3>6 DEF AtWork, AtRest
    <3>8. Told' = [Told EXCEPT ![s] = storage]
      BY <3>1, <3>2, <3>5, <3>6 DEF Told
    <3>9. Kept!Serve(s)
      BY <3>1, <3>3, <3>4, <3>7, <3>8 DEF Kept!Serve, AtWork, AtRest, Told
    <3> QED BY <3>9 DEF Kept!Next
  <2> QED BY <2>1, <2>2
<1> QED BY <1>3, <1>4, <1>5, <1>6, <1>7, <1>8, <1>9, <1>10, <1>11, <1>12, <1>13, <1>14
        DEF Resumes, Event

LEMMA OutsidePromise ==
    ASSUME NEW Q, Shape(Q), Sane, NEW s \in Scope, Outside(s)
    PROVE  Kept!Next \/ UNCHANGED Kept!vars
<1>0. /\ link[s] \in LinkShape(Q) /\ ScopeSane(s, tab[s[1]], link[s], node[s], lock, storage)
      /\ TabSane(s[1], tab[s[1]], lock) /\ s[2] # 0 /\ s # None
      /\ link \in [Scope -> LinkShape(Q)] /\ "closeEvent" \in Wire
      /\ node \in [Scope -> {"none", "live", "disposing", "quiet", "gone"}]
  BY ScopeTyped, ScopeFacts DEF Shape, Wire
<1>1. CASE LockAnswers(s)
  <2>1. \A x \in Scope : link'[x].reclaim = link[x].reclaim
    BY <1>1, StepKeepsTold DEF LockAnswers
  <2>2. \A x \in Scope : SameNode(x)
    BY <1>1, <2>1 DEF LockAnswers, SameNode
  <2>3. CASE lock' = lock
    BY <1>1, <2>2, <2>3, Quietly DEF LockAnswers
  <2>4. CASE lock = None /\ lock' = s
    <3>1. Kept!Take(s)
      BY <1>1, <2>2, <2>4, SameNodes DEF LockAnswers, Kept!Take, AtWork, AtRest, Told
    <3> QED BY <3>1 DEF Kept!Next
  <2> QED BY <1>1, <2>3, <2>4 DEF LockAnswers
<1>2. CASE ChannelBreaks(s)
  BY <1>0, <1>2, StepKeepsTold, MovePromise DEF ChannelBreaks
<1>3. CASE NodeQuiesces(s)
  <2>1. /\ node[s] = "disposing" /\ node' = [node EXCEPT ![s] = "quiet"]
        /\ UNCHANGED <<tab, link, lock, storage>>
    BY <1>3 DEF NodeQuiesces
  <2>2. s \in AtWork /\ AtWork' = AtWork \ {s} /\ AtRest' = AtRest \cup {s} /\ Told' = Told
    BY <1>0, <2>1 DEF AtWork, AtRest, Told
  <2>3. Kept!Rest(s)
    BY <2>1, <2>2 DEF Kept!Rest, AtWork, AtRest, Told
  <2> QED BY <2>3 DEF Kept!Next
<1>4. CASE WriteReceipts(s)
  <2>1. /\ lock = s /\ node[s] = "quiet" /\ link[s].stored = storage
        /\ lock' = None /\ node' = node
    BY <1>0, <1>4, ScopeFacts DEF WriteReceipts, Released, ScopeSane, LockSane, NodeSane, TabSane
  <2>2. storage' = storage \/ storage' = Kept!Noting(storage, s)
    BY <1>4, <2>1, SameNote DEF WriteReceipts
  <2>3. \A x \in Scope : link'[x].reclaim = link[x].reclaim
    BY <1>0, <1>4 DEF WriteReceipts, LinkShape
  <2>4. \A x \in Scope : SameNode(x)
    BY <2>1, <2>3 DEF SameNode
  <2> QED BY <2>1, <2>2, <2>4, Leaves
<1> QED BY <1>1, <1>2, <1>3, <1>4 DEF Outside

LEMMA CrashPromise ==
    ASSUME NEW Q, Shape(Q), Sane, NEW p \in Tab, Crash(p)
    PROVE  Kept!Next \/ UNCHANGED Kept!vars
<1>1. \A x \in Scope : link'[x].reclaim = link[x].reclaim
  BY DEF Crash, Unused
<1>2. /\ node' = [x \in Scope |-> IF x[1] = p /\ node[x] \in {"live", "disposing"} THEN "gone"
                                  ELSE node[x]]
      /\ storage' = storage
      /\ lock' = IF lock # None /\ lock[1] = p THEN None ELSE lock
      /\ node \in [Scope -> {"none", "live", "disposing", "quiet", "gone"}]
      /\ lock \in Scope \cup {None}
  BY DEF Crash, Shape
<1>3. CASE lock # None /\ lock[1] = p
  <2>1. PICK s \in Scope : s = lock
    BY <1>2, <1>3
  <2>2. \A x \in Scope : node[x] \in {"live", "disposing"} => x = s
    BY <2>1, WorkersHold
  <2>3. AtWork' = AtWork \ {s} /\ AtRest' = AtRest
    BY <1>2, <1>3, <2>1, <2>2 DEF AtWork, AtRest
  <2>4. Told' = Told
    BY <1>1, <1>2 DEF Told
  <2>5. Kept!Crash(s)
    BY <1>2, <1>3, <2>1, <2>3, <2>4 DEF Kept!Crash, AtWork, AtRest, Told
  <2> QED BY <2>5 DEF Kept!Next
<1>4. CASE ~(lock # None /\ lock[1] = p)
  <2>1. \A x \in Scope : x[1] = p => node[x] \notin {"live", "disposing"}
    BY <1>4, WorkersHold, ScopeFacts
  <2>2. \A x \in Scope : SameNode(x)
    BY <1>1, <1>2, <2>1 DEF SameNode
  <2> QED BY <1>2, <1>4, <2>2, Quietly
<1> QED BY <1>3, <1>4

LEMMA PagePromise ==
    ASSUME NEW Q, Shape(Q), Sane, NEW p \in Tab, CreateLink(p) \/ CancelConnection(p)
    PROVE  Kept!Next \/ UNCHANGED Kept!vars
<1>1. CASE CreateLink(p)
  <2>1. PICK s \in Scope : link' = Step(s, "step", "locking")
    BY <1>1 DEF CreateLink
  <2>2. \A x \in Scope : link'[x].reclaim = link[x].reclaim
    BY <2>1, StepKeepsTold
  <2> QED BY <1>1, <2>2, <2>1, MovePromise DEF CreateLink
<1>2. CASE CancelConnection(p)
  <2>1. /\ tab[p].current # 0 /\ Dispose(p, "idle", link) /\ storage' = storage
        /\ link \in [Scope -> LinkShape(Q)]
    BY <1>2 DEF CancelConnection, Sane, TabSane, Shape
  <2> QED BY <2>1, DisposePromise
<1> QED BY <1>1, <1>2

(* The pages of one browser, whatever fails, is cancelled, crashes or      *)
(* comes late in any of them, implement NodePromise: no node works without *)
(* the lock, no receipt is minted for one that may still work, and none is *)
(* lost (BrowserNodeLease, disposeConnection).                             *)
THEOREM KeepsThePromise == Spec => KeepsPromise
<1>1. Init => Kept!Init
  BY DEF Init, Kept!Init
<1>2. Inv /\ [Next]_vars => [Kept!Next]_(Kept!vars)
  <2> SUFFICES ASSUME Inv, [Next]_vars PROVE Kept!Next \/ UNCHANGED Kept!vars
    OBVIOUS
  <2>0. PICK Q : Shape(Q)
    BY DEF Inv
  <2>1. Sane
    BY DEF Inv
  <2>2. CASE UNCHANGED vars
    BY <2>2 DEF vars, Kept!vars
  <2>3. CASE Next
    BY <2>0, <2>1, <2>3, EventPromise, OutsidePromise, CrashPromise, PagePromise DEF Next
  <2> QED BY <2>2, <2>3
<1> QED BY <1>1, <1>2, Invariance, PTL DEF Spec, KeepsPromise, Kept!Spec
=============================================================================
