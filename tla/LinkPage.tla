------------------------------ MODULE LinkPage ------------------------------
(***************************************************************************)
(* The link page of web/src/main.ts in several tabs of one browser, with   *)
(* the lease and the receipts of web/src/browser-node-receipts.ts: the     *)
(* connection attempts, the Web Lock they ask for, the listeners, timers   *)
(* and awaits that outlive them, authentication, the installed node, and   *)
(* the way out through quiescence to a receipt.                            *)
(*                                                                         *)
(* An action is what a page runs between two awaits.  A scope is one       *)
(* attempt of one tab: the page draws a random node scope for each.  The   *)
(* node is UploadNode and DownloadNode, of which only disposal matters     *)
(* here.  Any failure of the network, the server, the phone or WebRTC is   *)
(* Trouble; the folder does not change.                                    *)
(***************************************************************************)
EXTENDS Naturals, Sequences, FiniteSets

CONSTANTS
    Tab,
    None,           \* no scope
    Attempts,       \* bound: how many attempts each tab makes
    MaxReceipts     \* maximumReceipts

ASSUME LinkAssumption ==
    /\ IsFiniteSet(Tab) /\ Attempts \in [Tab -> Nat] /\ MaxReceipts \in Nat \ {0}
    /\ None \notin Tab \X Nat

VARIABLES
    tab,        \* per tab: the variables of main.ts
    link,       \* per scope: what createLink and the listeners of it are at
    node,       \* per scope: its filesystem node
    lock,       \* the holder of the Web Lock
    storage     \* localStorage: the receipts, oldest first

vars == <<tab, link, node, lock, storage>>

Scope == UNION {{p} \X (1 .. Attempts[p]) : p \in Tab}

Idle == {"idle", "error"}

(* 0 stands for null and, in current, for a connectionAttempt that has     *)
(* moved on; otherwise a field names the attempt it belongs to.            *)
TabType ==
    [started : Nat, current : Nat,
     state : Idle \cup {"preparing", "waiting", "negotiating", "connected"},
     lease : Nat, socket : Nat, channel : Nat,
     controller : Nat, cleanup : Nat,
     expiry : Nat, authTimer : Nat]

Fresh(n) ==
    [started |-> n, current |-> 0, state |-> "idle", lease |-> 0, socket |-> 0, channel |-> 0,
     controller |-> 0, cleanup |-> 0, expiry |-> 0, authTimer |-> 0]

(* closeEvent: readyState has left "open" and the event is on its way; for *)
(* the socket that is one step.                                            *)
Wire == {"none", "connecting", "open", "closeEvent", "closed"}

LinkType ==
    [step : {"none", "locking", "granted", "refused", "preparing", "over"},     \* createLink
     socket : Wire, channel : Wire,
     auth : {"none", "deriving", "challenged", "confirming", "over"},
     close : {"none", "waiting", "storing"},                                    \* closeAfter
     reclaim : Seq(Scope),                                                      \* reclaimScopes
     stored : Seq(Scope)]                                                       \* getItem

Unused ==
    [step |-> "none", socket |-> "none", channel |-> "none", auth |-> "none",
     close |-> "none", reclaim |-> << >>, stored |-> << >>]

Init ==
    /\ tab = [p \in Tab |-> Fresh(0)]
    /\ link = [s \in Scope |-> Unused]
    /\ node = [s \in Scope |-> "none"]
    /\ lock = None
    /\ storage = << >>

-----------------------------------------------------------------------------
(* The way out.                                                            *)

Of(s) == tab[s[1]]

(* assertCurrentAttempt, and the guards of the listeners.                  *)
Current(s) == Of(s).current = s[2]

Closed(wire) == IF wire \in {"connecting", "open"} THEN "closeEvent" ELSE wire

DisposedNode(n) == IF n = "live" THEN "disposing" ELSE n

(* disposeConnection: what the attempt k of tab p has is closed, its node  *)
(* is disposed, and its lease is given back, after quiescence if there is  *)
(* a node.                                                                 *)
Dispose(p, shown, links) ==
    LET t == tab[p]
        serves == t.lease # 0 /\ t.controller # 0
    IN  /\ tab' = [tab EXCEPT ![p] =
                     [Fresh(t.started) EXCEPT !.state = shown,
                                              !.cleanup = IF serves THEN t.lease ELSE t.cleanup]]
        /\ link' = [s \in Scope |->
                     IF s[1] # p THEN links[s]
                     ELSE [links[s] EXCEPT
                             !.socket = IF s[2] = t.socket THEN "closed" ELSE @,
                             !.channel = IF s[2] = t.channel THEN Closed(@) ELSE @,
                             !.close = IF s[2] = t.lease /\ serves THEN "waiting" ELSE @,
                             !.auth = IF @ = "challenged" THEN "over" ELSE @]]
        /\ node' = [s \in Scope |-> IF s = <<p, t.controller>> THEN DisposedNode(node[s]) ELSE node[s]]
        /\ lock' = IF lock = <<p, t.lease>> /\ ~serves THEN None ELSE lock

(* failConnection, by something of s.                                      *)
Fail(s, links) ==
    \/ Current(s) /\ Of(s).state \notin Idle /\ Dispose(s[1], "error", links)
    \/ /\ ~(Current(s) /\ Of(s).state \notin Idle)
       /\ link' = links /\ UNCHANGED <<tab, node, lock>>

Step(s, field, value) == [link EXCEPT ![s] = [@ EXCEPT ![field] = value]]

Shown(s, changed) == tab' = [tab EXCEPT ![s[1]] = changed]

-----------------------------------------------------------------------------
(* createLink and BrowserNodeLease.acquire.                                *)

CreateLink(p) ==
    LET k == tab[p].started + 1
    IN  /\ tab[p].state \in Idle /\ tab[p].cleanup = 0 /\ <<p, k>> \in Scope
        /\ tab' = [tab EXCEPT ![p].started = k, ![p].current = k, ![p].state = "preparing"]
        /\ link' = Step(<<p, k>>, "step", "locking")
        /\ UNCHANGED <<node, lock, storage>>

(* The lock manager answers, whether or not the attempt still runs.        *)
LockAnswers(s) ==
    /\ link[s].step = "locking"
    /\ \/ lock = None /\ lock' = s /\ link' = Step(s, "step", "granted")
       \/ lock # None /\ link' = Step(s, "step", "refused") /\ UNCHANGED lock
    /\ UNCHANGED <<tab, node, storage>>

LockGranted(s) ==
    /\ link[s].step = "granted"
    /\ \/ /\ Current(s)
          /\ Shown(s, [Of(s) EXCEPT !.lease = s[2]])
          /\ link' = [link EXCEPT ![s].step = "preparing", ![s].reclaim = storage]
          /\ UNCHANGED lock
       \/ /\ ~Current(s)
          /\ lock' = None /\ link' = Step(s, "step", "over") /\ UNCHANGED tab
    /\ UNCHANGED <<node, storage>>

LockRefused(s) ==
    /\ link[s].step = "refused"
    /\ Fail(s, Step(s, "step", "over"))
    /\ UNCHANGED storage

PreparedSlip(s) ==
    /\ link[s].step = "preparing"
    /\ \/ /\ Shown(s, [Of(s) EXCEPT !.state = "waiting", !.socket = s[2], !.expiry = s[2]])
          /\ link' = [link EXCEPT ![s].step = "over", ![s].socket = "open"]
          /\ UNCHANGED <<node, lock>>
       \/ Fail(s, Step(s, "step", "over"))
    /\ UNCHANGED storage

(* Configuration, human verification, the ticket and the cipher, each      *)
(* followed by assertCurrentAttempt; then the socket is opened.            *)
Prepared(s) ==
    /\ link[s].step = "preparing"
    /\ \/ /\ Current(s)
          /\ Shown(s, [Of(s) EXCEPT !.state = "waiting", !.socket = s[2], !.expiry = s[2]])
          /\ link' = [link EXCEPT ![s].step = "over", ![s].socket = "open"]
          /\ UNCHANGED <<node, lock>>
       \/ Fail(s, Step(s, "step", "over"))
    /\ UNCHANGED storage

-----------------------------------------------------------------------------
(* Signalling and the peer connection.                                     *)

(* handleServerMessage, beginPeerConnection.                               *)
PeerJoined(s) ==
    /\ link[s].socket # "none" /\ Current(s) /\ Of(s).channel = 0
    /\ Shown(s, [Of(s) EXCEPT !.state = "negotiating", !.channel = s[2]])
    /\ link' = Step(s, "channel", "connecting")
    /\ UNCHANGED <<node, lock, storage>>

(* A signalling task, the offer, a candidate or the peer connection of s   *)
(* fails.                                                                  *)
Trouble(s) ==
    /\ link[s].socket # "none"
    /\ Fail(s, link)
    /\ UNCHANGED storage

(* The server or the network closes the socket; one the page closed itself *)
(* is no longer in socket when its event comes.                            *)
SocketCloses(s) ==
    /\ link[s].socket = "open"
    /\ LET closed == Step(s, "socket", "closed")
       IN  \/ Of(s).state # "connected" /\ Fail(s, closed)
           \/ Of(s).state = "connected" /\ link' = closed /\ UNCHANGED <<tab, node, lock>>
    /\ UNCHANGED storage

(* The timeout starts with whichever comes first, open or auth_ready.      *)
TimeoutStarted(s) == [Of(s) EXCEPT !.authTimer = IF @ = 0 THEN s[2] ELSE @]

Listens(s) == Current(s) /\ Of(s).channel = s[2]

ChannelOpens(s) ==
    /\ link[s].channel = "connecting"
    /\ link' = Step(s, "channel", "open")
    /\ IF Listens(s) THEN Shown(s, TimeoutStarted(s)) ELSE UNCHANGED tab
    /\ UNCHANGED <<node, lock, storage>>

(* The phone or the transport closes the channel; the listener follows.    *)
ChannelBreaks(s) ==
    /\ link[s].channel = "open"
    /\ link' = Step(s, "channel", "closeEvent")
    /\ UNCHANGED <<tab, node, lock, storage>>

ChannelCloses(s) ==
    /\ link[s].channel = "closeEvent"
    /\ LET closed == Step(s, "channel", "closed")
       IN  \/ Of(s).channel = s[2] /\ Fail(s, closed)
           \/ Of(s).channel # s[2] /\ link' = closed /\ UNCHANGED <<tab, node, lock>>
    /\ UNCHANGED storage

-----------------------------------------------------------------------------
(* installDataChannelAuthentication.                                       *)

AuthReady(s) ==
    /\ link[s].channel = "open" /\ Listens(s) /\ link[s].auth = "none"
    /\ Shown(s, TimeoutStarted(s))
    /\ link' = Step(s, "auth", "deriving")
    /\ UNCHANGED <<node, lock, storage>>

(* authenticationMAC resolves.                                             *)
Challenged(s) ==
    /\ link[s].auth = "deriving"
    /\ \/ /\ Listens(s) /\ link[s].channel = "open"
          /\ link' = Step(s, "auth", "challenged")
          /\ UNCHANGED <<tab, node, lock>>
       \/ ~(Listens(s) /\ link[s].channel = "open") /\ Fail(s, Step(s, "auth", "over"))
    /\ UNCHANGED storage

AuthResponse(s) ==
    /\ link[s].channel = "open" /\ Listens(s) /\ link[s].auth = "challenged"
    /\ \/ /\ Of(s).controller = 0 /\ Of(s).lease # 0
          /\ link' = Step(s, "auth", "confirming")
          /\ UNCHANGED <<tab, node, lock>>
       \/ Fail(s, Step(s, "auth", "over"))
    /\ UNCHANGED storage

ConfirmedSlip(s) ==
    /\ link[s].auth = "confirming"
    /\ \/ /\ Shown(s, [Of(s) EXCEPT !.controller = s[2], !.state = "connected",
                                    !.expiry = 0, !.authTimer = 0])
          /\ node' = [node EXCEPT ![s] = "live"]
          /\ link' = Step(s, "auth", "over")
          /\ UNCHANGED lock
       \/ ~(Listens(s) /\ link[s].channel = "open") /\ Fail(s, Step(s, "auth", "over"))
    /\ UNCHANGED storage

(* authenticationConfirmationMAC resolves: the node is installed and       *)
(* auth_ok sent.                                                           *)
Confirmed(s) ==
    /\ link[s].auth = "confirming"
    /\ \/ /\ Listens(s) /\ link[s].channel = "open"
          /\ Shown(s, [Of(s) EXCEPT !.controller = s[2], !.state = "connected",
                                    !.expiry = 0, !.authTimer = 0])
          /\ node' = [node EXCEPT ![s] = "live"]
          /\ link' = Step(s, "auth", "over")
          /\ UNCHANGED lock
       \/ ~(Listens(s) /\ link[s].channel = "open") /\ Fail(s, Step(s, "auth", "over"))
    /\ UNCHANGED storage

-----------------------------------------------------------------------------
(* Timers, the user, and the node.                                         *)

AuthTimeout(s) ==
    /\ Of(s).authTimer = s[2] /\ Listens(s)
    /\ Fail(s, link)
    /\ UNCHANGED storage

PairingExpires(s) ==
    /\ Of(s).expiry = s[2] /\ Of(s).state # "connected"
    /\ Fail(s, link)
    /\ UNCHANGED storage

(* cancelConnection, and pagehide.                                         *)
CancelConnection(p) ==
    /\ tab[p].state \notin Idle
    /\ Dispose(p, "idle", link)
    /\ UNCHANGED storage

(* closeForProtocolViolation of the node.                                  *)
NodeCloses(s) ==
    /\ node[s] = "live"
    /\ node' = [node EXCEPT ![s] = "disposing"]
    /\ link' = Step(s, "channel", Closed(link[s].channel))
    /\ UNCHANGED <<tab, lock, storage>>

NodeQuiesces(s) ==
    /\ node[s] = "disposing"
    /\ node' = [node EXCEPT ![s] = "quiet"]
    /\ UNCHANGED <<tab, link, lock, storage>>

-----------------------------------------------------------------------------
(* closeAfter.                                                             *)

Last(s, n) == IF Len(s) > n THEN SubSeq(s, Len(s) - n + 1, Len(s)) ELSE s

(* appendingBrowserNodeReceipt *)
Appending(stored, s) == Last(Append(SelectSeq(stored, LAMBDA x : x # s), s), MaxReceipts)

ReadReceiptsSlip(s) ==
    /\ link[s].close = "waiting"
    /\ link' = [link EXCEPT ![s].close = "storing", ![s].stored = storage]
    /\ UNCHANGED <<tab, node, lock, storage>>

ReadReceipts(s) ==
    /\ link[s].close = "waiting" /\ node[s] = "quiet"
    /\ link' = [link EXCEPT ![s].close = "storing", ![s].stored = storage]
    /\ UNCHANGED <<tab, node, lock, storage>>

ReleasedSlip(s) == UNCHANGED <<tab, lock>>

Released(s) ==
    /\ Shown(s, [Of(s) EXCEPT !.cleanup = IF @ = s[2] THEN 0 ELSE @])
    /\ lock' = None

(* The write may fail; the lock is released in any case.                   *)
WriteReceipts(s) ==
    /\ link[s].close = "storing"
    /\ storage' \in {storage, Appending(link[s].stored, s)}
    /\ link' = [link EXCEPT ![s].close = "none", ![s].stored = << >>]
    /\ Released(s)
    /\ UNCHANGED node

(* The tab is closed or crashes: the browser takes the lock back.          *)
Crash(p) ==
    /\ tab[p].current # 0 \/ \E s \in Scope : s[1] = p /\ lock = s
    /\ tab' = [tab EXCEPT ![p] = Fresh(@.started)]
    /\ link' = [s \in Scope |-> IF s[1] = p THEN [Unused EXCEPT !.reclaim = link[s].reclaim]
                                 ELSE link[s]]
    /\ node' = [s \in Scope |-> IF s[1] = p /\ node[s] \in {"live", "disposing"} THEN "gone"
                                 ELSE node[s]]
    /\ lock' = IF lock # None /\ lock[1] = p THEN None ELSE lock
    /\ UNCHANGED storage

-----------------------------------------------------------------------------
(* A tab's script does nothing between getItem and setItem.                *)
Ready(p) == \A s \in Scope : s[1] = p => link[s].close # "storing"

(* What runs by itself once it is due.                                     *)
Resumes(s) ==
    \/ LockGranted(s) \/ LockRefused(s) \/ Challenged(s) \/ Confirmed(s)
    \/ AuthTimeout(s) \/ PairingExpires(s) \/ ReadReceipts(s)

Event(s) ==
    \/ Prepared(s) \/ PeerJoined(s) \/ Trouble(s) \/ SocketCloses(s)
    \/ ChannelOpens(s) \/ ChannelCloses(s) \/ AuthReady(s) \/ AuthResponse(s)
    \/ NodeCloses(s)

Outside(s) == LockAnswers(s) \/ ChannelBreaks(s) \/ NodeQuiesces(s) \/ WriteReceipts(s)

Next ==
    \/ \E p \in Tab : Ready(p) /\ (CreateLink(p) \/ CancelConnection(p))
    \/ \E s \in Scope : Ready(s[1]) /\ (Resumes(s) \/ Event(s))
    \/ \E s \in Scope : Outside(s)
    \/ \E p \in Tab : Crash(p)

Spec == Init /\ [][Next]_vars

(* Promises and timers run, the lock manager answers, and a disposed node  *)
(* comes to rest (QuiescenceReached of UploadNode and DownloadNode).       *)
FairSpec ==
    /\ Spec
    /\ \A s \in Scope :
         /\ WF_vars(Ready(s[1]) /\ Resumes(s))
         /\ WF_vars(LockAnswers(s)) /\ WF_vars(NodeQuiesces(s)) /\ WF_vars(WriteReceipts(s))

-----------------------------------------------------------------------------
TypeOK ==
    /\ tab \in [Tab -> TabType]
    /\ link \in [Scope -> LinkType]
    /\ node \in [Scope -> {"none", "live", "disposing", "quiet", "gone"}]
    /\ lock \in Scope \cup {None}
    /\ storage \in Seq(Scope)

Kept ==
    INSTANCE NodePromise WITH
        owner <- lock,
        serving <- {s \in Scope : node[s] \in {"live", "disposing"}},
        rested <- {s \in Scope : node[s] = "quiet"},
        receipts <- storage,
        told <- [s \in Scope |-> IF node[s] = "none" THEN << >> ELSE link[s].reclaim]

(* The pages of a browser keep NodePromise, whatever fails, is cancelled,  *)
(* crashes or comes late in any of them: no node works without the lock,   *)
(* no receipt is minted for one that may still work, and none is lost.     *)
KeepsPromise == Kept!Spec

(* What a page holds is what it shows: an attempt that is over has left no *)
(* timer, socket, channel, live node or lock, except on the way through    *)
(* quiescence; and "connected" means a node under the lease of this very   *)
(* attempt, with no timer left to end it.                                  *)
NothingLeftBehind ==
    /\ \A p \in Tab :
         LET t == tab[p]
         IN  /\ t.current = 0 <=> t.state \in Idle
             /\ {t.lease, t.socket, t.channel, t.controller, t.expiry, t.authTimer}
                  \subseteq {0, t.current}
             /\ t.controller # 0 <=> t.state = "connected"
             /\ t.state = "connected" => lock = <<p, t.lease>> /\ t.expiry = 0 /\ t.authTimer = 0
    /\ \A s \in Scope :
         /\ link[s].socket = "open" => Of(s).socket = s[2]
         /\ link[s].channel \in {"connecting", "open"} => Of(s).channel = s[2]
         /\ node[s] = "live" => Of(s).controller = s[2]
         /\ lock = s => s[2] \in {Of(s).lease, Of(s).cleanup} \/ link[s].step = "granted"

(* What arrives for an attempt that is over - a granted or refused lock, a *)
(* ticket, a message, the end of a computation - changes nothing the user  *)
(* or the next attempt has; at most it gives the lock back.                *)
StaleAttemptsAreInert ==
    [][\A s \in Scope :
         ~Current(s) /\ link[s].close # "waiting" /\ (Resumes(s) \/ Event(s))
            => UNCHANGED <<tab, storage>> /\ lock' \in {lock, None}]_vars

(* A user can always link again: no pairing stays open, cleanup ends, and  *)
(* an attempt that is over does not keep the lock.                         *)
CanLinkAgain ==
    /\ \A p \in Tab :
         /\ (tab[p].state \in {"waiting", "negotiating"})
              ~> (tab[p].state \notin {"waiting", "negotiating"})
         /\ (tab[p].cleanup # 0) ~> (tab[p].cleanup = 0)
    /\ \A s \in Scope : (lock = s /\ ~Current(s)) ~> (lock # s)
=============================================================================
