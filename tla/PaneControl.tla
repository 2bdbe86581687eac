---------------------------- MODULE PaneControl ----------------------------
(***************************************************************************)
(* Who controls one Pane.                                                  *)
(*                                                                         *)
(* The server's Pane host (src/runtime/core_host/pane_host.rs) gives at    *)
(* most one client a lease on the Pane's Terminal Session; WorkspaceHost   *)
(* (workspaces.rs) decides which claims may have it, fencing each client's *)
(* claims by its Workspace Attachment's generation; Served (dispatch.rs)   *)
(* binds the lease to a channel of the claiming connection and tells that  *)
(* channel when the lease is gone.  A client (attachments.rs) attaches and *)
(* detaches the Workspace durably and owes the server one release for each *)
(* detached generation.                                                    *)
(*                                                                         *)
(* One Pane, in one Workspace; every handler runs under the service lock,  *)
(* so a handler is one step.  A reply or event reaches a client whose link *)
(* is still the connection's; otherwise it is lost.  A nonce is a name no  *)
(* lease, offer or ended Session still held by anyone carries, because a   *)
(* nonce is only ever compared.                                            *)
(***************************************************************************)
EXTENDS Naturals, Sequences, FiniteSets

CONSTANTS
    Devices,        \* the Client Identities
    NoDevice,       \* no Client Identity: Option::None
    MaxLinks,       \* connections one client makes over its life
    MaxGeneration,  \* attachments one client makes over its life
    MaxQueue,       \* requests of one connection not yet dispatched
    MaxBoots,       \* starts of the server
    Requests,       \* the requests clients make, besides releases of attachments
    Exits,          \* the ways Terminal Sessions end
    Events          \* what else happens to the Pane and its clients

ASSUME PaneControlAssumption ==
    /\ IsFiniteSet(Devices) /\ Devices # {}
    /\ NoDevice \notin Devices
    /\ MaxLinks \in Nat \ {0} /\ MaxGeneration \in Nat
    /\ MaxQueue \in Nat \ {0} /\ MaxBoots \in Nat \ {0}
    /\ Requests \subseteq {"observe", "select", "start", "takeover", "repair",
                          "input", "command", "drop", "close"}
    /\ Exits \subseteq {"zero", "kept", "failed", "nodir"}
    /\ Events \subseteq {"goodbye", "delete", "endall", "revoke", "evict"}

VARIABLES
    boot,      \* which start of the server runs
    listed,    \* whether the organization still names the Pane
    creator,   \* the client the Pane was created for, until first use
    host,      \* CorePaneHost: its live Pane, its ended Session, its identity
    gens,      \* attachment_generations: the highest claimed and released
    ends,      \* the Session an accepted End All Sessions names, or 0
    revoked,   \* how far the revocation of each device went
    conn,      \* each connection, as its I/O thread and outbox see it
    bound,     \* Served.channels: the lease a connection's channel is bound to
    want,      \* Outbox.publication: publication was requested
    bell,      \* Served.bell
    paced,     \* WorkspaceHost.paced: a rung tick put its timed work off
    notifying, \* the Session whose worker has yet to call its notifier, or 0
    queue,     \* requests received on a connection and not yet dispatched
    client     \* each client's saved choices and its presentation

serverVars == <<boot, listed, creator, host, gens, ends, revoked>>
servedVars == <<conn, bound, want, bell, paced, notifying, queue>>
vars == <<boot, listed, creator, host, gens, ends, revoked,
          conn, bound, want, bell, paced, notifying, queue, client>>

Connections == Devices \X (1 .. MaxLinks)
Owner(c) == c[1]
Peers == Devices \cup {NoDevice}
Claims == {"observe", "select", "start", "takeover", "repair"}
Informed == {"start", "takeover", "repair"}  \* claims that name what a reply said

(* As many names as can be held at once, and one to spare.                 *)
Names == 1 .. (Cardinality(Connections) + Cardinality(Devices) + 4)
NoLease == [session |-> 0]
NoPane == [device |-> NoDevice]
NoDormant == [device |-> NoDevice, gen |-> 0, kept |-> FALSE]
NoPermit == [gen |-> 0, kind |-> "none", waits |-> 0]
NoLink == 0
Target(s) == [boot |-> boot, session |-> s]
NoTarget == [boot |-> 0, session |-> 0]
Lives(h) == h.pane # NoPane
Sleeps(h) == h.dormant.kept

Lease(p) == [session |-> p.session, control |-> p.control, link |-> p.link]
BoundTo(c, p) == bound[c] = Lease(p)

(* A nonce: a name nothing held equals.                                    *)
Fresh(used) == CHOOSE n \in Names : n \notin used
SessionNonce ==
    Fresh({bound[c].session : c \in Connections}
          \cup {client[d].offer.session : d \in Devices}
          \cup {ends, notifying}
          \cup (IF Lives(host) THEN {host.pane.session} ELSE {}))
ControlNonce ==
    Fresh({bound[c].control : c \in {d \in Connections : bound[d] # NoLease}}
          \cup (IF Lives(host) THEN {host.pane.control} ELSE {}))

-----------------------------------------------------------------------------
(* The Pane host                                                             *)

(* An exit the worker has queued and `drain` has taken.                      *)
Ended(p) == p.drained /\ p.exit \in {"zero", "kept"}
Failed(p) == p.drained /\ p.exit \in {"failed", "nodir"}

drain(h) == IF Lives(h) /\ h.pane.exit # "none"
            THEN [h EXCEPT !.pane.drained = TRUE] ELSE h

DormantOf(p) == [device |-> p.device, gen |-> p.gen, kept |-> TRUE]

(* A Session that could not enter its directory leaves an ended Pane ended;  *)
(* a nonzero exit keeps the Pane and its grant; a zero exit closes the Pane, *)
(* whose last screen stays until its channel took it.                        *)
retire_exited(h) ==
    LET r == drain(h)
        p == r.pane
    IN  CASE Lives(r) /\ p.drained /\ p.exit = "nodir" ->
               [r EXCEPT !.pane = NoPane,
                         !.dormant = IF p.restart THEN DormantOf(p) ELSE @]
          [] Lives(r) /\ p.drained /\ p.exit = "kept" ->
               [r EXCEPT !.pane = NoPane, !.dormant = DormantOf(p)]
          [] Lives(r) /\ p.drained /\ p.exit = "zero" -> [r EXCEPT !.identity = FALSE]
          [] OTHER -> r

(* `failed` refuses the selection; the caller tests it.                      *)
reconcile_selection(h) ==
    LET r == retire_exited(h)
    IN  IF Lives(r) /\ Ended(r.pane) THEN [r EXCEPT !.pane = NoPane] ELSE r

end_session(h, s) ==
    IF Lives(h) /\ h.pane.session = s
    THEN [h EXCEPT !.pane = NoPane, !.dormant = DormantOf(h.pane)] ELSE h

Refuse(h) == {[host |-> h, lease |-> NoLease, offer |-> NoTarget]}
takeover(h, s) == {[host |-> h, lease |-> NoLease, offer |-> Target(s)]}
restored(h) == takeover(h, 0)  \* names the Pane and the boot, like an offer
Attached(h) == {[host |-> h, lease |-> Lease(h.pane), offer |-> NoTarget]}

(* The shell starts, or its directory or its runtime refuses.                *)
start(h, c) ==
    IF ~h.identity THEN Refuse(h)
    ELSE Refuse(h) \cup
         Attached([h EXCEPT !.dormant = NoDormant,
                            !.pane = [device |-> Owner(c), gen |-> 0,
                                      session |-> SessionNonce, control |-> ControlNonce,
                                      link |-> c, connected |-> TRUE,
                                      exit |-> "none", drained |-> FALSE,
                                      restart |-> Sleeps(h)]])

(* Only a transfer draws a new control nonce and forgets the attachment.     *)
claim(h, c, transfer) ==
    Attached([h EXCEPT !.pane.device = Owner(c),
                       !.pane.gen = IF transfer THEN 0 ELSE @,
                       !.pane.control = IF transfer THEN ControlNonce ELSE @,
                       !.pane.link = c,
                       !.pane.connected = TRUE])

select(h, c, explicit) ==
    LET r == reconcile_selection(h)
        d == Owner(c)
    IN  IF Lives(r) /\ Failed(r.pane) THEN Refuse(r)
        ELSE IF Sleeps(r) /\ r.dormant.device \notin {NoDevice, d} THEN takeover(r, 0)
        ELSE IF Lives(r) /\ r.pane.device \notin {NoDevice, d}
        THEN takeover(r, r.pane.session)
        ELSE IF Lives(r) THEN claim(r, c, r.pane.device = NoDevice)
        ELSE IF ~r.identity THEN Refuse(r)
        ELSE IF explicit THEN start(r, c) ELSE restored(r)

take_over_ended(h, c, gen) ==
    start([h EXCEPT !.dormant.device = Owner(c), !.dormant.gen = gen], c)

TakeOverLive(h, c, target) ==
    LET r == reconcile_selection(h)
    IN  IF Lives(r) /\ ~Failed(r.pane) /\ Target(r.pane.session) = target
        THEN claim(r, c, TRUE) ELSE Refuse(r)

(* What ends the lease without moving it to another client.                  *)
Unclaimed(p, control) == [p EXCEPT !.device = NoDevice, !.connected = FALSE,
                                   !.control = control]

\* Mutant: a lost connection releases its client's control.
UnlinkedReleases(h, c) == IF Lives(h) /\ h.pane.link = c
                          THEN [h EXCEPT !.pane.connected = FALSE,
                                         !.pane.device = NoDevice] ELSE h

Unlinked(h, c) == IF Lives(h) /\ h.pane.link = c
                  THEN [h EXCEPT !.pane.connected = FALSE] ELSE h

unbound(h, c) == IF Lives(h) /\ BoundTo(c, h.pane) THEN Unlinked(h, c) ELSE h

release_control(h, d) ==
    LET s == IF Sleeps(h) /\ h.dormant.device = d
             THEN [h EXCEPT !.dormant.device = NoDevice, !.dormant.gen = 0] ELSE h
    IN  IF Lives(s) /\ s.pane.device = d
        THEN [s EXCEPT !.pane = [Unclaimed(@, 0) EXCEPT !.gen = 0]] ELSE s

-----------------------------------------------------------------------------
(* WorkspaceHost: which claims the Pane host is asked for                    *)

\* Mutant: a passive selection takes a Session that nobody controls.
SelectTakesFree(h, c, kind) ==
    LET d == Owner(c)
        explicit == kind = "start" \/ (kind = "select" /\ ~Sleeps(h))
    IN  IF ~explicit /\ Sleeps(h) /\ h.dormant.device # d THEN takeover(h, 0)
        ELSE IF ~Lives(h) /\ ~Sleeps(h) /\ creator \notin {NoDevice, d}
        THEN takeover(h, 0)
        ELSE select(h, c, explicit)

(* A Session that ended in this run waits for Start Session, the creator's   *)
(* reservation holds until first use, and a passive selection acquires       *)
(* nothing.                                                                  *)
Select(h, c, kind) ==
    LET d == Owner(c)
        explicit == kind = "start" \/ (kind = "select" /\ ~Sleeps(h))
    IN  IF ~explicit /\ Sleeps(h) /\ h.dormant.device # d THEN takeover(h, 0)
        ELSE IF ~Lives(h) /\ ~Sleeps(h) /\ creator \notin {NoDevice, d}
        THEN takeover(h, 0)
        ELSE IF ~explicit /\ Lives(h) /\ h.pane.device # d
        THEN takeover(h, h.pane.session)
        ELSE select(h, c, explicit)

\* Mutant: repair does not look for a running Session.
RepairsRunning(h, c, target) ==
    IF target.boot # boot \/ creator \notin {NoDevice, Owner(c)} THEN Refuse(h)
    ELSE start(h, c)

(* Only whoever controls the Pane may repair its directory.  The replacement *)
(* directory is retained before the shell starts, or nothing starts.         *)
repair_directory(h, c, target) ==
    LET controller == IF Sleeps(h) THEN h.dormant.device ELSE creator
    IN  IF target.boot # boot THEN Refuse(h)
        ELSE IF Lives(h) \/ controller \notin {NoDevice, Owner(c)}
        THEN Select(h, c, "observe")
        ELSE Refuse(h) \cup start(h, c)

TakeOver(h, c, target, gen) ==
    IF Lives(h) THEN IF Target(h.pane.session) # target THEN Refuse(h)
                     ELSE TakeOverLive(h, c, target)
    ELSE IF target # Target(0) THEN Refuse(h)
    ELSE IF Sleeps(h) THEN take_over_ended(h, c, gen)
    ELSE start(h, c)

\* Mutant: a released attachment's claims are not fenced.
FencedByClaims(d, gen) == gen < gens[d].claimed

(* A claim of an attachment older than one claimed, or of one released, is   *)
(* stale: its sender detached since.                                         *)
Fenced(d, gen) == gen < gens[d].claimed \/ gen <= gens[d].released

(* A new attachment observes an old grant without resuming it.               *)
OtherGrant(h, d, gen) ==
    \/ Sleeps(h) /\ h.dormant.device = d /\ h.dormant.gen # gen
    \/ Lives(h) /\ h.pane.device = d /\ h.pane.gen # gen

ClaimReplies(h, c, m) ==
    IF m.kind = "observe" /\ OtherGrant(h, Owner(c), m.gen)
    THEN takeover(h, IF Sleeps(h) THEN 0 ELSE h.pane.session)
    ELSE CASE m.kind \in {"observe", "select"} -> Select(h, c, m.kind)
      [] m.kind = "start" -> IF m.target.boot # boot THEN Refuse(h)
                             ELSE Select(h, c, "start")
      [] m.kind = "repair" -> repair_directory(h, c, m.target)
      [] m.kind = "takeover" -> TakeOver(h, c, m.target, m.gen)

(* `attachment_generation` is set once the claim attached.                   *)
ClaimPane(h, c, m) ==
    {IF r.lease = NoLease THEN r ELSE [r EXCEPT !.host.pane.gen = m.gen] :
         r \in ClaimReplies(h, c, m)}

\* Mutant: a release ends newer attachments' grants too.
ReleaseAnyAttachment(h, d, gen) == release_control(h, d)

(* Every grant of this client's attachments up to `gen` ends, live or kept,  *)
(* on each Pane the organization still names.                                *)
ReleaseAttachment(h, d, gen) ==
    LET s == IF Sleeps(h) /\ h.dormant.device = d /\ h.dormant.gen \in 1 .. gen
             THEN [h EXCEPT !.dormant.device = NoDevice, !.dormant.gen = 0] ELSE h
    IN  IF ~listed THEN h
        ELSE IF Lives(s) /\ s.pane.device = d /\ s.pane.gen \in 1 .. gen
        THEN [s EXCEPT !.pane = [Unclaimed(@, ControlNonce) EXCEPT !.gen = 0]] ELSE s

(* The tick's work on the Pane.  A durable deletion or End All Sessions ends *)
(* its process; an exit retires it; an exited Pane nobody will read is       *)
(* dropped with its host.                                                    *)
synchronize(h, durable) ==
    LET e == IF durable /\ ends # 0 THEN end_session(h, ends) ELSE h
        k == IF durable /\ ~listed /\ Lives(e) /\ ~Ended(e.pane)
             THEN [e EXCEPT !.pane = NoPane] ELSE e
        r == retire_exited(k)
        names == listed /\ r.identity
    IN  [host |-> IF ~names /\ Lives(r) /\ Ended(r.pane) /\ ~r.pane.connected
                  THEN [r EXCEPT !.pane = NoPane] ELSE r,
         listed |-> names]

-----------------------------------------------------------------------------
(* Served: channels, routes and the bell                                     *)

Open(c) == conn[c] = "open"
Registered(c) == conn[c] \in {"open", "closing"}
Hears(c) == client[Owner(c)].link = c[2]
LeaseLive(h, l) == l # NoLease /\ Lives(h) /\ l = Lease(h.pane)

(* The Sessions some channel presents: the routes rebuilt at every change.   *)
Routed(b) == {b[c].session : c \in Connections} \ {0}

\* Mutant: a Session that loses its last route rings nobody.
RerouteQuietly(b) == TRUE

reroute(b) == Routed(bound) \subseteq Routed(b)  \* FALSE: a Session was orphaned

(* What one channel's observation does to the Pane: its owner's drains it    *)
(* and, once the shell ended, takes its last screen and retires it.          *)
Observes(h, c) ==
    LeaseLive(h, bound[c]) /\ h.pane.device = Owner(c) /\ h.pane.connected
observe(h, c) ==
    LET r == drain(h)
    IN  IF ~Observes(h, c) THEN h
        ELSE IF Ended(r.pane) THEN [retire_exited(r) EXCEPT !.pane = NoPane]
        ELSE IF Failed(r.pane) THEN retire_exited(r)
        ELSE r
(* The observation says the lease is gone, so the channel gets its last      *)
(* event and its binding is forgotten.                                       *)
Gone(h, c) == ~Observes(h, c) \/ Ended(drain(h).pane) \/ Failed(drain(h).pane)

(* The host still holding the observed Session applies the change at once.   *)
Known(h, c) == Lives(h) /\ bound[c].session = h.pane.session

(* The last event of a channel whose lease is gone offers the current Pane.  *)
OfferOf(h) == Target(IF Lives(h) THEN h.pane.session ELSE 0)

(* Attachments::released, and the claim that waited for it.                  *)
released(k, gen) == [k EXCEPT !.pending = IF @ = gen THEN 0 ELSE @,
                              !.permit.waits = IF @ = gen THEN 0 ELSE @]

-----------------------------------------------------------------------------
(* Requests, one per message a connection dispatches                         *)

(* The connection's next message, dispatched only while the outbox is open.  *)
Received(c) == IF queue[c] = <<>> THEN {} ELSE {Head(queue[c])}

\* Mutant: a closing connection still dispatches what it received.
DispatchesClosing(c) ==
    /\ Registered(c)
    /\ queue' = [queue EXCEPT ![c] = Tail(@)]

Dispatches(c) ==
    /\ Open(c)
    /\ queue' = [queue EXCEPT ![c] = Tail(@)]

\* Mutant: claims and releases of attachments ring no bell.
RingsAfterChannelsOnly(m) == m.kind \in {"command", "drop", "close"}

(* Every request but input rings the bell.                                   *)
rings(m) == m.kind # "input"

(* Served::claim.  The connection's binding of the Pane is replaced before   *)
(* the claim is judged, even when the claim is then refused.                 *)
Claim(c) == \E m \in Received(c) :
    /\ Dispatches(c) /\ m.kind \in Claims
    /\ LET d == Owner(c)
           h == IF bound[c] = NoLease THEN host ELSE unbound(host, c)
           stale == ~listed \/ Fenced(d, m.gen)
       IN  \E r \in IF stale THEN Refuse(h) ELSE ClaimPane(h, c, m) :
             /\ host' = r.host
             /\ bound' = [bound EXCEPT ![c] = r.lease]
             /\ gens' = IF stale THEN gens ELSE [gens EXCEPT ![d].claimed = m.gen]
             /\ client' = IF Hears(c) /\ r.offer # NoTarget
                          THEN [client EXCEPT ![d].offer = r.offer] ELSE client
    /\ bell' = (bell \/ rings(m))
    /\ UNCHANGED <<boot, listed, creator, ends, revoked, conn, want, notifying,
                   paced>>

(* The release's reply settles exactly the attachment it names.              *)
Release(c) == \E m \in Received(c) :
    /\ Dispatches(c) /\ m.kind = "release"
    /\ host' = ReleaseAttachment(host, Owner(c), m.gen)
    /\ gens' = [gens EXCEPT ![Owner(c)].released = IF @ < m.gen THEN m.gen ELSE @]
    /\ client' = IF Hears(c) THEN [client EXCEPT ![Owner(c)] = released(@, m.gen)]
                 ELSE client
    /\ bell' = (bell \/ rings(m))
    /\ UNCHANGED <<boot, listed, creator, ends, revoked, conn, bound, want,
                   notifying, paced>>

(* An operation on the channel's lease: refused unless the lease is the      *)
(* Pane's and its owner's connection holds it, and drained first otherwise.  *)
(* Unless it is input, it rings the bell, and a lease the host no longer     *)
(* knows frees the channel.                                                  *)
OnChannel(c) == \E m \in Received(c) :
    /\ Dispatches(c) /\ m.kind \in {"input", "command", "drop", "close"}
    /\ LET granted == Observes(host, c)
           r == drain(host)
           h == CASE ~granted -> host
                  [] granted /\ m.kind \in {"input", "command"} -> r
                  [] granted /\ m.kind = "drop" ->
                       [r EXCEPT !.pane = Unclaimed(@, ControlNonce)]
                  [] granted /\ m.kind = "close" ->
                       [r EXCEPT !.pane = NoPane, !.identity = FALSE]
       IN  /\ host' = h
           /\ bound' = [bound EXCEPT ![c] =
                          IF m.kind = "drop" \/ (m.kind # "input" /\ ~LeaseLive(h, @))
                          THEN NoLease ELSE @]
    /\ bell' = (bell \/ rings(m))
    /\ UNCHANGED <<boot, listed, creator, gens, ends, revoked, conn, want,
                   notifying, client, paced>>

-----------------------------------------------------------------------------
(* The Terminal Session, the connection's I/O thread and the host's thread   *)

(* The session's worker queues its last event, then calls its notifier.      *)
Exit(how) ==
    /\ Lives(host) /\ host.pane.exit = "none" /\ notifying = 0
    /\ host' = [host EXCEPT !.pane.exit = how]
    /\ notifying' = host.pane.session
    /\ UNCHANGED <<boot, listed, creator, gens, ends, revoked, conn, bound,
                   want,
                   bell, queue, client, paced>>

(* Routes::notify: the connections presenting the Session, or else the bell. *)
notify ==
    /\ notifying # 0
    /\ want' = [c \in Connections |-> want[c] \/ bound[c].session = notifying]
    /\ bell' = (bell \/ notifying \notin Routed(bound))
    /\ notifying' = 0
    /\ UNCHANGED <<serverVars, conn, bound, queue, client, paced>>

(* The I/O thread took the request for publication.  A closing connection    *)
(* passes it to the host's bell.                                             *)
publish(c) ==
    /\ Registered(c) /\ want[c]
    /\ want' = [want EXCEPT ![c] = FALSE]
    /\ IF ~Open(c) \/ bound[c] = NoLease
       THEN /\ bell' = (bell \/ ~Open(c))
            /\ UNCHANGED <<host, listed, bound, client>>
       ELSE LET gone == Gone(host, c)
                r == observe(host, c)
            IN  \E durable \in BOOLEAN :
                  LET s == IF gone /\ Known(host, c) THEN synchronize(r, durable)
                           ELSE [host |-> r, listed |-> listed]
                  IN  /\ host' = s.host /\ listed' = s.listed
                      /\ bound' = IF gone THEN [bound EXCEPT ![c] = NoLease] ELSE bound
                      /\ bell' = (bell \/ (gone /\ Known(host, c)) \/ ~reroute(bound'))
                      /\ client' = IF gone /\ Hears(c)
                                   THEN [client EXCEPT ![Owner(c)].offer = OfferOf(r)]
                                   ELSE client
    /\ UNCHANGED <<boot, creator, gens, ends, revoked, conn, notifying, queue,
                   paced>>

(* Served::tick.  A rung bell publishes every channel first, and may put the *)
(* timed work off to the end of the presentation interval.  The sweep ends   *)
(* every channel whose lease is gone by then.  At most one channel observes  *)
(* the live Pane, so the order of the others does not matter.                *)
tick(defers) ==
    /\ bell \/ (~defers /\ (paced \/ ends # 0 \/ (Lives(host) /\ ~listed /\ ~Ended(host.pane))))
    /\ \E durable \in BOOLEAN :
         LET seen == {c \in Connections : bound[c] # NoLease}
             rang == IF bell THEN {c \in seen : Gone(host, c)} ELSE {}
             o == IF bell /\ \E c \in seen : Observes(host, c)
                  THEN observe(host, CHOOSE c \in seen : Observes(host, c)) ELSE host
             works == ~defers \/ \E c \in rang : Known(host, c)
             s == IF works THEN synchronize(o, durable) ELSE [host |-> o, listed |-> listed]
             b == [c \in Connections |->
                     IF c \in rang \/ ~LeaseLive(s.host, bound[c]) THEN NoLease ELSE bound[c]]
             swept == {c \in seen \ rang : b[c] = NoLease}
         IN  /\ host' = s.host /\ listed' = s.listed
             /\ bound' = b
             /\ bell' = ((\E c \in swept : Known(s.host, c)) \/ ~reroute(b))
             /\ ends' = IF works /\ durable THEN 0 ELSE ends
             /\ client' = [d \in Devices |->
                             IF \E c \in seen : Owner(c) = d /\ Hears(c) /\ b[c] = NoLease
                             THEN [client[d] EXCEPT !.offer = OfferOf(s.host)]
                             ELSE client[d]]
    /\ paced' = defers
    /\ UNCHANGED <<boot, creator, gens, revoked, conn, want, notifying, queue>>

-----------------------------------------------------------------------------
(* Connections                                                               *)

(* A client with no link makes a new connection, which the server admits.    *)
Connect(d) == \E n \in 1 .. MaxLinks :
    /\ client[d].link = NoLink /\ revoked[d] = "no"
    /\ conn[<<d, n>>] = "none" /\ \A i \in 1 .. n - 1 : conn[<<d, i>>] # "none"
    /\ conn' = [conn EXCEPT ![<<d, n>>] = "open"]
    /\ client' = [client EXCEPT ![d].link = n]
    /\ UNCHANGED <<serverVars, bound, want, bell, notifying, queue, paced>>

(* The client's link ended.  A claim it was preparing on it fails.  The      *)
(* server may learn of it later, after dispatching what had arrived.         *)
LinkEnds(d) ==
    /\ client[d].link # NoLink
    /\ client' = [client EXCEPT ![d].link = NoLink, ![d].permit = NoPermit]
    /\ UNCHANGED <<serverVars, servedVars>>

(* The server queued a goodbye, for example for a stalled connection.        *)
Goodbye(c) ==
    /\ "goodbye" \in Events /\ Open(c)
    /\ conn' = [conn EXCEPT ![c] = "closing"]
    /\ UNCHANGED <<serverVars, bound, want, bell, notifying, queue, client,
                   paced>>

(* The I/O thread ended: Ended::drop, Served::disconnected.                  *)
disconnected(c) ==
    /\ Registered(c) /\ (conn[c] = "closing" \/ ~Hears(c))
    /\ conn' = [conn EXCEPT ![c] = "gone"]
    /\ bound' = [bound EXCEPT ![c] = NoLease]
    /\ want' = [want EXCEPT ![c] = FALSE]
    /\ queue' = [queue EXCEPT ![c] = <<>>]
    /\ bell' = (bell \/ ~reroute(bound'))
    /\ host' = Unlinked(host, c)
    /\ UNCHANGED <<boot, listed, creator, gens, ends, revoked, notifying,
                   client, paced>>

-----------------------------------------------------------------------------
(* The client                                                                *)

(* Attachments::attach: a new generation, saved before any claim uses it.    *)
attach(d) ==
    /\ client[d].attached = 0 /\ client[d].next < MaxGeneration
    /\ client' = [client EXCEPT ![d].next = @ + 1, ![d].attached = client[d].next + 1]
    /\ UNCHANGED <<serverVars, servedVars>>

(* Attachments::detach: the removal and the release it owes, in one save.    *)
detach(d) ==
    /\ client[d].attached # 0
    /\ client' = [client EXCEPT ![d].attached = 0, ![d].pending = client[d].attached]
    /\ UNCHANGED <<serverVars, servedVars>>

(* AttachmentPermit::claim, up to the releases it sends first: the permit is *)
(* checked, then the releases owed are read.                                 *)
Permit(d, kind) ==
    /\ client[d].attached # 0 /\ client[d].link # NoLink
    /\ client[d].permit = NoPermit
    /\ kind \in Informed => client[d].offer # NoTarget
    /\ client' = [client EXCEPT ![d].permit =
                     [gen |-> client[d].attached, kind |-> kind, waits |-> client[d].pending]]
    /\ UNCHANGED <<serverVars, servedVars>>

Sends(d, m) ==
    LET c == <<d, client[d].link>>
    IN  /\ client[d].link # NoLink /\ Len(queue[c]) < MaxQueue
        /\ queue' = [queue EXCEPT ![c] = Append(@, m)]

(* The claim follows its releases.  A detach since the permit was checked    *)
(* does not stop it.                                                         *)
SendClaim(d) ==
    LET k == client[d].permit
    IN  /\ k # NoPermit /\ k.waits = 0
        /\ Sends(d, [kind |-> k.kind, gen |-> k.gen,
                     target |-> IF k.kind \in Informed THEN client[d].offer ELSE NoTarget])
        /\ client' = [client EXCEPT ![d].permit = NoPermit]
        /\ UNCHANGED <<serverVars, conn, bound, want, bell, notifying, paced>>

(* Attachments::release_pending, from the claim and from the Workspace loop. *)
release_pending(d) ==
    /\ client[d].pending # 0
    /\ Sends(d, [kind |-> "release", gen |-> client[d].pending, target |-> NoTarget])
    /\ UNCHANGED <<serverVars, conn, bound, want, bell, notifying, client,
                   paced>>

(* Input, another operation, a release or a close on the claimed channel.    *)
SendOnChannel(d, kind) ==
    /\ client[d].attached # 0
    /\ Sends(d, [kind |-> kind, gen |-> 0, target |-> NoTarget])
    /\ UNCHANGED <<serverVars, conn, bound, want, bell, notifying, client,
                   paced>>

-----------------------------------------------------------------------------
(* Edits, revocation and restart                                             *)

(* An accepted edit removed the Pane, or named its Session to end.           *)
DeletePane ==
    /\ "delete" \in Events /\ listed /\ listed' = FALSE
    /\ UNCHANGED <<boot, creator, host, gens, ends, revoked, servedVars,
                   client>>
EndAllSessions ==
    /\ "endall" \in Events /\ listed /\ Lives(host) /\ ends = 0
    /\ ends' = host.pane.session
    /\ UNCHANGED <<boot, listed, creator, host, gens, revoked, servedVars,
                   client>>

(* PairedConnections::revoke queues the goodbyes; then the service learns.   *)
Revoke(d) ==
    /\ "revoke" \in Events /\ revoked[d] = "no"
    /\ revoked' = [revoked EXCEPT ![d] = "goodbye"]
    /\ conn' = [c \in Connections |->
                   IF Owner(c) = d /\ Open(c) THEN "closing" ELSE conn[c]]
    /\ UNCHANGED <<boot, listed, creator, host, gens, ends, bound, want, bell,
                   notifying, queue, client, paced>>
Revoked(d) ==
    /\ revoked[d] = "goodbye" /\ revoked' = [revoked EXCEPT ![d] = "done"]
    /\ host' = release_control(host, d)
    /\ creator' = IF creator = d THEN NoDevice ELSE creator
    /\ gens' = [gens EXCEPT ![d] = [claimed |-> 0, released |-> 0]]
    /\ bell' = TRUE
    /\ UNCHANGED <<boot, listed, ends, conn, bound, want, notifying, queue,
                   client, paced>>

(* An identity the registry evicts to admit another has no connection left.  *)
Evict(d) ==
    /\ "evict" \in Events /\ revoked[d] = "no"
    /\ \A c \in Connections : Owner(c) = d => ~Registered(c)
    /\ host' = release_control(host, d)
    /\ bell' = TRUE
    /\ UNCHANGED <<boot, listed, creator, gens, ends, revoked, conn, bound,
                   want,
                   notifying, queue, client, paced>>

(* A new start restores the organization: no Session, no grant, no creator's *)
(* reservation and no generation survives it.                                *)
Restart ==
    /\ boot < MaxBoots /\ boot' = boot + 1
    /\ host' = [pane |-> NoPane, dormant |-> NoDormant, identity |-> TRUE]
    /\ creator' = NoDevice /\ ends' = 0 /\ notifying' = 0 /\ bell' = FALSE /\ paced' = FALSE
    /\ gens' = [d \in Devices |-> [claimed |-> 0, released |-> 0]]
    /\ conn' = [c \in Connections |-> IF Registered(c) THEN "gone" ELSE conn[c]]
    /\ bound' = [c \in Connections |-> NoLease]
    /\ want' = [c \in Connections |-> FALSE]
    /\ queue' = [c \in Connections |-> <<>>]
    /\ UNCHANGED <<listed, revoked, client>>

-----------------------------------------------------------------------------

Init ==
    /\ boot = 1 /\ listed = TRUE
    /\ creator \in Peers
    /\ host = [pane |-> NoPane, dormant |-> NoDormant, identity |-> TRUE]
    /\ gens = [d \in Devices |-> [claimed |-> 0, released |-> 0]]
    /\ ends = 0
    /\ revoked = [d \in Devices |-> "no"]
    /\ conn = [c \in Connections |-> "none"]
    /\ bound = [c \in Connections |-> NoLease]
    /\ want = [c \in Connections |-> FALSE]
    /\ bell = FALSE /\ paced = FALSE /\ notifying = 0
    /\ queue = [c \in Connections |-> <<>>]
    /\ client = [d \in Devices |-> [attached |-> 0, pending |-> 0, next |-> 0,
                                    link |-> NoLink, permit |-> NoPermit,
                                    offer |-> NoTarget]]

Next ==
    \/ \E c \in Connections : Claim(c) \/ Release(c) \/ OnChannel(c)
                             \/ publish(c) \/ disconnected(c) \/ Goodbye(c)
    \/ \E how \in Exits : Exit(how)
    \/ notify
    \/ \E defers \in BOOLEAN : tick(defers)
    \/ \E d \in Devices :
         \/ Connect(d) \/ LinkEnds(d) \/ attach(d) \/ detach(d)
         \/ SendClaim(d) \/ release_pending(d)
         \/ Revoke(d) \/ Revoked(d) \/ Evict(d)
         \/ \E kind \in Requests \cap Claims : Permit(d, kind)
         \/ \E kind \in Requests \ Claims : SendOnChannel(d, kind)
    \/ DeletePane \/ EndAllSessions \/ Restart

Spec == Init /\ [][Next]_vars

(* The host's thread runs once its bell rang and no longer puts work off     *)
(* once the presentation interval passed, a connection's I/O thread          *)
(* publishes when asked and ends once its client is gone, and the session's  *)
(* worker calls its notifier.  Each is weak fairness with the guard that     *)
(* enables the action written out.                                           *)
Publishes(c) == Registered(c) /\ want[c]
Ends(c) == Registered(c) /\ (conn[c] = "closing" \/ ~Hears(c))
Fairness ==
    /\ []<>~(bell \/ paced) \/ []<><<tick(FALSE)>>_vars
    /\ []<>(notifying = 0) \/ []<><<notify>>_vars
    /\ \A c \in Connections :
         /\ []<>(~Publishes(c)) \/ []<><<publish(c)>>_vars
         /\ []<>(~Ends(c)) \/ []<><<disconnected(c)>>_vars
FairSpec == Spec /\ Fairness

-----------------------------------------------------------------------------
(* Properties                                                                *)

PaneType == [device : Peers, gen : 0 .. MaxGeneration, session : Names,
             control : Names \cup {0}, link : Connections, connected : BOOLEAN,
             exit : {"none", "zero", "kept", "failed", "nodir"},
             drained : BOOLEAN, restart : BOOLEAN]
LeaseType == [session : Names, control : Names \cup {0}, link : Connections]
TargetType == [boot : 0 .. MaxBoots, session : Names \cup {0}]
HostType == [pane : PaneType \cup {NoPane},
             dormant : [device : Peers, gen : 0 .. MaxGeneration, kept : BOOLEAN],
             identity : BOOLEAN]
MessageType == [kind : Claims \cup {"release", "input", "command", "drop", "close"},
                gen : 0 .. MaxGeneration, target : TargetType]

PermitType == {NoPermit} \cup [gen : 0 .. MaxGeneration, kind : Claims,
                               waits : 0 .. MaxGeneration]
ClientType == [attached : 0 .. MaxGeneration, pending : 0 .. MaxGeneration,
               next : 0 .. MaxGeneration, link : 0 .. MaxLinks,
               permit : PermitType, offer : TargetType]

(* Every variable keeps its type: at most one live Pane, whose generations,  *)
(* nonces and links stay in the ranges the model names.                      *)
TypeOK ==
    /\ boot \in 1 .. MaxBoots /\ listed \in BOOLEAN /\ creator \in Peers
    /\ host \in HostType
    /\ gens \in [Devices -> [claimed : 0 .. MaxGeneration, released : 0 .. MaxGeneration]]
    /\ ends \in Names \cup {0} /\ notifying \in Names \cup {0}
    /\ revoked \in [Devices -> {"no", "goodbye", "done"}]
    /\ conn \in [Connections -> {"none", "open", "closing", "gone"}]
    /\ bound \in [Connections -> LeaseType \cup {NoLease}]
    /\ want \in [Connections -> BOOLEAN] /\ bell \in BOOLEAN /\ paced \in BOOLEAN
    /\ queue \in [Connections -> Seq(MessageType)]
    /\ \A c \in Connections : Len(queue[c]) <= MaxQueue
    /\ client \in [Devices -> ClientType]

Grants == (IF Lives(host) THEN {<<host.pane.device, host.pane.gen>>} ELSE {})
          \cup (IF Sleeps(host) THEN {<<host.dormant.device, host.dormant.gen>>} ELSE {})

(* Every grant on a listed Pane is one its client still answers for: it was  *)
(* made under the client's current attachment, or under one no newer than    *)
(* the release the client still owes.  So a client that detached and had its *)
(* release answered controls nothing, whatever claims were under way, lost   *)
(* or late, and whatever became of the Session.                              *)
GrantIsAccountedFor ==
    listed => \A g \in Grants : g[1] # NoDevice =>
        \/ g[2] = client[g[1]].attached
        \/ g[2] <= client[g[1]].pending

(* Once the service learned of a revocation, the device holds no grant and   *)
(* no reservation: no claim received before it is dispatched after it.       *)
RevokedHoldsNothing ==
    \A d \in Devices : revoked[d] = "done" =>
        d \notin {g[1] : g \in Grants} \cup {creator}

(* The step dispatches the connection's next request.                        *)
Serves(c) == Open(c) /\ queue'[c] = Tail(queue[c]) /\ boot' = boot

(* Control of a running Session leaves a client only for a reason ADR 0022   *)
(* allows: another client chose Take Over, the client itself released the    *)
(* channel or an attachment no older than the grant's, or it was revoked or  *)
(* evicted.  In particular no late release takes a newer attachment's grant. *)
ControlLeavesForAReason ==
    [][ \A d \in Devices :
          ( Lives(host) /\ Lives(host') /\ host.pane.session = host'.pane.session
            /\ host.pane.device = d /\ host'.pane.device # d )
          => \/ \E c \in Connections : \E m \in Received(c) : Serves(c) /\
                 \/ m.kind = "takeover" /\ Owner(c) = host'.pane.device
                 \/ m.kind = "drop" /\ Owner(c) = d
                 \/ m.kind = "release" /\ Owner(c) = d /\ m.gen >= host.pane.gen
             \/ revoked'[d] # revoked[d]
             \/ "evict" \in Events /\ \A c \in Connections : Owner(c) = d => ~Registered(c) ]_vars

(* A passive selection, as a reconnecting or waiting client sends, gives     *)
(* nobody control and starts nothing: at most it resumes, on the client's    *)
(* own attachment, the grant it already had.                                 *)
PassiveAcquiresNothing ==
    [][ \A c \in Connections : \A m \in Received(c) :
          Serves(c) /\ m.kind = "observe" /\ Lives(host')
          => /\ Lives(host) /\ host.pane.session = host'.pane.session
             /\ host.pane.device = host'.pane.device
             /\ host.pane.gen = host'.pane.gen ]_vars

(* A running Session is never replaced: a start that finds one running would *)
(* leave its shell without a Pane.                                           *)
SessionsNeverReplaced ==
    [][ Lives(host) /\ Lives(host') /\ host.pane.session # host'.pane.session
        => host.pane.exit # "none" ]_vars

(* A Pane whose Session ended in this run stays on Session Ended until a     *)
(* client asks for Start Session, in one of the claims that can: selecting   *)
(* it starts no shell.                                                       *)
EndedWaitsForStart ==
    [][ Lives(host') /\ (Sleeps(host) \/ (Lives(host) /\ host.pane.exit = "kept"
                                         /\ host.pane.session # host'.pane.session))
        => \E c \in Connections : \E m \in Received(c) :
             Serves(c) /\ m.kind \in {"start", "takeover", "repair"} ]_vars

-----------------------------------------------------------------------------
(* Liveness                                                                  *)

(* The shell's exit is noticed: its Session is retired whichever connection  *)
(* its notification went to and whatever became of that connection.          *)
ExitIsNoticed ==
    (Lives(host) /\ host.pane.exit \in {"kept", "nodir", "zero"})
        ~> (~Lives(host) \/ host.pane.exit = "none")

(* A channel whose lease is no longer the Pane's is told so and freed.       *)
DeadChannelsEnd ==
    \A c \in Connections :
        (bound[c] # NoLease /\ ~LeaseLive(host, bound[c]))
            ~> (bound[c] = NoLease \/ LeaseLive(host, bound[c]))

-----------------------------------------------------------------------------
(* Why the two invariants hold: the parts of an inductive invariant.         *)

(* The client answers for this generation: it is attached by it, or owes a   *)
(* release that covers it.                                                   *)
Answers(d, g) == g = client[d].attached \/ g <= client[d].pending

(* The generation may still be granted, or the server will fence it.         *)
Current(d, g) == Answers(d, g) \/ g <= gens[d].released

(* Generations only grow: a release is never owed for the attachment in use. *)
GenerationsInOrder ==
    \A d \in Devices :
        /\ client[d].pending <= client[d].next
        /\ client[d].attached # 0 => /\ client[d].attached = client[d].next
                                     /\ client[d].pending < client[d].attached

(* A claim that can still be dispatched, sent or about to be sent, is one    *)
(* its client answers for unless the server has a release that fences it.    *)
ClaimsAreCurrent ==
    \A c \in Connections : Open(c) =>
        /\ \A i \in 1 .. Len(queue[c]) :
              queue[c][i].kind \in Claims => Current(Owner(c), queue[c][i].gen)
        /\ client[Owner(c)].link = c[2] /\ client[Owner(c)].permit # NoPermit =>
              Current(Owner(c), client[Owner(c)].permit.gen)

(* A client prepares claims only on a connection it made, and nothing was    *)
(* sent on a connection before it was made.                                  *)
LinksAreMade ==
    /\ \A d \in Devices :
          IF client[d].link = NoLink THEN client[d].permit = NoPermit
          ELSE conn[<<d, client[d].link>>] # "none"
    /\ \A c \in Connections : conn[c] = "none" => queue[c] = <<>>

(* No connection of a device whose revocation began is served any more.      *)
RevokedAreClosed ==
    \A c \in Connections : revoked[Owner(c)] # "no" => ~Open(c)

(* The lease a channel is bound to was claimed on it, so that at most one    *)
(* channel observes the Pane.                                                *)
LeasesAreOfTheirChannel ==
    \A c \in Connections : bound[c] # NoLease => bound[c].link = c

GrantInv ==
    /\ GrantIsAccountedFor /\ GenerationsInOrder /\ ClaimsAreCurrent
    /\ LinksAreMade /\ LeasesAreOfTheirChannel
    /\ RevokedHoldsNothing /\ RevokedAreClosed
=============================================================================
