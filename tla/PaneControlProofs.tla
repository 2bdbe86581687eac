-------------------------- MODULE PaneControlProofs --------------------------
(***************************************************************************)
(* Proofs about module PaneControl, for every set of clients and every     *)
(* bound: which client holds a grant, until when, and what may end it.     *)
(***************************************************************************)
EXTENDS PaneControl, FiniteSetTheorems, TLAPS

(* The client holds a grant of this generation, live or kept.                *)
Holds(h, d, g) ==
    \/ Lives(h) /\ h.pane.device = d /\ h.pane.gen = g
    \/ Sleeps(h) /\ h.dormant.device = d /\ h.dormant.gen = g

(* The step from h to r gives no client a grant.                             *)
GrantsNothing(h, r) ==
    \A d \in Devices, g \in 0 .. MaxGeneration : Holds(r, d, g) => Holds(h, d, g)

-----------------------------------------------------------------------------
(* Names                                                                     *)

(* There are finitely many connections.                                      *)
LEMMA FiniteConnections ==
    /\ IsFiniteSet(Devices) /\ Cardinality(Devices) \in Nat
    /\ IsFiniteSet(Connections) /\ Cardinality(Connections) \in Nat
<1>1. IsFiniteSet(Devices) BY PaneControlAssumption
<1>2. IsFiniteSet(1 .. MaxLinks) BY FS_Interval, PaneControlAssumption
<1>3. IsFiniteSet(Connections) BY <1>1, <1>2, FS_Product DEF Connections
<1> QED BY <1>1, <1>3, FS_CardinalityType

(* The union of two finite sets is no larger than both together.             *)
LEMMA UnionIsSmall ==
    ASSUME NEW S, NEW R, IsFiniteSet(S), IsFiniteSet(R)
    PROVE  /\ IsFiniteSet(S \cup R)
           /\ Cardinality(S \cup R) <= Cardinality(S) + Cardinality(R)
<1>1. IsFiniteSet(S \cap R) BY FS_Subset
<1>2. /\ Cardinality(S) \in Nat /\ Cardinality(R) \in Nat
      /\ Cardinality(S \cap R) \in Nat
  BY <1>1, FS_CardinalityType
<1>3. /\ IsFiniteSet(S \cup R)
      /\ Cardinality(S \cup R)
           = Cardinality(S) + Cardinality(R) - Cardinality(S \cap R)
  BY FS_Union
<1> QED BY <1>2, <1>3

(* A nonce that must differ from at most as many names as there are          *)
(* connections, clients and three more exists, and is a name.                *)
LEMMA FreshIsFresh ==
    ASSUME NEW A, NEW B, NEW T, IsFiniteSet(A), IsFiniteSet(B), IsFiniteSet(T),
           Cardinality(A) <= Cardinality(Connections),
           Cardinality(B) <= Cardinality(Devices), Cardinality(T) <= 3
    PROVE  Fresh(A \cup B \cup T) \in Names \ (A \cup B \cup T)
<1> DEFINE U == A \cup B \cup T
<1>1. /\ IsFiniteSet(A \cup B)
      /\ Cardinality(A \cup B) <= Cardinality(A) + Cardinality(B)
  BY UnionIsSmall
<1>2. /\ IsFiniteSet(U)
      /\ Cardinality(U) <= Cardinality(A \cup B) + Cardinality(T)
  BY UnionIsSmall, <1>1
<1>3. Cardinality(U) <= Cardinality(Connections) + Cardinality(Devices) + 3
  <2>1. /\ Cardinality(A) \in Nat /\ Cardinality(B) \in Nat
        /\ Cardinality(T) \in Nat /\ Cardinality(A \cup B) \in Nat
        /\ Cardinality(U) \in Nat
    BY <1>1, <1>2, FS_CardinalityType
  <2> QED BY <2>1, <1>1, <1>2, FiniteConnections
<1>4. /\ IsFiniteSet(Names)
      /\ Cardinality(Names) = Cardinality(Connections) + Cardinality(Devices) + 4
  <2> DEFINE top == Cardinality(Connections) + Cardinality(Devices) + 4
  <2>1. top \in Int /\ 1 \in Int /\ ~(1 > top) /\ top - 1 + 1 = top
    BY FiniteConnections
  <2> HIDE DEF top
  <2>2. IsFiniteSet(1 .. top) /\ Cardinality(1 .. top) = top BY <2>1, FS_Interval
  <2> QED BY <2>2 DEF Names, top
<1>5. \E n \in Names : n \notin U
  <2> SUFFICES ASSUME Names \subseteq U PROVE FALSE OBVIOUS
  <2>1. Cardinality(Names) <= Cardinality(U) BY <1>2, FS_Subset
  <2> QED BY <2>1, <1>2, <1>3, <1>4, FiniteConnections, FS_CardinalityType
<1> QED BY <1>5 DEF Fresh

(* What a function takes on a finite set is no larger than the set.          *)
LEMMA ImageIsSmall ==
    ASSUME NEW S, IsFiniteSet(S), NEW f, f = [x \in S |-> f[x]]
    PROVE  /\ IsFiniteSet({f[x] : x \in S})
           /\ Cardinality({f[x] : x \in S}) <= Cardinality(S)
<1> DEFINE T == {f[x] : x \in S}
<1>1. f \in Surjection(S, T) BY DEF Surjection
<1> QED BY <1>1, FS_Surjection

(* At most one name more.                                                    *)
LEMMA FewMore ==
    ASSUME NEW a, NEW b, NEW p, NEW q \in BOOLEAN
    PROVE  LET T == {a, b} \cup (IF q THEN {p} ELSE {})
           IN  IsFiniteSet(T) /\ Cardinality(T) <= 3
<1> DEFINE A == {a}
           B == {b}
           R == IF q THEN {p} ELSE {}
<1>1. IsFiniteSet(A) /\ Cardinality(A) = 1 BY FS_Singleton
<1>2. IsFiniteSet(B) /\ Cardinality(B) = 1 BY FS_Singleton
<1>3. IsFiniteSet(R) /\ Cardinality(R) <= 1 /\ Cardinality(R) \in Nat
  <2>1. CASE q
    <3>1. R = {p} BY <2>1
    <3>2. IsFiniteSet({p}) /\ Cardinality({p}) = 1 BY FS_Singleton
    <3> HIDE DEF R
    <3> QED BY <3>1, <3>2
  <2>2. CASE ~q
    <3>1. R = {} BY <2>2
    <3>2. IsFiniteSet({}) /\ Cardinality({}) = 0 BY FS_EmptySet
    <3> HIDE DEF R
    <3> QED BY <3>1, <3>2
  <2> QED BY <2>1, <2>2
<1>4. {a, b} \cup (IF q THEN {p} ELSE {}) = (A \cup B) \cup R OBVIOUS
<1> HIDE DEF A, B, R
<1>5. IsFiniteSet(A \cup B) /\ Cardinality(A \cup B) <= 2
  BY <1>1, <1>2, UnionIsSmall
<1>6. Cardinality(A \cup B) \in Nat BY <1>5, FS_CardinalityType
<1>7. /\ IsFiniteSet((A \cup B) \cup R)
      /\ Cardinality((A \cup B) \cup R) <= Cardinality(A \cup B) + Cardinality(R)
  BY <1>3, <1>5, UnionIsSmall
<1>8. Cardinality((A \cup B) \cup R) \in Nat BY <1>7, FS_CardinalityType
<1> QED BY <1>3, <1>4, <1>5, <1>6, <1>7, <1>8

(* A new Session's name differs from every name still held.                  *)
LEMMA SessionNonceIsFresh ==
    /\ SessionNonce \in Names
    /\ \A c \in Connections : SessionNonce # bound[c].session
    /\ Lives(host) => SessionNonce # host.pane.session
<1> DEFINE f == [c \in Connections |-> bound[c].session]
           g == [d \in Devices |-> client[d].offer.session]
           A == {f[c] : c \in Connections}
           B == {g[d] : d \in Devices}
           T == {ends, notifying}
                  \cup (IF Lives(host) THEN {host.pane.session} ELSE {})
<1>1. IsFiniteSet(A) /\ Cardinality(A) <= Cardinality(Connections)
  <2> HIDE DEF A
  <2>1. f = [x \in Connections |-> f[x]] OBVIOUS
  <2> HIDE DEF f
  <2> QED BY <2>1, FiniteConnections, ImageIsSmall DEF A
<1>2. IsFiniteSet(B) /\ Cardinality(B) <= Cardinality(Devices)
  <2> HIDE DEF B
  <2>1. g = [x \in Devices |-> g[x]] OBVIOUS
  <2> HIDE DEF g
  <2> QED BY <2>1, FiniteConnections, ImageIsSmall DEF B
<1>3. IsFiniteSet(T) /\ Cardinality(T) <= 3
  <2>1. Lives(host) \in BOOLEAN BY DEF Lives
  <2> QED BY <2>1, FewMore
<1>4. SessionNonce = Fresh(A \cup B \cup T)
  <2>1. A = {bound[c].session : c \in Connections} OBVIOUS
  <2>2. B = {client[d].offer.session : d \in Devices} OBVIOUS
  <2>3. A \cup B \cup T = A \cup B \cup {ends, notifying}
                            \cup (IF Lives(host) THEN {host.pane.session} ELSE {})
    OBVIOUS
  <2> HIDE DEF A, B, T
  <2> QED BY <2>1, <2>2, <2>3 DEF SessionNonce
<1>5. SessionNonce \in Names \ (A \cup B \cup T)
  <2> HIDE DEF A, B, T
  <2> QED BY <1>1, <1>2, <1>3, <1>4, FreshIsFresh
<1> QED BY <1>5

(* A new control nonce differs from the one of every lease.                  *)
LEMMA ControlNonceIsFresh ==
    /\ ControlNonce \in Names
    /\ \A c \in Connections : bound[c] # NoLease => ControlNonce # bound[c].control
    /\ Lives(host) => ControlNonce # host.pane.control
<1> DEFINE C == {d \in Connections : bound[d] # NoLease}
           f == [c \in C |-> bound[c].control]
           A == {f[c] : c \in C}
           T == IF Lives(host) THEN {host.pane.control} ELSE {}
<1>1. IsFiniteSet(C) /\ Cardinality(C) <= Cardinality(Connections)
  BY FiniteConnections, FS_Subset
<1>2. IsFiniteSet(A) /\ Cardinality(A) <= Cardinality(Connections)
  <2>1. f = [x \in C |-> f[x]] OBVIOUS
  <2>2. IsFiniteSet(A) /\ Cardinality(A) <= Cardinality(C)
    <3> HIDE DEF f, C
    <3> QED BY <2>1, <1>1, ImageIsSmall
  <2> HIDE DEF A, C
  <2> QED BY <2>2, <1>1, FiniteConnections, FS_CardinalityType
<1>3. IsFiniteSet({}) /\ Cardinality({}) <= Cardinality(Devices)
  BY FS_EmptySet, FiniteConnections
<1>4. IsFiniteSet(T) /\ Cardinality(T) <= 3
  <2>1. IsFiniteSet({host.pane.control}) /\ Cardinality({host.pane.control}) = 1
    BY FS_Singleton
  <2>2. IsFiniteSet({}) /\ Cardinality({}) = 0 BY FS_EmptySet
  <2> QED BY <2>1, <2>2
<1>5. ControlNonce = Fresh(A \cup {} \cup T)
  <2>1. A = {bound[c].control : c \in {d \in Connections : bound[d] # NoLease}}
    OBVIOUS
  <2>2. A \cup {} \cup T = A \cup T OBVIOUS
  <2> HIDE DEF A
  <2> QED BY <2>1, <2>2 DEF ControlNonce
<1>6. ControlNonce \in Names \ (A \cup {} \cup T)
  <2> HIDE DEF A, T
  <2> QED BY <1>2, <1>3, <1>4, <1>5, FreshIsFresh
<1> QED BY <1>6

-----------------------------------------------------------------------------
(* The Pane host's operations                                                *)

(* A Pane's record is not the one that stands for no Pane, and a lease not   *)
(* the one that stands for none.                                             *)
LEMMA PaneIsNotNoPane ==
    /\ NoPane \notin PaneType /\ NoLease \notin LeaseType
    /\ \A p \in PaneType : Lease(p) \in LeaseType /\ Lease(p) # NoLease
<1>1. NoPane \notin PaneType BY DEF NoPane, PaneType
<1>2. NoLease \notin LeaseType BY DEF NoLease, LeaseType
<1>3. \A p \in PaneType : Lease(p) \in LeaseType BY DEF PaneType, LeaseType, Lease
<1> QED BY <1>1, <1>2, <1>3

(* The kept Session of a Pane carries the Pane's grant.                      *)
LEMMA DormantType ==
    ASSUME NEW p \in PaneType
    PROVE  /\ DormantOf(p) \in [device : Peers, gen : 0 .. MaxGeneration, kept : BOOLEAN]
           /\ DormantOf(p).device = p.device /\ DormantOf(p).gen = p.gen
           /\ NoDormant \in [device : Peers, gen : 0 .. MaxGeneration, kept : BOOLEAN]
  BY PaneControlAssumption DEF DormantOf, PaneType, NoDormant, Peers

(* Giving no grant is transitive.                                            *)
LEMMA GrantsNothingTwice ==
    ASSUME NEW h, NEW r, NEW q, GrantsNothing(h, r), GrantsNothing(r, q)
    PROVE  GrantsNothing(h, q)
  BY DEF GrantsNothing

(* A host without a live Pane whose kept Session has the Pane's grant, or    *)
(* the one it had, has no new grant.                                         *)
LEMMA RetiringGrantsNothing ==
    ASSUME NEW h \in HostType, NEW q \in HostType, ~Lives(q),
           \/ q.dormant = h.dormant
           \/ Lives(h) /\ q.dormant = DormantOf(h.pane)
    PROVE  GrantsNothing(h, q)
<1> SUFFICES ASSUME NEW d \in Devices, NEW g \in 0 .. MaxGeneration, Holds(q, d, g)
             PROVE  Holds(h, d, g)
  BY DEF GrantsNothing
<1>1. q.dormant.kept /\ q.dormant.device = d /\ q.dormant.gen = g
  BY DEF Holds, Sleeps
<1>2. CASE q.dormant = h.dormant BY <1>1, <1>2 DEF Holds, Sleeps
<1>3. CASE Lives(h) /\ q.dormant = DormantOf(h.pane)
  BY <1>1, <1>3 DEF Holds, DormantOf
<1> QED BY <1>2, <1>3

(* Taking the events a Session queued changes no grant.                      *)
LEMMA DrainKeeps ==
    ASSUME NEW h \in HostType
    PROVE  /\ drain(h) \in HostType /\ GrantsNothing(h, drain(h))
           /\ Lives(drain(h)) = Lives(h)
           /\ drain(h).dormant = h.dormant /\ drain(h).identity = h.identity
           /\ Lives(h) => /\ drain(h).pane \in PaneType
                          /\ drain(h).pane = [h.pane EXCEPT !.drained = drain(h).pane.drained]
  BY PaneIsNotNoPane DEF drain, HostType, PaneType, GrantsNothing, Holds, Lives, Sleeps, NoPane

(* Taking them again changes nothing.                                        *)
LEMMA DrainTwice ==
    ASSUME NEW h \in HostType, Lives(h)
    PROVE  drain(drain(h)).pane = drain(h).pane
<1>1. h.pane \in PaneType BY DEF HostType, Lives
<1>2. CASE h.pane.exit = "none" BY <1>2 DEF drain
<1>3. CASE h.pane.exit # "none"
  <2> DEFINE p == [h.pane EXCEPT !.drained = TRUE]
  <2>1. drain(h).pane = p BY <1>3, <1>1 DEF drain, HostType
  <2>2. drain(h) \in HostType BY DrainKeeps
  <2>3. p = [p EXCEPT !.drained = TRUE] BY <1>1 DEF PaneType
  <2> HIDE DEF p
  <2> QED BY <2>1, <2>2, <2>3 DEF drain, HostType
<1> QED BY <1>2, <1>3

(* An exit that retires the Pane moves its grant to the kept Session, or     *)
(* drops it.                                                                 *)
LEMMA RetireKeeps ==
    ASSUME NEW h \in HostType
    PROVE  /\ retire_exited(h) \in HostType /\ GrantsNothing(h, retire_exited(h))
           /\ Lives(retire_exited(h)) => /\ Lives(h)
                                         /\ retire_exited(h).pane = drain(h).pane
<1> DEFINE r == drain(h)
           p == r.pane
           q == retire_exited(h)
<1>0. /\ r \in HostType /\ GrantsNothing(h, r) /\ (Lives(r) <=> Lives(h))
      /\ Lives(h) => p \in PaneType
  BY DrainKeeps
<1>1. CASE Lives(r) /\ p.drained /\ p.exit = "nodir"
  <2>1. q = [r EXCEPT !.pane = NoPane,
                      !.dormant = IF p.restart THEN DormantOf(p) ELSE @]
    BY <1>1 DEF retire_exited
  <2> HIDE DEF q, r
  <2>2. q \in HostType BY <2>1, <1>0, <1>1, DormantType DEF HostType
  <2>3. ~Lives(q) BY <2>1, <1>0 DEF Lives, HostType
  <2>4. q.dormant \in {r.dormant, DormantOf(p)} BY <2>1, <1>0 DEF HostType
  <2>5. GrantsNothing(r, q) BY <2>2, <2>3, <2>4, <1>0, <1>1, RetiringGrantsNothing
  <2> QED BY <2>2, <2>3, <2>5, <1>0, GrantsNothingTwice DEF q

<1>2. CASE Lives(r) /\ p.drained /\ p.exit = "kept"
  <2>1. q = [r EXCEPT !.pane = NoPane, !.dormant = DormantOf(p)]
    BY <1>2 DEF retire_exited
  <2> HIDE DEF q, r
  <2>2. q \in HostType BY <2>1, <1>0, <1>2, DormantType DEF HostType
  <2>3. ~Lives(q) BY <2>1, <1>0 DEF Lives, HostType
  <2>4. q.dormant \in {r.dormant, DormantOf(p)} BY <2>1, <1>0 DEF HostType
  <2>5. GrantsNothing(r, q) BY <2>2, <2>3, <2>4, <1>0, <1>2, RetiringGrantsNothing
  <2> QED BY <2>2, <2>3, <2>5, <1>0, GrantsNothingTwice DEF q
<1>3. CASE Lives(r) /\ p.drained /\ p.exit = "zero"
  <2>1. q = [r EXCEPT !.identity = FALSE]
    BY <1>3 DEF retire_exited
  <2> HIDE DEF q, r
  <2>2. q \in HostType BY <2>1, <1>0 DEF HostType
  <2>3. q.pane = r.pane /\ q.dormant = r.dormant BY <2>1, <1>0 DEF HostType
  <2>4. GrantsNothing(r, q) BY <2>3 DEF GrantsNothing, Holds, Lives, Sleeps
  <2>5. Lives(q) => Lives(h) BY <2>3, <1>0 DEF Lives
  <2>6. GrantsNothing(h, q) BY <2>4, <1>0, GrantsNothingTwice
  <2> QED BY <2>2, <2>3, <2>5, <2>6 DEF q, r
<1>4. CASE ~(Lives(r) /\ p.drained /\ p.exit \in {"nodir", "kept", "zero"})
  <2>1. q = r BY <1>4 DEF retire_exited
  <2> QED BY <2>1, <1>0
<1> QED BY <1>1, <1>2, <1>3, <1>4

(* Making a Pane ready to be selected gives no grant; a Pane it leaves is    *)
(* the drained one.                                                          *)
LEMMA ReconcileKeeps ==
    ASSUME NEW h \in HostType
    PROVE  LET q == reconcile_selection(h) IN
           /\ q \in HostType /\ GrantsNothing(h, q)
           /\ Lives(q) => Lives(h) /\ q.pane = drain(h).pane
<1> DEFINE r == retire_exited(h)
           q == reconcile_selection(h)
<1>0. /\ r \in HostType /\ GrantsNothing(h, r)
      /\ Lives(r) => Lives(h) /\ r.pane = drain(h).pane
  BY RetireKeeps
<1>1. CASE Lives(r) /\ Ended(r.pane)
  <2>1. q = [r EXCEPT !.pane = NoPane] BY <1>1 DEF reconcile_selection
  <2> HIDE DEF q, r
  <2>2. q \in HostType /\ ~Lives(q) /\ q.dormant = r.dormant
    BY <2>1, <1>0 DEF HostType, Lives
  <2>3. GrantsNothing(r, q) BY <2>2, <1>0, RetiringGrantsNothing
  <2> QED BY <2>2, <2>3, <1>0, GrantsNothingTwice DEF q
<1>2. CASE ~(Lives(r) /\ Ended(r.pane))
  <2>1. q = r BY <1>2 DEF reconcile_selection
  <2> QED BY <2>1, <1>0
<1> QED BY <1>1, <1>2

(* Ending a Session keeps its grant with the ended Pane.                     *)
LEMMA EndSessionKeeps ==
    ASSUME NEW h \in HostType, NEW s
    PROVE  /\ end_session(h, s) \in HostType /\ GrantsNothing(h, end_session(h, s))
           /\ Lives(end_session(h, s)) => end_session(h, s) = h
<1> DEFINE q == end_session(h, s)
<1>1. CASE Lives(h) /\ h.pane.session = s
  <2>1. q = [h EXCEPT !.pane = NoPane, !.dormant = DormantOf(h.pane)]
    BY <1>1 DEF end_session
  <2>0. h.pane \in PaneType BY <1>1 DEF Lives, HostType
  <2> HIDE DEF q
  <2>2. q \in HostType /\ ~Lives(q) BY <2>1, <2>0, DormantType DEF HostType, Lives
  <2>3. q.dormant = DormantOf(h.pane) BY <2>1 DEF HostType
  <2>4. GrantsNothing(h, q) BY <2>2, <2>3, <1>1, RetiringGrantsNothing
  <2> QED BY <2>2, <2>4 DEF q
<1>2. CASE ~(Lives(h) /\ h.pane.session = s)
  BY <1>2 DEF end_session, GrantsNothing
<1> QED BY <1>1, <1>2

(* Losing a connection or a channel changes no grant.                        *)
LEMMA UnlinkedKeeps ==
    ASSUME NEW h \in HostType, NEW c
    PROVE  \A q \in {Unlinked(h, c), unbound(h, c)} :
             /\ q \in HostType /\ GrantsNothing(h, q)
             /\ (Lives(q) <=> Lives(h)) /\ q.dormant = h.dormant
             /\ Lives(h) => q.pane = [h.pane EXCEPT !.connected = q.pane.connected]
<1> DEFINE Good(q) ==
             /\ q \in HostType /\ GrantsNothing(h, q)
             /\ (Lives(q) <=> Lives(h)) /\ q.dormant = h.dormant
             /\ Lives(h) => q.pane = [h.pane EXCEPT !.connected = q.pane.connected]
<1>0. Good(h) BY DEF GrantsNothing, HostType, PaneType, Lives
<1>1. Good(Unlinked(h, c))
  <2>1. CASE Lives(h) /\ h.pane.link = c
    BY <2>1, PaneIsNotNoPane
    DEF Unlinked, HostType, PaneType, GrantsNothing, Holds, Lives, Sleeps, NoPane
  <2>2. CASE ~(Lives(h) /\ h.pane.link = c)
    <3>1. Unlinked(h, c) = h BY <2>2 DEF Unlinked
    <3> QED BY <3>1, <1>0
  <2> QED BY <2>1, <2>2
<1>2. unbound(h, c) \in {h, Unlinked(h, c)} BY DEF unbound
<1> QED BY <1>0, <1>1, <1>2

(* Releasing a client's control leaves it no grant and gives none.           *)
LEMMA ReleaseControlKeeps ==
    ASSUME NEW h \in HostType, NEW d \in Devices
    PROVE  /\ release_control(h, d) \in HostType
           /\ GrantsNothing(h, release_control(h, d))
           /\ \A g : ~Holds(release_control(h, d), d, g)
<1> DEFINE s == IF Sleeps(h) /\ h.dormant.device = d
                THEN [h EXCEPT !.dormant.device = NoDevice, !.dormant.gen = 0] ELSE h
           q == release_control(h, d)
<1>a. NoDevice \notin Devices /\ NoDevice \in Peers /\ 0 \in 0 .. MaxGeneration
  BY PaneControlAssumption DEF Peers
<1>1. /\ s \in HostType /\ s.pane = h.pane /\ s.identity = h.identity
      /\ ~(Sleeps(s) /\ s.dormant.device = d)
      /\ s.dormant = h.dormant \/ s.dormant.device = NoDevice
  BY <1>a DEF HostType, Sleeps
<1>2. q = IF Lives(s) /\ s.pane.device = d
          THEN [s EXCEPT !.pane = [Unclaimed(@, 0) EXCEPT !.gen = 0]] ELSE s
  BY DEF release_control
<1> HIDE DEF s, q
<1>3. /\ q \in HostType /\ q.dormant = s.dormant
      /\ ~(Lives(q) /\ q.pane.device = d)
      /\ Lives(q) => Lives(s) /\ (q.pane = s.pane \/ q.pane.device = NoDevice)
  <2>1. CASE Lives(s) /\ s.pane.device = d
    <3> DEFINE u == [Unclaimed(s.pane, 0) EXCEPT !.gen = 0]
    <3>1. s.pane \in PaneType BY <2>1, <1>1 DEF HostType, Lives
    <3>2. u \in PaneType /\ u.device = NoDevice
      BY <3>1, <1>a DEF PaneType, Unclaimed
    <3>3. q = [s EXCEPT !.pane = u] BY <2>1, <1>2
    <3> HIDE DEF u
    <3> QED BY <3>2, <3>3, <2>1, <1>1, <1>a DEF HostType
  <2>2. CASE ~(Lives(s) /\ s.pane.device = d) BY <2>2, <1>1, <1>2
  <2> QED BY <2>1, <2>2
<1>4. \A g : ~Holds(q, d, g) BY <1>1, <1>3 DEF Holds, Sleeps
<1>5. GrantsNothing(h, q)
  <2> SUFFICES ASSUME NEW e \in Devices, NEW g \in 0 .. MaxGeneration, Holds(q, e, g)
               PROVE  Holds(h, e, g)
    BY DEF GrantsNothing
  <2> QED BY <1>1, <1>3, <1>a DEF Holds, Sleeps, Lives
<1> QED BY <1>3, <1>4, <1>5 DEF q

(* A release of attachments up to gen leaves the client no grant of them,    *)
(* on a Pane the organization still names, and gives none.                   *)
LEMMA ReleaseAttachmentKeeps ==
    ASSUME NEW h \in HostType, NEW d \in Devices, NEW gen \in 0 .. MaxGeneration
    PROVE  /\ ReleaseAttachment(h, d, gen) \in HostType
           /\ GrantsNothing(h, ReleaseAttachment(h, d, gen))
           /\ listed => \A g \in 1 .. gen : ~Holds(ReleaseAttachment(h, d, gen), d, g)
<1> DEFINE s == IF Sleeps(h) /\ h.dormant.device = d /\ h.dormant.gen \in 1 .. gen
                THEN [h EXCEPT !.dormant.device = NoDevice, !.dormant.gen = 0] ELSE h
           q == ReleaseAttachment(h, d, gen)
<1>a. /\ NoDevice \notin Devices /\ NoDevice \in Peers /\ 0 \in 0 .. MaxGeneration
      /\ ControlNonce \in Names
  BY PaneControlAssumption, ControlNonceIsFresh DEF Peers
<1>1. /\ s \in HostType /\ s.pane = h.pane /\ s.identity = h.identity
      /\ ~(Sleeps(s) /\ s.dormant.device = d /\ s.dormant.gen \in 1 .. gen)
      /\ s.dormant = h.dormant \/ s.dormant.device = NoDevice
  BY <1>a DEF HostType, Sleeps
<1>2. CASE ~listed
  BY <1>2 DEF ReleaseAttachment, GrantsNothing
<1>3. CASE listed
  <2>1. q = IF Lives(s) /\ s.pane.device = d /\ s.pane.gen \in 1 .. gen
            THEN [s EXCEPT !.pane = [Unclaimed(@, ControlNonce) EXCEPT !.gen = 0]] ELSE s
    BY <1>3 DEF ReleaseAttachment
  <2> HIDE DEF s, q
  <2>2. /\ q \in HostType /\ q.dormant = s.dormant
        /\ ~(Lives(q) /\ q.pane.device = d /\ q.pane.gen \in 1 .. gen)
        /\ Lives(q) => Lives(s) /\ (q.pane = s.pane \/ q.pane.device = NoDevice)
    <3>1. CASE Lives(s) /\ s.pane.device = d /\ s.pane.gen \in 1 .. gen
      <4> DEFINE u == [Unclaimed(s.pane, ControlNonce) EXCEPT !.gen = 0]
      <4>1. s.pane \in PaneType BY <3>1, <1>1 DEF HostType, Lives
      <4>2. u \in PaneType /\ u.device = NoDevice
        BY <4>1, <1>a DEF PaneType, Unclaimed
      <4>3. q = [s EXCEPT !.pane = u] BY <3>1, <2>1
      <4> HIDE DEF u
      <4> QED BY <4>2, <4>3, <3>1, <1>1, <1>a DEF HostType
    <3>2. CASE ~(Lives(s) /\ s.pane.device = d /\ s.pane.gen \in 1 .. gen)
      BY <3>2, <1>1, <2>1
    <3> QED BY <3>1, <3>2
  <2>3. \A g \in 1 .. gen : ~Holds(q, d, g) BY <1>1, <2>2 DEF Holds, Sleeps
  <2>4. GrantsNothing(h, q)
    <3> SUFFICES ASSUME NEW e \in Devices, NEW g \in 0 .. MaxGeneration, Holds(q, e, g)
                 PROVE  Holds(h, e, g)
      BY DEF GrantsNothing
    <3> QED BY <1>1, <2>2, <1>a DEF Holds, Sleeps, Lives
  <2> QED BY <2>2, <2>3, <2>4 DEF q
<1> QED BY <1>2, <1>3

(* The tick's work gives no grant, lists no Pane and starts no Session.      *)
LEMMA SynchronizeKeeps ==
    ASSUME NEW h \in HostType, NEW durable \in BOOLEAN, listed \in BOOLEAN
    PROVE  LET s == synchronize(h, durable) IN
           /\ s.host \in HostType /\ s.listed \in BOOLEAN
           /\ GrantsNothing(h, s.host) /\ (s.listed => listed)
           /\ Lives(s.host) => Lives(h) /\ s.host.pane = drain(h).pane
<1> DEFINE e == IF durable /\ ends # 0 THEN end_session(h, ends) ELSE h
           k == IF durable /\ ~listed /\ Lives(e) /\ ~Ended(e.pane)
                THEN [e EXCEPT !.pane = NoPane] ELSE e
           r == retire_exited(k)
           names == listed /\ r.identity
           q == IF ~names /\ Lives(r) /\ Ended(r.pane) /\ ~r.pane.connected
                THEN [r EXCEPT !.pane = NoPane] ELSE r
<1>1. e \in HostType /\ GrantsNothing(h, e) /\ (Lives(e) => e = h)
  BY EndSessionKeeps DEF GrantsNothing
<1>2. synchronize(h, durable) = [host |-> q, listed |-> names] BY DEF synchronize
<1> HIDE DEF e
<1>d. \A x \in HostType : LET y == [x EXCEPT !.pane = NoPane] IN
        y \in HostType /\ ~Lives(y) /\ GrantsNothing(x, y)
  <2> SUFFICES ASSUME NEW x \in HostType
               PROVE  LET y == [x EXCEPT !.pane = NoPane] IN
                      y \in HostType /\ ~Lives(y) /\ GrantsNothing(x, y)
    OBVIOUS
  <2> DEFINE y == [x EXCEPT !.pane = NoPane]
  <2>1. y \in HostType /\ ~Lives(y) /\ y.dormant = x.dormant BY DEF HostType, Lives
  <2> HIDE DEF y
  <2>2. GrantsNothing(x, y) BY <2>1, RetiringGrantsNothing
  <2> QED BY <2>1, <2>2 DEF y
<1>3. k \in HostType /\ GrantsNothing(h, k) /\ (Lives(k) => k = h)
  BY <1>1, <1>d, GrantsNothingTwice
<1> HIDE DEF k
<1>4. /\ r \in HostType /\ GrantsNothing(h, r)
      /\ Lives(r) => Lives(h) /\ r.pane = drain(h).pane
  BY <1>3, RetireKeeps, GrantsNothingTwice
<1>5. names \in BOOLEAN /\ (names => listed) BY <1>4 DEF HostType
<1> HIDE DEF r, names
<1>6. /\ q \in HostType /\ GrantsNothing(h, q)
      /\ Lives(q) => Lives(h) /\ q.pane = drain(h).pane
  BY <1>4, <1>d, GrantsNothingTwice
<1> QED BY <1>2, <1>5, <1>6

(* A channel's observation gives no grant.                                   *)
LEMMA ObserveKeeps ==
    ASSUME NEW h \in HostType, NEW c \in Connections
    PROVE  /\ observe(h, c) \in HostType /\ GrantsNothing(h, observe(h, c))
           /\ Lives(observe(h, c)) => /\ Lives(h)
                                      /\ observe(h, c).pane \in {h.pane, drain(h).pane}
<1> DEFINE r == drain(h)
           q == observe(h, c)
<1>1. /\ r \in HostType /\ GrantsNothing(h, r) /\ (Lives(r) <=> Lives(h))
  BY DrainKeeps
<1>2. /\ retire_exited(r) \in HostType /\ GrantsNothing(r, retire_exited(r))
      /\ Lives(retire_exited(r)) => /\ Lives(r)
                                    /\ retire_exited(r).pane = drain(r).pane
  BY <1>1, RetireKeeps
<1>3. CASE ~Observes(h, c) BY <1>3 DEF observe, GrantsNothing
<1>4. CASE Observes(h, c) /\ Ended(r.pane)
  <2>1. q = [retire_exited(r) EXCEPT !.pane = NoPane] BY <1>4 DEF observe
  <2> HIDE DEF q, r
  <2>2. /\ q \in HostType /\ ~Lives(q) /\ q.dormant = retire_exited(r).dormant
    BY <2>1, <1>2 DEF HostType, Lives
  <2>3. GrantsNothing(retire_exited(r), q) BY <2>2, <1>2, RetiringGrantsNothing
  <2> QED BY <2>2, <2>3, <1>1, <1>2, GrantsNothingTwice DEF q
<1>5. CASE Observes(h, c) /\ ~Ended(r.pane) /\ Failed(r.pane)
  <2>1. q = retire_exited(r) BY <1>5 DEF observe
  <2>2. Lives(h) => drain(r).pane = r.pane BY DrainTwice
  <2> HIDE DEF q, r
  <2>3. GrantsNothing(h, q) BY <2>1, <1>1, <1>2, GrantsNothingTwice
  <2> QED BY <2>1, <2>2, <2>3, <1>1, <1>2 DEF q, r
<1>6. CASE Observes(h, c) /\ ~Ended(r.pane) /\ ~Failed(r.pane)
  <2>1. q = r BY <1>6 DEF observe
  <2> QED BY <2>1, <1>1
<1> QED BY <1>3, <1>4, <1>5, <1>6

-----------------------------------------------------------------------------
(* Claims                                                                    *)

(* What a claim's judgement answers.  A lease is the claiming channel's, on  *)
(* the Pane it leaves; without one the only grant that may be new is the     *)
(* claimant's, on the kept Session it takes over.                            *)
Judged(h, c, gen, r) ==
    /\ r.host \in HostType /\ r.offer \in TargetType
    /\ r = [host |-> r.host, lease |-> r.lease, offer |-> r.offer]
    /\ \A d \in Devices, g \in 0 .. MaxGeneration :
          Sleeps(r.host) /\ r.host.dormant.device = d /\ r.host.dormant.gen = g
             => Holds(h, d, g) \/ (d = Owner(c) /\ g = gen)
    /\ \/ /\ r.lease = NoLease
          /\ \A d \in Devices, g \in 0 .. MaxGeneration :
                Lives(r.host) /\ r.host.pane.device = d /\ r.host.pane.gen = g
                   => Holds(h, d, g)
       \/ /\ Lives(r.host) /\ r.lease = Lease(r.host.pane)
          /\ r.host.pane.link = c /\ r.host.pane.device = Owner(c)

(* A refusal or an offer of a host that grants nothing new is such an        *)
(* answer.                                                                   *)
LEMMA RefusalIsJudged ==
    ASSUME NEW h, NEW q \in HostType, GrantsNothing(h, q), NEW c, NEW gen,
           boot \in 1 .. MaxBoots
    PROVE  /\ \A r \in Refuse(q) : Judged(h, c, gen, r)
           /\ \A s \in Names \cup {0} : \A r \in takeover(q, s) : Judged(h, c, gen, r)
<1>1. NoTarget \in TargetType /\ \A s \in Names \cup {0} : Target(s) \in TargetType
  BY PaneControlAssumption DEF NoTarget, Target, TargetType
<1>2. \A t \in TargetType :
        Judged(h, c, gen, [host |-> q, lease |-> NoLease, offer |-> t])
  BY DEF Judged, GrantsNothing, Holds
<1> QED BY <1>1, <1>2 DEF Refuse, takeover

(* Starting a shell grants its claimant alone.                               *)
LEMMA StartIsJudged ==
    ASSUME NEW h \in HostType, NEW q \in HostType, NEW c \in Connections, NEW gen,
           boot \in 1 .. MaxBoots,
           \A d \in Devices, g \in 0 .. MaxGeneration :
              /\ Lives(q) /\ q.pane.device = d /\ q.pane.gen = g => Holds(h, d, g)
              /\ Sleeps(q) /\ q.dormant.device = d /\ q.dormant.gen = g
                    => Holds(h, d, g) \/ (d = Owner(c) /\ g = gen)
    PROVE  \A r \in start(q, c) : Judged(h, c, gen, r)
<1>0. NoTarget \in TargetType BY PaneControlAssumption DEF NoTarget, TargetType
<1>1. \A r \in Refuse(q) : Judged(h, c, gen, r) BY <1>0 DEF Refuse, Judged
<1>2. Owner(c) \in Peers BY DEF Owner, Connections, Peers
<1> DEFINE p == [device |-> Owner(c), gen |-> 0,
                 session |-> SessionNonce, control |-> ControlNonce,
                 link |-> c, connected |-> TRUE,
                 exit |-> "none", drained |-> FALSE, restart |-> Sleeps(q)]
           s == [q EXCEPT !.dormant = NoDormant, !.pane = p]
<1>3. p \in PaneType
  BY <1>2, SessionNonceIsFresh, ControlNonceIsFresh, PaneControlAssumption
  DEF PaneType, Sleeps, HostType
<1>4. p.link = c /\ p.device = Owner(c) OBVIOUS
<1>5. start(q, c) \subseteq Refuse(q) \cup Attached(s) BY DEF start
<1> HIDE DEF p
<1>6. s \in HostType /\ s.pane = p /\ s.dormant = NoDormant
  BY <1>3, DormantType DEF HostType
<1> HIDE DEF s
<1>7. Lives(s) /\ ~Sleeps(s)
  BY <1>3, <1>6, PaneIsNotNoPane DEF Lives, Sleeps, NoDormant
<1>8. NoTarget \in TargetType BY PaneControlAssumption DEF NoTarget, TargetType
<1>9. \A r \in Attached(s) : Judged(h, c, gen, r)
  BY <1>3, <1>4, <1>6, <1>7, <1>8 DEF Attached, Judged
<1> QED BY <1>1, <1>5, <1>9

(* Claiming a live Pane grants the claimant alone.                           *)
LEMMA ClaimIsJudged ==
    ASSUME NEW h, NEW q \in HostType, NEW c \in Connections, NEW gen,
           GrantsNothing(h, q), Lives(q), NEW transfer \in BOOLEAN
    PROVE  \A r \in claim(q, c, transfer) : Judged(h, c, gen, r)
<1>1. Owner(c) \in Peers BY DEF Owner, Connections, Peers
<1>2. q.pane \in PaneType BY DEF Lives, HostType
<1> DEFINE p == [q.pane EXCEPT !.device = Owner(c),
                               !.gen = IF transfer THEN 0 ELSE @,
                               !.control = IF transfer THEN ControlNonce ELSE @,
                               !.link = c, !.connected = TRUE]
           s == [q EXCEPT !.pane = p]
<1>3. p \in PaneType /\ p.link = c /\ p.device = Owner(c)
  <2>0. 0 \in 0 .. MaxGeneration /\ ControlNonce \in Names
    BY ControlNonceIsFresh, PaneControlAssumption
  <2> DEFINE g == IF transfer THEN 0 ELSE q.pane.gen
             k == IF transfer THEN ControlNonce ELSE q.pane.control
  <2>1. g \in 0 .. MaxGeneration /\ k \in Names \cup {0} BY <2>0, <1>2 DEF PaneType
  <2>2. p = [q.pane EXCEPT !.device = Owner(c), !.gen = g, !.control = k,
                           !.link = c, !.connected = TRUE]
    BY <1>2 DEF PaneType
  <2> HIDE DEF g, k, p
  <2> QED BY <2>1, <2>2, <1>1, <1>2 DEF PaneType
<1>4. claim(q, c, transfer) = Attached(s)
  BY <1>2 DEF claim, HostType, PaneType
<1> HIDE DEF p
<1>5. s \in HostType /\ s.pane = p /\ s.dormant = q.dormant BY <1>3 DEF HostType
<1> HIDE DEF s
<1>6. Lives(s) BY <1>3, <1>5, PaneIsNotNoPane DEF Lives
<1>7. NoTarget \in TargetType BY PaneControlAssumption DEF NoTarget, TargetType
<1>8. \A d \in Devices, g \in 0 .. MaxGeneration :
         Sleeps(s) /\ s.dormant.device = d /\ s.dormant.gen = g => Holds(h, d, g)
  BY <1>5 DEF GrantsNothing, Holds, Sleeps
<1> QED BY <1>3, <1>4, <1>5, <1>6, <1>7, <1>8 DEF Attached, Judged

(* Selecting the Pane on the Pane host.                                      *)
LEMMA HostSelectIsJudged ==
    ASSUME NEW h \in HostType, NEW c \in Connections, NEW gen, NEW explicit \in BOOLEAN,
           boot \in 1 .. MaxBoots
    PROVE  \A r \in select(h, c, explicit) : Judged(h, c, gen, r)
<1> DEFINE q == reconcile_selection(h)
           d == Owner(c)
<1>1. q \in HostType /\ GrantsNothing(h, q) BY ReconcileKeeps
<1>2. \A r \in Refuse(q) : Judged(h, c, gen, r) BY <1>1, RefusalIsJudged
<1>3. \A s \in Names \cup {0} : \A r \in takeover(q, s) : Judged(h, c, gen, r)
  BY <1>1, RefusalIsJudged
<1>4. Lives(q) => q.pane.session \in Names BY <1>1 DEF Lives, HostType, PaneType
<1>5. \A r \in start(q, c) : Judged(h, c, gen, r)
  BY <1>1, StartIsJudged DEF GrantsNothing, Holds
<1>6. Lives(q) => \A t \in BOOLEAN : \A r \in claim(q, c, t) : Judged(h, c, gen, r)
  BY <1>1, ClaimIsJudged
<1>7. CASE Lives(q) /\ Failed(q.pane)
  <2>1. select(h, c, explicit) = Refuse(q) BY <1>7 DEF select
  <2> QED BY <2>1, <1>2
<1>8. CASE ~(Lives(q) /\ Failed(q.pane))
           /\ Sleeps(q) /\ q.dormant.device \notin {NoDevice, d}
  <2>1. select(h, c, explicit) = takeover(q, 0) BY <1>8 DEF select
  <2> QED BY <2>1, <1>3
<1>9. CASE Lives(q) /\ ~Failed(q.pane)
           /\ ~(Sleeps(q) /\ q.dormant.device \notin {NoDevice, d})
           /\ q.pane.device \notin {NoDevice, d}
  <2>1. select(h, c, explicit) = takeover(q, q.pane.session) BY <1>9 DEF select
  <2> QED BY <2>1, <1>3, <1>4, <1>9
<1>10. CASE Lives(q) /\ ~Failed(q.pane)
            /\ ~(Sleeps(q) /\ q.dormant.device \notin {NoDevice, d})
            /\ q.pane.device \in {NoDevice, d}
  <2> DEFINE free == q.pane.device = NoDevice
  <2>1. select(h, c, explicit) = claim(q, c, free) BY <1>10 DEF select
  <2>2. free \in BOOLEAN OBVIOUS
  <2> HIDE DEF free
  <2> QED BY <2>1, <2>2, <1>6, <1>10
<1>11. CASE ~Lives(q) /\ ~(Sleeps(q) /\ q.dormant.device \notin {NoDevice, d})
  <2>1. select(h, c, explicit) \in {Refuse(q), start(q, c), takeover(q, 0)}
    BY <1>11 DEF select, restored
  <2> QED BY <2>1, <1>2, <1>3, <1>5
<1> QED BY <1>7, <1>8, <1>9, <1>10, <1>11

(* Selecting the Pane on the Workspace host.                                 *)
LEMMA SelectIsJudged ==
    ASSUME NEW h \in HostType, NEW c \in Connections, NEW gen, NEW kind,
           boot \in 1 .. MaxBoots
    PROVE  \A r \in Select(h, c, kind) : Judged(h, c, gen, r)
<1> DEFINE explicit == kind = "start" \/ (kind = "select" /\ ~Sleeps(h))
<1>1. explicit \in BOOLEAN OBVIOUS
<1>2. GrantsNothing(h, h) BY DEF GrantsNothing
<1>3. \A s \in Names \cup {0} : \A r \in takeover(h, s) : Judged(h, c, gen, r)
  BY <1>2, RefusalIsJudged
<1>4. Lives(h) => h.pane.session \in Names BY DEF Lives, HostType, PaneType
<1>5. \A r \in select(h, c, explicit) : Judged(h, c, gen, r)
  <2> HIDE DEF explicit
  <2> QED BY <1>1, HostSelectIsJudged
<1>6. \/ Select(h, c, kind) \in {takeover(h, 0), select(h, c, explicit)}
      \/ Lives(h) /\ Select(h, c, kind) = takeover(h, h.pane.session)
  <2>1. Select(h, c, kind) =
          IF ~explicit /\ Sleeps(h) /\ h.dormant.device # Owner(c) THEN takeover(h, 0)
          ELSE IF ~Lives(h) /\ ~Sleeps(h) /\ creator \notin {NoDevice, Owner(c)}
          THEN takeover(h, 0)
          ELSE IF ~explicit /\ Lives(h) /\ h.pane.device # Owner(c)
          THEN takeover(h, h.pane.session)
          ELSE select(h, c, explicit)
    BY DEF Select
  <2> HIDE DEF explicit
  <2> QED BY <2>1
<1> HIDE DEF explicit
<1> QED BY <1>3, <1>4, <1>5, <1>6

(* Starting on a Pane the host holds as it is.                               *)
LEMMA PlainStartIsJudged ==
    ASSUME NEW h \in HostType, NEW c \in Connections, NEW gen, boot \in 1 .. MaxBoots
    PROVE  \A r \in start(h, c) : Judged(h, c, gen, r)
  BY StartIsJudged DEF Holds

(* Repairing the Pane's directory.                                           *)
LEMMA RepairIsJudged ==
    ASSUME NEW h \in HostType, NEW c \in Connections, NEW gen, NEW target,
           boot \in 1 .. MaxBoots
    PROVE  \A r \in repair_directory(h, c, target) : Judged(h, c, gen, r)
<1>1. GrantsNothing(h, h) BY DEF GrantsNothing
<1>2. \A r \in Refuse(h) : Judged(h, c, gen, r) BY <1>1, RefusalIsJudged
<1>3. \A r \in start(h, c) : Judged(h, c, gen, r) BY PlainStartIsJudged
<1>4. \A r \in Select(h, c, "observe") : Judged(h, c, gen, r) BY SelectIsJudged
<1>5. repair_directory(h, c, target)
        \in {Refuse(h), Select(h, c, "observe"), Refuse(h) \cup start(h, c)}
  BY DEF repair_directory
<1> QED BY <1>2, <1>3, <1>4, <1>5

(* Taking the Pane over.                                                     *)
LEMMA TakeOverIsJudged ==
    ASSUME NEW h \in HostType, NEW c \in Connections, NEW gen \in 0 .. MaxGeneration,
           NEW target, boot \in 1 .. MaxBoots
    PROVE  \A r \in TakeOver(h, c, target, gen) : Judged(h, c, gen, r)
<1>1. GrantsNothing(h, h) BY DEF GrantsNothing
<1>2. \A r \in Refuse(h) : Judged(h, c, gen, r) BY <1>1, RefusalIsJudged
<1>3. \A r \in start(h, c) : Judged(h, c, gen, r) BY PlainStartIsJudged
<1>4. \A r \in TakeOverLive(h, c, target) : Judged(h, c, gen, r)
  <2> DEFINE q == reconcile_selection(h)
  <2>1. q \in HostType /\ GrantsNothing(h, q) BY ReconcileKeeps
  <2>2. \A r \in Refuse(q) : Judged(h, c, gen, r) BY <2>1, RefusalIsJudged
  <2>3. Lives(q) => \A r \in claim(q, c, TRUE) : Judged(h, c, gen, r)
    BY <2>1, ClaimIsJudged
  <2> QED BY <2>2, <2>3 DEF TakeOverLive
<1>5. ~Lives(h) => \A r \in take_over_ended(h, c, gen) : Judged(h, c, gen, r)
  <2> HAVE ~Lives(h)
  <2> DEFINE q == [h EXCEPT !.dormant.device = Owner(c), !.dormant.gen = gen]
  <2>0. Owner(c) \in Peers BY DEF Owner, Connections, Peers
  <2>1. /\ q \in HostType /\ q.pane = h.pane
        /\ q.dormant.device = Owner(c) /\ q.dormant.gen = gen
    BY <2>0 DEF HostType
  <2>2. take_over_ended(h, c, gen) = start(q, c) BY DEF take_over_ended
  <2> HIDE DEF q
  <2>3. ~Lives(q) BY <2>1 DEF Lives
  <2> QED BY <2>1, <2>2, <2>3, StartIsJudged
<1>6. \/ TakeOver(h, c, target, gen)
           \in {Refuse(h), TakeOverLive(h, c, target), start(h, c)}
      \/ ~Lives(h) /\ TakeOver(h, c, target, gen) = take_over_ended(h, c, gen)
  BY DEF TakeOver
<1> QED BY <1>2, <1>3, <1>4, <1>5, <1>6

(* Every judgement of a claim.                                               *)
LEMMA RepliesAreJudged ==
    ASSUME NEW h \in HostType, NEW c \in Connections, NEW m \in MessageType,
           boot \in 1 .. MaxBoots, m.kind \in Claims
    PROVE  \A r \in ClaimReplies(h, c, m) : Judged(h, c, m.gen, r)
<1>0. m.gen \in 0 .. MaxGeneration BY DEF MessageType
<1>1. GrantsNothing(h, h) BY DEF GrantsNothing
<1>2. \A r \in Refuse(h) : Judged(h, c, m.gen, r) BY <1>1, RefusalIsJudged
<1>3. CASE m.kind = "observe" /\ OtherGrant(h, Owner(c), m.gen)
  <2> DEFINE s == IF Sleeps(h) THEN 0 ELSE h.pane.session
  <2>1. s \in Names \cup {0}
    BY <1>3 DEF OtherGrant, Lives, HostType, PaneType
  <2>2. ClaimReplies(h, c, m) = takeover(h, s) BY <1>3 DEF ClaimReplies
  <2> HIDE DEF s
  <2> QED BY <2>1, <2>2, <1>1, RefusalIsJudged
<1>4. CASE ~(m.kind = "observe" /\ OtherGrant(h, Owner(c), m.gen))
  <2>1. CASE m.kind \in {"observe", "select"}
    <3>1. ClaimReplies(h, c, m) = Select(h, c, m.kind) BY <1>4, <2>1 DEF ClaimReplies
    <3> QED BY <3>1, SelectIsJudged
  <2>2. CASE m.kind = "start"
    <3>1. ClaimReplies(h, c, m) \in {Refuse(h), Select(h, c, "start")}
      BY <1>4, <2>2 DEF ClaimReplies
    <3> QED BY <3>1, <1>2, SelectIsJudged
  <2>3. CASE m.kind = "repair"
    <3>1. ClaimReplies(h, c, m) = repair_directory(h, c, m.target)
      BY <1>4, <2>3 DEF ClaimReplies
    <3> QED BY <3>1, RepairIsJudged
  <2>4. CASE m.kind = "takeover"
    <3>1. ClaimReplies(h, c, m) = TakeOver(h, c, m.target, m.gen)
      BY <1>4, <2>4 DEF ClaimReplies
    <3> QED BY <3>1, <1>0, TakeOverIsJudged
  <2> QED BY <2>1, <2>2, <2>3, <2>4 DEF Claims
<1> QED BY <1>3, <1>4

(* What a claim answers: the only grant it makes is the claimant's, of the   *)
(* attachment it names, and a lease it gives is its channel's.               *)
Answered(h, c, gen, r) ==
    /\ r.host \in HostType /\ r.offer \in TargetType
    /\ r.lease \in LeaseType \cup {NoLease}
    /\ r.lease # NoLease => r.lease.link = c
    /\ \A d \in Devices, g \in 0 .. MaxGeneration :
          Holds(r.host, d, g) => Holds(h, d, g) \/ (d = Owner(c) /\ g = gen)

(* Whichever claim a client sends, the host answers it within those bounds.  *)
LEMMA ClaimsAreAnswered ==
    ASSUME NEW h \in HostType, NEW c \in Connections, NEW m \in MessageType,
           boot \in 1 .. MaxBoots, m.kind \in Claims
    PROVE  \A r \in ClaimPane(h, c, m) : Answered(h, c, m.gen, r)
<1> SUFFICES ASSUME NEW r \in ClaimReplies(h, c, m)
             PROVE  Answered(h, c, m.gen,
                             IF r.lease = NoLease THEN r
                             ELSE [r EXCEPT !.host.pane.gen = m.gen])
  BY DEF ClaimPane
<1>0. m.gen \in 0 .. MaxGeneration BY DEF MessageType
<1>1. Judged(h, c, m.gen, r) BY RepliesAreJudged
<1>2. CASE r.lease = NoLease
  <2>1. \A d \in Devices, g \in 0 .. MaxGeneration :
          Holds(r.host, d, g) => Holds(h, d, g) \/ (d = Owner(c) /\ g = m.gen)
    <3> SUFFICES ASSUME NEW d \in Devices, NEW g \in 0 .. MaxGeneration,
                        Holds(r.host, d, g)
                 PROVE  Holds(h, d, g) \/ (d = Owner(c) /\ g = m.gen)
      OBVIOUS
    <3>1. CASE Lives(r.host) /\ r.host.pane.device = d /\ r.host.pane.gen = g
      <4>1. ~(r.lease = Lease(r.host.pane)) 
        BY <1>1, <1>2, <3>1, PaneIsNotNoPane DEF Judged, HostType, Lives
      <4> QED BY <4>1, <1>1, <3>1 DEF Judged
    <3>2. CASE Sleeps(r.host) /\ r.host.dormant.device = d /\ r.host.dormant.gen = g
      BY <1>1, <3>2 DEF Judged
    <3> QED BY <3>1, <3>2 DEF Holds
  <2> QED BY <1>1, <1>2, <2>1 DEF Judged, Answered
<1>3. CASE r.lease # NoLease
  <2> DEFINE k == r.host
             p == [k.pane EXCEPT !.gen = m.gen]
             s == [k EXCEPT !.pane = p]
             t == [r EXCEPT !.host.pane.gen = m.gen]
  <2>1. /\ k \in HostType /\ Lives(k) /\ r.lease = Lease(k.pane)
        /\ k.pane.link = c /\ k.pane.device = Owner(c) /\ r.offer \in TargetType
    BY <1>1, <1>3 DEF Judged
  <2>2. k.pane \in PaneType BY <2>1 DEF Lives, HostType
  <2>3. t = [host |-> s, lease |-> r.lease, offer |-> r.offer]
    BY <1>1 DEF Judged
  <2>4. p \in PaneType /\ p.gen = m.gen /\ p.device = Owner(c)
    BY <2>1, <2>2, <1>0 DEF PaneType
  <2>5. r.lease \in LeaseType /\ r.lease.link = c
    BY <2>1, <2>2, PaneIsNotNoPane DEF Lease
  <2> HIDE DEF p
  <2>6. s \in HostType /\ s.pane = p /\ s.dormant = k.dormant
    BY <2>1, <2>4 DEF HostType
  <2> HIDE DEF s
  <2>7. t.host = s /\ t.lease = r.lease /\ t.offer = r.offer BY <2>3
  <2> HIDE DEF t
  <2>8. \A d \in Devices, g \in 0 .. MaxGeneration :
          Holds(s, d, g) => Holds(h, d, g) \/ (d = Owner(c) /\ g = m.gen)
    <3> SUFFICES ASSUME NEW d \in Devices, NEW g \in 0 .. MaxGeneration,
                        Holds(s, d, g)
                 PROVE  Holds(h, d, g) \/ (d = Owner(c) /\ g = m.gen)
      OBVIOUS
    <3>1. CASE Lives(s) /\ s.pane.device = d /\ s.pane.gen = g
      BY <3>1, <2>4, <2>6
    <3>2. CASE Sleeps(s) /\ s.dormant.device = d /\ s.dormant.gen = g
      BY <1>1, <3>2, <2>6 DEF Judged, Sleeps
    <3> QED BY <3>1, <3>2 DEF Holds
  <2>9. Answered(h, c, m.gen, t)
    BY <2>1, <2>5, <2>6, <2>7, <2>8 DEF Answered
  <2> QED BY <1>3, <2>9 DEF t
<1> QED BY <1>2, <1>3

-----------------------------------------------------------------------------
(* Type correctness                                                          *)

(* A connection is its client's n-th.                                        *)
LEMMA ConnectionsOfClients ==
    /\ \A c \in Connections : /\ Owner(c) \in Devices /\ Owner(c) \in Peers
                              /\ c[2] \in 1 .. MaxLinks /\ c = <<Owner(c), c[2]>>
    /\ \A d \in Devices : \A n \in 1 .. MaxLinks :
          <<d, n>> \in Connections /\ Owner(<<d, n>>) = d /\ <<d, n>>[2] = n
  BY DEF Connections, Owner, Peers

(* Taking the next message off a connection's queue.                         *)
LEMMA DispatchType ==
    ASSUME TypeOK, NEW c \in Connections, NEW m \in Received(c),
           queue' = [queue EXCEPT ![c] = Tail(@)]
    PROVE  /\ m \in MessageType /\ queue[c] # <<>> /\ m = queue[c][1]
           /\ queue' \in [Connections -> Seq(MessageType)]
           /\ \A d \in Connections : Len(queue'[d]) <= MaxQueue
           /\ Len(queue'[c]) = Len(queue[c]) - 1
           /\ \A i \in 1 .. Len(queue'[c]) : i + 1 \in 1 .. Len(queue[c])
                                             /\ queue'[c][i] = queue[c][i + 1]
           /\ \A d \in Connections : d # c => queue'[d] = queue[d]
<1>1. queue \in [Connections -> Seq(MessageType)] BY DEF TypeOK
<1>2. queue[c] # <<>> /\ m = Head(queue[c]) BY DEF Received
<1> DEFINE q == queue[c]
<1>3. q \in Seq(MessageType) BY <1>1
<1>4. queue'[c] = Tail(q) /\ \A d \in Connections : d # c => queue'[d] = queue[d]
  BY <1>1
<1>5. Len(q) <= MaxQueue /\ MaxQueue \in Nat BY PaneControlAssumption DEF TypeOK
<1> HIDE DEF q
<1>6. /\ m \in MessageType /\ m = q[1] /\ Tail(q) \in Seq(MessageType)
      /\ Len(Tail(q)) = Len(q) - 1 /\ Len(q) \in Nat /\ Len(q) >= 1
      /\ \A i \in 1 .. Len(Tail(q)) : i + 1 \in 1 .. Len(q) /\ Tail(q)[i] = q[i + 1]
  BY <1>2, <1>3 DEF q
<1>7. queue' = [d \in Connections |-> IF d = c THEN Tail(q) ELSE queue[d]] BY <1>1 DEF q
<1>8. queue' \in [Connections -> Seq(MessageType)] BY <1>1, <1>6, <1>7
<1>9. \A d \in Connections : Len(queue'[d]) <= MaxQueue
  BY <1>4, <1>5, <1>6 DEF TypeOK
<1> QED BY <1>2, <1>4, <1>6, <1>8, <1>9 DEF q

(* Sending a message on a client's link.                                     *)
LEMMA SendType ==
    ASSUME TypeOK, NEW d \in Devices, NEW m \in MessageType, Sends(d, m)
    PROVE  LET c == <<d, client[d].link>> IN
           /\ c \in Connections /\ Owner(c) = d /\ c[2] = client[d].link
           /\ client[d].link # NoLink
           /\ queue' \in [Connections -> Seq(MessageType)]
           /\ \A e \in Connections : Len(queue'[e]) <= MaxQueue
           /\ \A i \in 1 .. Len(queue'[c]) :
                 (i \in 1 .. Len(queue[c]) /\ queue'[c][i] = queue[c][i])
                 \/ queue'[c][i] = m
           /\ \A e \in Connections : e # c => queue'[e] = queue[e]
<1> DEFINE c == <<d, client[d].link>>
           q == queue[c]
<1>1. client[d].link \in 1 .. MaxLinks
  BY PaneControlAssumption DEF Sends, NoLink, TypeOK, ClientType
<1>2. c \in Connections /\ Owner(c) = d /\ c[2] = client[d].link
  BY <1>1, ConnectionsOfClients
<1>3. /\ Len(queue[c]) < MaxQueue /\ queue' = [queue EXCEPT ![c] = Append(@, m)]
      /\ client[d].link # NoLink
  BY DEF Sends
<1> HIDE DEF c
<1>4. queue \in [Connections -> Seq(MessageType)] /\ q \in Seq(MessageType)
      /\ MaxQueue \in Nat
  BY <1>2, PaneControlAssumption DEF TypeOK
<1>5. /\ queue' = [e \in Connections |-> IF e = c THEN Append(q, m) ELSE queue[e]]
      /\ queue'[c] = Append(q, m)
      /\ \A e \in Connections : e # c => queue'[e] = queue[e]
  BY <1>2, <1>3, <1>4
<1> HIDE DEF q
<1>6. /\ Append(q, m) \in Seq(MessageType) /\ Len(Append(q, m)) = Len(q) + 1
      /\ Len(q) \in Nat /\ Len(q) < MaxQueue
      /\ \A i \in 1 .. Len(Append(q, m)) :
            (i \in 1 .. Len(q) /\ Append(q, m)[i] = q[i]) \/ Append(q, m)[i] = m
  BY <1>3, <1>4 DEF q
<1>7. queue' \in [Connections -> Seq(MessageType)] BY <1>4, <1>5, <1>6
<1>8. \A e \in Connections : Len(queue'[e]) <= MaxQueue
  BY <1>4, <1>5, <1>6 DEF TypeOK
<1> QED BY <1>2, <1>3, <1>5, <1>6, <1>7, <1>8 DEF c, q

(* Types hold initially.                                                     *)
LEMMA PaneTypeInitial == Init => TypeOK
<1> SUFFICES ASSUME Init PROVE TypeOK OBVIOUS
<1>a. /\ 0 \in 0 .. MaxGeneration /\ 0 \in 0 .. MaxLinks /\ 0 \in 0 .. MaxBoots
      /\ 1 \in 1 .. MaxBoots /\ MaxQueue \in Nat
  BY PaneControlAssumption
<1>1. host \in HostType BY DormantType, <1>a DEF Init, HostType, NoDormant, Peers
<1>2. client \in [Devices -> ClientType]
  <2>1. NoTarget \in TargetType BY <1>a DEF NoTarget, TargetType
  <2>2. NoPermit \in PermitType BY DEF PermitType
  <2>3. [attached |-> 0, pending |-> 0, next |-> 0, link |-> NoLink,
         permit |-> NoPermit, offer |-> NoTarget] \in ClientType
    BY <2>1, <2>2, <1>a DEF ClientType, NoLink
  <2> QED BY <2>3 DEF Init
<1>3. /\ queue \in [Connections -> Seq(MessageType)]
      /\ \A c \in Connections : Len(queue[c]) <= MaxQueue
  BY <1>a DEF Init
<1>4. gens \in [Devices -> [claimed : 0 .. MaxGeneration, released : 0 .. MaxGeneration]]
  BY <1>a DEF Init
<1>5. /\ boot \in 1 .. MaxBoots /\ listed \in BOOLEAN /\ creator \in Peers
      /\ ends \in Names \cup {0} /\ notifying \in Names \cup {0}
      /\ bell \in BOOLEAN /\ paced \in BOOLEAN
  BY <1>a DEF Init
<1>6. /\ revoked \in [Devices -> {"no", "goodbye", "done"}]
      /\ conn \in [Connections -> {"none", "open", "closing", "gone"}]
      /\ bound \in [Connections -> LeaseType \cup {NoLease}]
      /\ want \in [Connections -> BOOLEAN]
  BY DEF Init
<1> QED BY <1>1, <1>2, <1>3, <1>4, <1>5, <1>6 DEF TypeOK

(* Replacing one client's part of the state.                                 *)
LEMMA ClientReplaced ==
    ASSUME TypeOK, NEW d \in Devices, NEW k \in ClientType,
           client' = [client EXCEPT ![d] = k]
    PROVE  client' \in [Devices -> ClientType]
  BY DEF TypeOK

(* A claim keeps the types.                                                  *)
LEMMA ClaimTyped ==
    ASSUME TypeOK, NEW c \in Connections, Claim(c)
    PROVE  TypeOK'
<1> PICK m \in Received(c) :
      /\ Dispatches(c) /\ m.kind \in Claims
      /\ LET d == Owner(c)
             h == IF bound[c] = NoLease THEN host ELSE unbound(host, c)
             stale == ~listed \/ Fenced(d, m.gen)
         IN  \E r \in IF stale THEN Refuse(h) ELSE ClaimPane(h, c, m) :
               /\ host' = r.host
               /\ bound' = [bound EXCEPT ![c] = r.lease]
               /\ gens' = IF stale THEN gens ELSE [gens EXCEPT ![d].claimed = m.gen]
               /\ client' = IF Hears(c) /\ r.offer # NoTarget
                            THEN [client EXCEPT ![d].offer = r.offer] ELSE client
      /\ bell' = (bell \/ rings(m))
      /\ UNCHANGED <<boot, listed, creator, ends, revoked, conn, want, notifying,
                     paced>>
  BY DEF Claim
<1> DEFINE d == Owner(c)
           h == IF bound[c] = NoLease THEN host ELSE unbound(host, c)
           stale == ~listed \/ Fenced(d, m.gen)
<1>1. /\ m \in MessageType /\ queue' \in [Connections -> Seq(MessageType)]
      /\ \A e \in Connections : Len(queue'[e]) <= MaxQueue
  BY DispatchType DEF Dispatches
<1>2. d \in Devices BY ConnectionsOfClients
<1>3. h \in HostType BY UnlinkedKeeps DEF TypeOK
<1>4. PICK r \in IF stale THEN Refuse(h) ELSE ClaimPane(h, c, m) :
               /\ host' = r.host
               /\ bound' = [bound EXCEPT ![c] = r.lease]
               /\ gens' = IF stale THEN gens ELSE [gens EXCEPT ![d].claimed = m.gen]
               /\ client' = IF Hears(c) /\ r.offer # NoTarget
                            THEN [client EXCEPT ![d].offer = r.offer] ELSE client
  OBVIOUS
<1> HIDE DEF h
<1>5. /\ r.host \in HostType /\ r.offer \in TargetType
      /\ r.lease \in LeaseType \cup {NoLease}
  <2>1. CASE stale
    <3>1. r = [host |-> h, lease |-> NoLease, offer |-> NoTarget]
      BY <2>1, <1>4 DEF Refuse
    <3> QED BY <3>1, <1>3, PaneControlAssumption DEF NoTarget, TargetType
  <2>2. CASE ~stale
    <3>1. Answered(h, c, m.gen, r)
      BY <2>2, <1>1, <1>3, <1>4, ClaimsAreAnswered DEF TypeOK
    <3> QED BY <3>1 DEF Answered
  <2> QED BY <2>1, <2>2
<1>6. bound' \in [Connections -> LeaseType \cup {NoLease}] BY <1>4, <1>5 DEF TypeOK
<1>7. gens' \in [Devices -> [claimed : 0 .. MaxGeneration, released : 0 .. MaxGeneration]]
  <2> HIDE DEF stale
  <2>1. m.gen \in 0 .. MaxGeneration BY <1>1 DEF MessageType
  <2> QED BY <1>2, <1>4, <2>1 DEF TypeOK
<1>8. client' \in [Devices -> ClientType]
  <2> DEFINE k == [client[d] EXCEPT !.offer = r.offer]
  <2>1. client \in [Devices -> ClientType] /\ client[d] \in ClientType
    BY <1>2 DEF TypeOK
  <2>2. k \in ClientType BY <2>1, <1>5 DEF ClientType
  <2>3. client' \in {client, [client EXCEPT ![d] = k]} BY <1>4, <1>2, <2>1
  <2> HIDE DEF k
  <2> QED BY <2>1, <2>2, <2>3, <1>2, ClientReplaced
<1>9. bell' \in BOOLEAN OBVIOUS
<1> QED BY <1>1, <1>4, <1>5, <1>6, <1>7, <1>8, <1>9 DEF TypeOK

(* What every step but a claim does to grants and leases: it gives none, and *)
(* a Pane no longer named stays so.                                          *)
Quiet ==
    /\ host' \in HostType /\ GrantsNothing(host, host')
    /\ listed' \in BOOLEAN /\ (listed' => listed)
    /\ bound' \in [Connections -> LeaseType \cup {NoLease}]
    /\ \A c \in Connections : bound'[c] \in {bound[c], NoLease}

(* An operation on a channel is quiet.                                       *)
LEMMA OnChannelQuiet ==
    ASSUME TypeOK, NEW c \in Connections, OnChannel(c)
    PROVE  Quiet
<1> DEFINE granted == Observes(host, c)
           r == drain(host)
<1>1. PICK m \in Received(c) :
      /\ m.kind \in {"input", "command", "drop", "close"}
      /\ LET h == CASE ~granted -> host
                    [] granted /\ m.kind \in {"input", "command"} -> r
                    [] granted /\ m.kind = "drop" ->
                         [r EXCEPT !.pane = Unclaimed(@, ControlNonce)]
                    [] granted /\ m.kind = "close" ->
                         [r EXCEPT !.pane = NoPane, !.identity = FALSE]
         IN  /\ host' = h
             /\ bound' = [bound EXCEPT ![c] =
                            IF m.kind = "drop" \/ (m.kind # "input" /\ ~LeaseLive(h, @))
                            THEN NoLease ELSE @]
      /\ listed' = listed
  BY DEF OnChannel
<1>2. host \in HostType BY DEF TypeOK
<1>3. /\ r \in HostType /\ GrantsNothing(host, r) /\ (Lives(r) <=> Lives(host))
      /\ Lives(host) => r.pane \in PaneType
  BY <1>2, DrainKeeps
<1>4. host' \in HostType /\ GrantsNothing(host, host')
  <2>1. CASE ~granted
    <3>1. host' = host BY <1>1, <2>1
    <3> QED BY <3>1, <1>2 DEF GrantsNothing
  <2>2. CASE granted /\ m.kind \in {"input", "command"}
    <3>1. host' = r BY <1>1, <2>2
    <3> QED BY <3>1, <1>3
  <2>3. CASE granted /\ m.kind = "drop"
    <3> DEFINE p == Unclaimed(r.pane, ControlNonce)
               s == [r EXCEPT !.pane = p]
    <3>1. host' = s BY <1>1, <2>3
    <3>2. r.pane \in PaneType BY <1>3, <2>3 DEF Observes, LeaseLive
    <3> HIDE DEF r
    <3>3. p \in PaneType /\ p.device = NoDevice
      BY <3>2, ControlNonceIsFresh, PaneControlAssumption DEF Unclaimed, PaneType, Peers
    <3> HIDE DEF p
    <3>4. s \in HostType /\ s.pane = p /\ s.dormant = r.dormant BY <1>3, <3>3 DEF HostType
    <3> HIDE DEF s
    <3>5. GrantsNothing(r, s)
      BY <3>3, <3>4, PaneControlAssumption DEF GrantsNothing, Holds, Sleeps
    <3> QED BY <3>1, <3>4, <3>5, <1>3, GrantsNothingTwice
  <2>4. CASE granted /\ m.kind = "close"
    <3> DEFINE s == [r EXCEPT !.pane = NoPane, !.identity = FALSE]
    <3>1. host' = s BY <1>1, <2>4
    <3> HIDE DEF r
    <3>2. s \in HostType /\ ~Lives(s) /\ s.dormant = r.dormant BY <1>3 DEF HostType, Lives
    <3> HIDE DEF s
    <3>3. GrantsNothing(r, s) BY <3>2, <1>3, RetiringGrantsNothing
    <3> QED BY <3>1, <3>2, <3>3, <1>3, GrantsNothingTwice
  <2> QED BY <2>1, <2>2, <2>3, <2>4, <1>1
<1>5. /\ bound' \in [Connections -> LeaseType \cup {NoLease}]
      /\ \A e \in Connections : bound'[e] \in {bound[e], NoLease}
  <2>1. PICK b \in BOOLEAN : bound' = [bound EXCEPT ![c] = IF b THEN NoLease ELSE @]
    BY <1>1
  <2> QED BY <2>1 DEF TypeOK
<1> QED BY <1>1, <1>4, <1>5 DEF Quiet, TypeOK

(* A publication is quiet.                                                   *)
LEMMA PublishQuiet ==
    ASSUME TypeOK, NEW c \in Connections, publish(c)
    PROVE  Quiet /\ bell' \in BOOLEAN /\ client' \in [Devices -> ClientType]
<1>0. host \in HostType /\ listed \in BOOLEAN /\ bell \in BOOLEAN BY DEF TypeOK
<1>1. CASE ~Open(c) \/ bound[c] = NoLease
  <2>1. /\ UNCHANGED <<host, listed, bound, client>>
        /\ bell' = (bell \/ ~Open(c))
    BY <1>1 DEF publish
  <2> QED BY <2>1, <1>0 DEF Quiet, TypeOK, GrantsNothing
<1>2. CASE Open(c) /\ bound[c] # NoLease
  <2> DEFINE gone == Gone(host, c)
             r == observe(host, c)
             s(durable) == IF gone /\ Known(host, c) THEN synchronize(r, durable)
                           ELSE [host |-> r, listed |-> listed]
  <2>1. PICK durable \in BOOLEAN :
          /\ host' = s(durable).host /\ listed' = s(durable).listed
          /\ bound' = IF gone THEN [bound EXCEPT ![c] = NoLease] ELSE bound
          /\ bell' = (bell \/ (gone /\ Known(host, c)) \/ ~reroute(bound'))
          /\ client' = IF gone /\ Hears(c)
                       THEN [client EXCEPT ![Owner(c)].offer = OfferOf(r)]
                       ELSE client
    BY <1>2 DEF publish
  <2>2. r \in HostType /\ GrantsNothing(host, r) BY <1>0, ObserveKeeps
  <2> HIDE DEF r
  <2>3. /\ s(durable).host \in HostType /\ s(durable).listed \in BOOLEAN
        /\ GrantsNothing(host, s(durable).host) /\ (s(durable).listed => listed)
    <3>1. CASE gone /\ Known(host, c)
      <4> DEFINE y == synchronize(r, durable)
      <4>1. s(durable) = y BY <3>1
      <4>2. /\ y.host \in HostType /\ y.listed \in BOOLEAN
            /\ GrantsNothing(r, y.host) /\ (y.listed => listed)
        BY <1>0, <2>2, SynchronizeKeeps
      <4>3. GrantsNothing(host, y.host) BY <4>2, <1>0, <2>2, GrantsNothingTwice
      <4> QED BY <4>1, <4>2, <4>3
    <3>2. CASE ~(gone /\ Known(host, c))
      <4>1. s(durable) = [host |-> r, listed |-> listed] BY <3>2
      <4> QED BY <4>1, <1>0, <2>2
    <3> QED BY <3>1, <3>2
  <2>4. /\ bound' \in [Connections -> LeaseType \cup {NoLease}]
        /\ \A e \in Connections : bound'[e] \in {bound[e], NoLease}
    BY <2>1 DEF TypeOK
  <2>5. bell' \in BOOLEAN BY <2>1
  <2>6. client' \in [Devices -> ClientType]
    <3> DEFINE d == Owner(c)
               k == [client[d] EXCEPT !.offer = OfferOf(r)]
    <3>1. d \in Devices BY ConnectionsOfClients
    <3>2. client \in [Devices -> ClientType] /\ client[d] \in ClientType
      BY <3>1 DEF TypeOK
    <3>3. OfferOf(r) \in TargetType
      BY <2>2, PaneControlAssumption
      DEF OfferOf, Target, TargetType, HostType, PaneType, Lives, TypeOK
    <3>4. k \in ClientType BY <3>2, <3>3 DEF ClientType
    <3>5. client' \in {client, [client EXCEPT ![d] = k]} BY <2>1, <3>1, <3>2
    <3> HIDE DEF k
    <3> QED BY <3>1, <3>2, <3>4, <3>5, ClientReplaced
  <2> HIDE DEF s
  <2> QED BY <2>1, <2>3, <2>4, <2>5, <2>6 DEF Quiet
<1> QED BY <1>1, <1>2

(* The tick is quiet.                                                        *)
LEMMA TickQuiet ==
    ASSUME TypeOK, NEW defers \in BOOLEAN, tick(defers)
    PROVE  /\ Quiet /\ bell' \in BOOLEAN /\ ends' \in Names \cup {0}
           /\ client' \in [Devices -> ClientType]
           /\ \A d \in Devices : client'[d] = [client[d] EXCEPT !.offer = client'[d].offer]
<1>0. host \in HostType /\ listed \in BOOLEAN BY DEF TypeOK
<1> DEFINE seen == {c \in Connections : bound[c] # NoLease}
           rang == IF bell THEN {c \in seen : Gone(host, c)} ELSE {}
           o == IF bell /\ \E c \in seen : Observes(host, c)
                THEN observe(host, CHOOSE c \in seen : Observes(host, c)) ELSE host
           works == ~defers \/ \E c \in rang : Known(host, c)
           s(durable) == IF works THEN synchronize(o, durable)
                         ELSE [host |-> o, listed |-> listed]
           b(durable) == [c \in Connections |->
                     IF c \in rang \/ ~LeaseLive(s(durable).host, bound[c]) THEN NoLease
                     ELSE bound[c]]
<1>1. PICK durable \in BOOLEAN :
         /\ host' = s(durable).host /\ listed' = s(durable).listed
         /\ bound' = b(durable)
         /\ bell' = ((\E c \in {e \in seen \ rang : b(durable)[e] = NoLease} :
                         Known(s(durable).host, c)) \/ ~reroute(b(durable)))
         /\ ends' = IF works /\ durable THEN 0 ELSE ends
         /\ client' = [d \in Devices |->
                         IF \E c \in seen : Owner(c) = d /\ Hears(c) /\ b(durable)[c] = NoLease
                         THEN [client[d] EXCEPT !.offer = OfferOf(s(durable).host)]
                         ELSE client[d]]
  BY DEF tick
<1>2. o \in HostType /\ GrantsNothing(host, o)
  <2>1. CASE bell /\ \E c \in seen : Observes(host, c)
    <3> DEFINE e == CHOOSE c \in seen : Observes(host, c)
    <3>1. e \in Connections BY <2>1
    <3>2. o = observe(host, e) BY <2>1
    <3> HIDE DEF e, o
    <3> QED BY <3>1, <3>2, <1>0, ObserveKeeps
  <2>2. CASE ~(bell /\ \E c \in seen : Observes(host, c))
    <3>1. o = host BY <2>2
    <3> QED BY <3>1, <1>0 DEF GrantsNothing
  <2> QED BY <2>1, <2>2
<1> HIDE DEF o
<1>3. /\ s(durable).host \in HostType /\ s(durable).listed \in BOOLEAN
      /\ GrantsNothing(host, s(durable).host) /\ (s(durable).listed => listed)
  <2>1. CASE works
    <3> DEFINE y == synchronize(o, durable)
    <3>1. s(durable) = y BY <2>1
    <3>2. /\ y.host \in HostType /\ y.listed \in BOOLEAN
          /\ GrantsNothing(o, y.host) /\ (y.listed => listed)
      BY <1>0, <1>2, SynchronizeKeeps
    <3>3. GrantsNothing(host, y.host) BY <3>2, <1>0, <1>2, GrantsNothingTwice
    <3> QED BY <3>1, <3>2, <3>3
  <2>2. CASE ~(works)
    <3>1. s(durable) = [host |-> o, listed |-> listed] BY <2>2
    <3> QED BY <3>1, <1>0, <1>2
  <2> QED BY <2>1, <2>2
<1> HIDE DEF s
<1>4. /\ bound' \in [Connections -> LeaseType \cup {NoLease}]
      /\ \A e \in Connections : bound'[e] \in {bound[e], NoLease}
  <2> HIDE DEF rang
  <2> QED BY <1>1 DEF TypeOK
<1> HIDE DEF b
<1>5. bell' \in BOOLEAN BY <1>1
<1>6. ends' \in Names \cup {0} BY <1>1 DEF TypeOK
<1>7. /\ client' \in [Devices -> ClientType]
      /\ \A d \in Devices : client'[d] = [client[d] EXCEPT !.offer = client'[d].offer]
  <2> DEFINE k(d) == [client[d] EXCEPT !.offer = OfferOf(s(durable).host)]
             told(d) == \E c \in seen : Owner(c) = d /\ Hears(c) /\ b(durable)[c] = NoLease
  <2>1. client' = [d \in Devices |-> IF told(d) THEN k(d) ELSE client[d]] BY <1>1
  <2>2. \A d \in Devices : client[d] \in ClientType BY DEF TypeOK
  <2>3. OfferOf(s(durable).host) \in TargetType
    BY <1>3, PaneControlAssumption
    DEF OfferOf, Target, TargetType, HostType, PaneType, Lives, TypeOK
  <2>4. \A d \in Devices : k(d) \in ClientType BY <2>2, <2>3 DEF ClientType
  <2>5. \A d \in Devices : /\ k(d) = [client[d] EXCEPT !.offer = k(d).offer]
                           /\ client[d] = [client[d] EXCEPT !.offer = client[d].offer]
    BY <2>2 DEF ClientType
  <2> HIDE DEF told, k
  <2> QED BY <2>1, <2>2, <2>4, <2>5
<1> QED BY <1>1, <1>3, <1>4, <1>5, <1>6, <1>7 DEF Quiet

(* A host, its Pane's name and its leases that do not change are quiet.      *)
LEMMA UnchangedQuiet ==
    ASSUME TypeOK, UNCHANGED <<host, listed, bound>>
    PROVE  Quiet
  BY DEF TypeOK, Quiet, GrantsNothing

(* Every step but a claim is quiet.                                          *)
LEMMA QuietSteps ==
    ASSUME TypeOK, Next, \A c \in Connections : ~Claim(c)
    PROVE  Quiet
<1>0. host \in HostType /\ listed \in BOOLEAN BY DEF TypeOK
<1>q. ASSUME UNCHANGED bound, listed' \in BOOLEAN, listed' => listed,
             host' \in HostType, GrantsNothing(host, host')
      PROVE  Quiet
  BY <1>q DEF Quiet, TypeOK
<1>1. ASSUME NEW c \in Connections, Release(c) PROVE Quiet
  <2>1. PICK m \in Received(c) :
          /\ host' = ReleaseAttachment(host, Owner(c), m.gen)
          /\ UNCHANGED <<bound, listed>> /\ Dispatches(c)
    BY <1>1 DEF Release
  <2>2. m.gen \in 0 .. MaxGeneration
    BY <2>1, DispatchType DEF Dispatches, MessageType
  <2> QED BY <2>1, <2>2, <1>0, <1>q, ReleaseAttachmentKeeps, ConnectionsOfClients
<1>2. ASSUME NEW c \in Connections, OnChannel(c) PROVE Quiet
  BY <1>2, OnChannelQuiet
<1>3. ASSUME NEW c \in Connections, publish(c) PROVE Quiet
  BY <1>3, PublishQuiet
<1>4. ASSUME NEW c \in Connections, disconnected(c) PROVE Quiet
  <2>1. /\ host' = Unlinked(host, c) /\ UNCHANGED listed
        /\ bound' = [bound EXCEPT ![c] = NoLease]
    BY <1>4 DEF disconnected
  <2>2. host' \in HostType /\ GrantsNothing(host, host') BY <2>1, <1>0, UnlinkedKeeps
  <2> QED BY <2>1, <2>2 DEF Quiet, TypeOK
<1>5. ASSUME NEW c \in Connections, Goodbye(c) PROVE Quiet
  BY <1>5, UnchangedQuiet DEF Goodbye, serverVars
<1>6. ASSUME NEW how \in Exits, Exit(how) PROVE Quiet
  <2>1. /\ Lives(host) /\ host' = [host EXCEPT !.pane.exit = how]
        /\ UNCHANGED <<listed, bound>>
    BY <1>6 DEF Exit
  <2> DEFINE p == [host.pane EXCEPT !.exit = how]
  <2>2. host.pane \in PaneType BY <2>1, <1>0 DEF HostType, Lives
  <2>3. p \in PaneType /\ p.device = host.pane.device /\ p.gen = host.pane.gen
    BY <2>2, PaneControlAssumption DEF PaneType
  <2>4. host' = [host EXCEPT !.pane = p] BY <2>1, <1>0 DEF HostType
  <2> HIDE DEF p
  <2>5. host' \in HostType /\ host'.pane = p /\ host'.dormant = host.dormant
    BY <2>3, <2>4, <1>0 DEF HostType
  <2>6. GrantsNothing(host, host')
    BY <2>1, <2>3, <2>5 DEF GrantsNothing, Holds, Sleeps
  <2> QED BY <2>1, <2>5, <2>6, <1>0, <1>q
<1>7. ASSUME notify PROVE Quiet
  BY <1>7, UnchangedQuiet DEF notify, serverVars
<1>8. ASSUME NEW defers \in BOOLEAN, tick(defers) PROVE Quiet
  BY <1>8, TickQuiet
<1>9. ASSUME NEW d \in Devices,
             \/ Connect(d) \/ LinkEnds(d) \/ attach(d) \/ detach(d)
             \/ SendClaim(d) \/ release_pending(d) \/ Revoke(d)
             \/ \E kind \in Requests \cap Claims : Permit(d, kind)
             \/ \E kind \in Requests \ Claims : SendOnChannel(d, kind)
      PROVE  Quiet
  BY <1>9, UnchangedQuiet
  DEF Connect, LinkEnds, attach, detach, SendClaim, release_pending, Revoke, Permit,
      SendOnChannel, serverVars, servedVars
<1>10. ASSUME NEW d \in Devices, Revoked(d) \/ Evict(d) PROVE Quiet
  <2>1. host' = release_control(host, d) /\ UNCHANGED <<listed, bound>>
    BY <1>10 DEF Revoked, Evict
  <2> QED BY <2>1, <1>0, <1>q, ReleaseControlKeeps
<1>11. ASSUME DeletePane PROVE Quiet
  <2>1. UNCHANGED <<host, bound>> /\ listed' = FALSE
    BY <1>11 DEF DeletePane, servedVars
  <2> QED BY <2>1, <1>0, <1>q DEF GrantsNothing
<1>12. ASSUME EndAllSessions PROVE Quiet
  BY <1>12, UnchangedQuiet DEF EndAllSessions, servedVars
<1>13. ASSUME Restart PROVE Quiet
  <2>1. /\ host' = [pane |-> NoPane, dormant |-> NoDormant, identity |-> TRUE]
        /\ bound' = [c \in Connections |-> NoLease] /\ UNCHANGED listed
    BY <1>13 DEF Restart
  <2>2. host' \in HostType /\ host'.pane = NoPane /\ host'.dormant = NoDormant
    BY <2>1, PaneControlAssumption DEF HostType, NoDormant, Peers
  <2>3. GrantsNothing(host, host')
    BY <2>2 DEF GrantsNothing, Holds, Sleeps, Lives, NoDormant
  <2> QED BY <2>1, <2>2, <2>3, <1>0 DEF Quiet
<1> QED
  BY <1>1, <1>2, <1>3, <1>4, <1>5, <1>6, <1>7, <1>8, <1>9, <1>10, <1>11, <1>12, <1>13
  DEF Next

(* Every step keeps the types.                                               *)
LEMMA PaneTypeInductive == TypeOK /\ [Next]_vars => TypeOK'
<1> SUFFICES ASSUME TypeOK, [Next]_vars PROVE TypeOK' OBVIOUS
<1>a. CASE UNCHANGED vars BY <1>a DEF vars, TypeOK
<1>b. CASE \E c \in Connections : Claim(c) BY <1>b, ClaimTyped
<1>c. CASE Next /\ \A c \in Connections : ~Claim(c)
  <2>0. Quiet BY <1>c, QuietSteps
  <2>c. ASSUME NEW d \in Devices, NEW k \in ClientType,
               client' = [client EXCEPT ![d] = k]
        PROVE  client' \in [Devices -> ClientType]
    BY <2>c, ClientReplaced
  <2>n. /\ 0 \in 0 .. MaxGeneration /\ 0 \in 0 .. MaxLinks
        /\ NoPermit \in PermitType /\ NoTarget \in TargetType
    BY PaneControlAssumption DEF PermitType, NoTarget, TargetType
  <2>1. ASSUME NEW c \in Connections, Release(c) PROVE TypeOK'
    <3>1. PICK m \in Received(c) :
          /\ Dispatches(c) /\ m.kind = "release"
          /\ gens' = [gens EXCEPT ![Owner(c)].released = IF @ < m.gen THEN m.gen ELSE @]
          /\ client' = IF Hears(c) THEN [client EXCEPT ![Owner(c)] = released(@, m.gen)]
                       ELSE client
          /\ bell' = (bell \/ rings(m))
          /\ UNCHANGED <<boot, listed, creator, ends, revoked, conn, bound, want,
                         notifying, paced>>
      BY <2>1 DEF Release
    <3>2. /\ m \in MessageType /\ queue' \in [Connections -> Seq(MessageType)]
          /\ \A e \in Connections : Len(queue'[e]) <= MaxQueue
      BY <3>1, DispatchType DEF Dispatches
    <3>3. m.gen \in 0 .. MaxGeneration BY <3>2 DEF MessageType
    <3> DEFINE d == Owner(c)
               k == released(client[d], m.gen)
    <3>4. d \in Devices BY ConnectionsOfClients
    <3>5. client \in [Devices -> ClientType] /\ client[d] \in ClientType
      BY <3>4 DEF TypeOK
    <3>6. k \in ClientType
      <4>1. released(client[d], m.gen).permit \in PermitType
        BY <3>5, <2>n DEF released, ClientType, PermitType, NoPermit
      <4> QED BY <4>1, <3>5, <2>n DEF released, ClientType
    <3>7. client' \in {client, [client EXCEPT ![d] = k]} BY <3>1, <3>4, <3>5
    <3> HIDE DEF k
    <3>8. client' \in [Devices -> ClientType] BY <3>4, <3>5, <3>6, <3>7, <2>c
    <3>9. gens' \in [Devices -> [claimed : 0 .. MaxGeneration, released : 0 .. MaxGeneration]]
      <4> DEFINE x == gens[d].released
                 y == IF x < m.gen THEN m.gen ELSE x
      <4>1. gens \in [Devices -> [claimed : 0 .. MaxGeneration, released : 0 .. MaxGeneration]]
        BY DEF TypeOK
      <4>2. y \in 0 .. MaxGeneration BY <4>1, <3>3, <3>4
      <4>3. gens' = [gens EXCEPT ![d] = [gens[d] EXCEPT !.released = y]]
        BY <4>1, <3>1, <3>4
      <4> HIDE DEF y
      <4> QED BY <4>1, <4>2, <4>3, <3>4
    <3> QED BY <3>1, <3>2, <3>8, <3>9, <2>0 DEF TypeOK, Quiet
  <2>2. ASSUME NEW c \in Connections, OnChannel(c) PROVE TypeOK'
    <3>1. PICK m \in Received(c) :
          /\ Dispatches(c) /\ bell' = (bell \/ rings(m))
          /\ UNCHANGED <<boot, listed, creator, gens, ends, revoked, conn, want,
                         notifying, client, paced>>
      BY <2>2 DEF OnChannel
    <3>2. /\ queue' \in [Connections -> Seq(MessageType)]
          /\ \A e \in Connections : Len(queue'[e]) <= MaxQueue
      BY <3>1, DispatchType DEF Dispatches
    <3> QED BY <3>1, <3>2, <2>0 DEF TypeOK, Quiet
  <2>3. ASSUME NEW c \in Connections, publish(c) PROVE TypeOK'
    <3>1. /\ want' = [want EXCEPT ![c] = FALSE]
          /\ UNCHANGED <<boot, creator, gens, ends, revoked, conn, notifying, queue,
                         paced>>
      BY <2>3 DEF publish
    <3>2. bell' \in BOOLEAN /\ client' \in [Devices -> ClientType]
      BY <2>3, PublishQuiet
    <3> QED BY <3>1, <3>2, <2>0 DEF TypeOK, Quiet
  <2>4. ASSUME NEW c \in Connections, disconnected(c) PROVE TypeOK'
    <3>1. /\ conn' = [conn EXCEPT ![c] = "gone"]
          /\ want' = [want EXCEPT ![c] = FALSE]
          /\ queue' = [queue EXCEPT ![c] = <<>>]
          /\ bell' \in BOOLEAN
          /\ UNCHANGED <<boot, listed, creator, gens, ends, revoked, notifying,
                         client, paced>>
      BY <2>4 DEF disconnected
    <3>2. /\ queue' \in [Connections -> Seq(MessageType)]
          /\ \A e \in Connections : Len(queue'[e]) <= MaxQueue
      <4>1. /\ queue \in [Connections -> Seq(MessageType)] /\ MaxQueue \in Nat
            /\ <<>> \in Seq(MessageType) /\ Len(<<>>) = 0
        BY PaneControlAssumption DEF TypeOK
      <4> QED BY <4>1, <3>1 DEF TypeOK
    <3>3. conn' \in [Connections -> {"none", "open", "closing", "gone"}]
          /\ want' \in [Connections -> BOOLEAN]
      BY <3>1 DEF TypeOK
    <3> QED BY <3>1, <3>2, <3>3, <2>0 DEF TypeOK, Quiet
  <2>5. ASSUME NEW c \in Connections, Goodbye(c) PROVE TypeOK'
    BY <2>5, <2>0 DEF Goodbye, TypeOK, Quiet, serverVars
  <2>6. ASSUME NEW how \in Exits, Exit(how) PROVE TypeOK'
    <3>1. host.pane.session \in Names
      BY <2>6 DEF Exit, TypeOK, HostType, PaneType, Lives
    <3> QED BY <3>1, <2>6, <2>0 DEF Exit, TypeOK, Quiet
  <2>7. ASSUME notify PROVE TypeOK'
    <3>1. want' \in [Connections -> BOOLEAN] /\ bell' \in BOOLEAN /\ notifying' = 0
      BY <2>7 DEF notify, TypeOK
    <3> QED BY <3>1, <2>7, <2>0 DEF notify, TypeOK, Quiet, serverVars
  <2>8. ASSUME NEW defers \in BOOLEAN, tick(defers) PROVE TypeOK'
    <3>1. /\ paced' = defers
          /\ UNCHANGED <<boot, creator, gens, revoked, conn, want, notifying, queue>>
      BY <2>8 DEF tick
    <3>2. /\ bell' \in BOOLEAN /\ ends' \in Names \cup {0}
          /\ client' \in [Devices -> ClientType]
      BY <2>8, TickQuiet
    <3> QED BY <3>1, <3>2, <2>0 DEF TypeOK, Quiet
  <2>9. ASSUME NEW d \in Devices, Connect(d) PROVE TypeOK'
    <3>1. PICK n \in 1 .. MaxLinks :
          /\ conn' = [conn EXCEPT ![<<d, n>>] = "open"]
          /\ client' = [client EXCEPT ![d].link = n]
          /\ UNCHANGED <<serverVars, bound, want, bell, notifying, queue, paced>>
      BY <2>9 DEF Connect
    <3> DEFINE k == [client[d] EXCEPT !.link = n]
    <3>0. client[d] \in ClientType /\ n \in 0 .. MaxLinks
      BY PaneControlAssumption DEF TypeOK
    <3>2. k \in ClientType BY <3>0 DEF ClientType
    <3>3. client' = [client EXCEPT ![d] = k] BY <3>1 DEF TypeOK
    <3> HIDE DEF k
    <3>4. client' \in [Devices -> ClientType] BY <3>2, <3>3, <2>c
    <3> QED BY <3>1, <3>4, <2>0 DEF TypeOK, Quiet, serverVars
  <2>10. ASSUME NEW d \in Devices, LinkEnds(d) PROVE TypeOK'
    <3> DEFINE k == [client[d] EXCEPT !.link = NoLink, !.permit = NoPermit]
    <3>1. k \in ClientType BY <2>n DEF TypeOK, ClientType, NoLink
    <3>2. client' = [client EXCEPT ![d] = k] BY <2>10 DEF TypeOK, LinkEnds
    <3> HIDE DEF k
    <3>3. client' \in [Devices -> ClientType] BY <3>1, <3>2, <2>c
    <3> QED BY <2>10, <3>3, <2>0 DEF LinkEnds, TypeOK, Quiet, serverVars, servedVars
  <2>11. ASSUME NEW d \in Devices, attach(d) PROVE TypeOK'
    <3> DEFINE n == client[d].next + 1
               k == [client[d] EXCEPT !.next = n, !.attached = n]
    <3>0. client[d] \in ClientType BY DEF TypeOK
    <3>1. n \in 0 .. MaxGeneration
      BY <2>11, <3>0, PaneControlAssumption DEF attach, ClientType
    <3>2. client' = [client EXCEPT ![d] = k] BY <2>11, <3>0 DEF TypeOK, attach, ClientType
    <3> HIDE DEF n
    <3>3. k \in ClientType BY <3>0, <3>1 DEF ClientType
    <3> HIDE DEF k
    <3>4. client' \in [Devices -> ClientType] BY <3>2, <3>3, <2>c
    <3> QED BY <2>11, <3>4, <2>0 DEF attach, TypeOK, Quiet, serverVars, servedVars
  <2>12. ASSUME NEW d \in Devices, detach(d) PROVE TypeOK'
    <3> DEFINE k == [client[d] EXCEPT !.attached = 0, !.pending = client[d].attached]
    <3>0. client[d] \in ClientType BY DEF TypeOK
    <3>1. client' = [client EXCEPT ![d] = k] BY <2>12, <3>0 DEF TypeOK, detach, ClientType
    <3>2. k \in ClientType BY <3>0, <2>n DEF ClientType
    <3> HIDE DEF k
    <3>3. client' \in [Devices -> ClientType] BY <3>1, <3>2, <2>c
    <3> QED BY <2>12, <3>3, <2>0 DEF detach, TypeOK, Quiet, serverVars, servedVars
  <2>13. ASSUME NEW d \in Devices, SendClaim(d) PROVE TypeOK'
    <3> DEFINE k == client[d].permit
               m == [kind |-> k.kind, gen |-> k.gen,
                     target |-> IF k.kind \in Informed THEN client[d].offer ELSE NoTarget]
               x == [client[d] EXCEPT !.permit = NoPermit]
    <3>0. client[d] \in ClientType BY DEF TypeOK
    <3>1. /\ k # NoPermit /\ Sends(d, m)
          /\ client' = [client EXCEPT ![d].permit = NoPermit]
          /\ UNCHANGED <<serverVars, conn, bound, want, bell, notifying, paced>>
      BY <2>13 DEF SendClaim
    <3>2. k.gen \in 0 .. MaxGeneration /\ k.kind \in Claims
      BY <3>0, <3>1 DEF ClientType, PermitType
    <3>3. (IF k.kind \in Informed THEN client[d].offer ELSE NoTarget) \in TargetType
      BY <3>0, <2>n DEF ClientType
    <3>4. m \in MessageType BY <3>2, <3>3 DEF MessageType
    <3> HIDE DEF m
    <3>5. /\ queue' \in [Connections -> Seq(MessageType)]
          /\ \A e \in Connections : Len(queue'[e]) <= MaxQueue
      BY <3>1, <3>4, SendType
    <3>6. x \in ClientType BY <3>0, <2>n DEF ClientType
    <3>7. client' = [client EXCEPT ![d] = x] BY <3>1 DEF TypeOK
    <3> HIDE DEF x
    <3>8. client' \in [Devices -> ClientType] BY <3>6, <3>7, <2>c
    <3> QED BY <3>1, <3>5, <3>8, <2>0 DEF TypeOK, Quiet, serverVars
  <2>14. ASSUME NEW d \in Devices, release_pending(d) PROVE TypeOK'
    <3> DEFINE m == [kind |-> "release", gen |-> client[d].pending, target |-> NoTarget]
    <3>1. /\ Sends(d, m)
          /\ UNCHANGED <<serverVars, conn, bound, want, bell, notifying, client, paced>>
      BY <2>14 DEF release_pending
    <3>2. m \in MessageType BY <2>n DEF MessageType, TypeOK, ClientType
    <3> HIDE DEF m
    <3>3. /\ queue' \in [Connections -> Seq(MessageType)]
          /\ \A e \in Connections : Len(queue'[e]) <= MaxQueue
      BY <3>1, <3>2, SendType
    <3> QED BY <3>1, <3>3, <2>0 DEF TypeOK, Quiet, serverVars
  <2>15. ASSUME NEW d \in Devices, NEW kind \in Requests \ Claims, SendOnChannel(d, kind)
         PROVE  TypeOK'
    <3> DEFINE m == [kind |-> kind, gen |-> 0, target |-> NoTarget]
    <3>1. /\ Sends(d, m)
          /\ UNCHANGED <<serverVars, conn, bound, want, bell, notifying, client, paced>>
      BY <2>15 DEF SendOnChannel
    <3>0. kind \in {"input", "command", "drop", "close"}
      BY <2>15, PaneControlAssumption DEF Claims
    <3>2. m \in MessageType BY <2>n, <3>0 DEF MessageType
    <3> HIDE DEF m
    <3>3. /\ queue' \in [Connections -> Seq(MessageType)]
          /\ \A e \in Connections : Len(queue'[e]) <= MaxQueue
      BY <3>1, <3>2, SendType
    <3> QED BY <3>1, <3>3, <2>0 DEF TypeOK, Quiet, serverVars
  <2>16. ASSUME NEW d \in Devices, NEW kind \in Requests \cap Claims, Permit(d, kind)
         PROVE  TypeOK'
    <3> DEFINE p == [gen |-> client[d].attached, kind |-> kind, waits |-> client[d].pending]
               k == [client[d] EXCEPT !.permit = p]
    <3>0. client[d] \in ClientType BY DEF TypeOK
    <3>1. p \in PermitType BY <2>16, <3>0 DEF PermitType, ClientType
    <3>2. client' = [client EXCEPT ![d] = k] BY <2>16, <3>0 DEF TypeOK, Permit, ClientType
    <3> HIDE DEF p
    <3>3. k \in ClientType BY <3>0, <3>1 DEF ClientType
    <3> HIDE DEF k
    <3>4. client' \in [Devices -> ClientType] BY <3>2, <3>3, <2>c
    <3> QED BY <2>16, <3>4, <2>0 DEF Permit, TypeOK, Quiet, serverVars, servedVars
  <2>17. ASSUME NEW d \in Devices, Revoke(d) PROVE TypeOK'
    BY <2>17, <2>0 DEF Revoke, TypeOK, Quiet
  <2>18. ASSUME NEW d \in Devices, Revoked(d) PROVE TypeOK'
    <3>1. creator' \in Peers /\ bell' = TRUE
      BY <2>18 DEF Revoked, TypeOK, Peers
    <3>2. gens' \in [Devices -> [claimed : 0 .. MaxGeneration, released : 0 .. MaxGeneration]]
      BY <2>18, <2>n DEF Revoked, TypeOK
    <3>3. revoked' \in [Devices -> {"no", "goodbye", "done"}]
      BY <2>18 DEF Revoked, TypeOK
    <3> QED BY <2>18, <3>1, <3>2, <3>3, <2>0 DEF Revoked, TypeOK, Quiet
  <2>19. ASSUME NEW d \in Devices, Evict(d) PROVE TypeOK'
    BY <2>19, <2>0 DEF Evict, TypeOK, Quiet
  <2>20. ASSUME DeletePane PROVE TypeOK'
    BY <2>20, <2>0 DEF DeletePane, TypeOK, Quiet, servedVars
  <2>21. ASSUME EndAllSessions PROVE TypeOK'
    <3>1. host.pane.session \in Names
      BY <2>21 DEF EndAllSessions, TypeOK, HostType, PaneType, Lives
    <3> QED BY <3>1, <2>21, <2>0 DEF EndAllSessions, TypeOK, Quiet, servedVars
  <2>22. ASSUME Restart PROVE TypeOK'
    <3>1. /\ boot' \in 1 .. MaxBoots /\ creator' \in Peers
      BY <2>22, PaneControlAssumption DEF Restart, TypeOK, Peers
    <3>2. /\ gens' \in [Devices -> [claimed : 0 .. MaxGeneration, released : 0 .. MaxGeneration]]
          /\ conn' \in [Connections -> {"none", "open", "closing", "gone"}]
          /\ want' \in [Connections -> BOOLEAN]
      BY <2>22, <2>n DEF Restart, TypeOK
    <3>3. /\ queue' \in [Connections -> Seq(MessageType)]
          /\ \A e \in Connections : Len(queue'[e]) <= MaxQueue
      BY <2>22, PaneControlAssumption DEF Restart
    <3>4. /\ ends' = 0 /\ notifying' = 0 /\ bell' = FALSE /\ paced' = FALSE
          /\ UNCHANGED <<listed, revoked, client>>
      BY <2>22 DEF Restart
    <3> QED BY <3>1, <3>2, <3>3, <3>4, <2>0 DEF TypeOK, Quiet
  <2> QED
    BY <1>c, <2>1, <2>2, <2>3, <2>4, <2>5, <2>6, <2>7, <2>8, <2>9, <2>10, <2>11, <2>12,
       <2>13, <2>14, <2>15, <2>16, <2>17, <2>18, <2>19, <2>20, <2>21, <2>22
    DEF Next
<1> QED BY <1>a, <1>b, <1>c

-----------------------------------------------------------------------------
(* Grants                                                                    *)

(* The two invariants, said of every client and generation.                  *)
Accounted ==
    listed => \A d \in Devices, g \in 0 .. MaxGeneration : Holds(host, d, g) => Answers(d, g)
RevokedBare ==
    \A d \in Devices : revoked[d] = "done" =>
        creator # d /\ \A g \in 0 .. MaxGeneration : ~Holds(host, d, g)

(* The pairs the invariants name are the grants a client holds.              *)
LEMMA GrantsAreHeld ==
    ASSUME TypeOK
    PROVE  /\ \A d \in Devices, g \in 0 .. MaxGeneration :
                 <<d, g>> \in Grants <=> Holds(host, d, g)
           /\ \A x \in Grants : /\ x = <<x[1], x[2]>> /\ x[1] \in Peers
                                /\ x[2] \in 0 .. MaxGeneration
<1>0. host \in HostType BY DEF TypeOK
<1>1. Lives(host) => host.pane.device \in Peers /\ host.pane.gen \in 0 .. MaxGeneration
  BY <1>0 DEF HostType, PaneType, Lives
<1>2. host.dormant.device \in Peers /\ host.dormant.gen \in 0 .. MaxGeneration
  BY <1>0 DEF HostType
<1>3. \A x : x \in Grants <=>
         \/ Lives(host) /\ x = <<host.pane.device, host.pane.gen>>
         \/ Sleeps(host) /\ x = <<host.dormant.device, host.dormant.gen>>
  BY DEF Grants
<1> QED BY <1>1, <1>2, <1>3 DEF Holds

(* Both forms of the two invariants say the same.                            *)
LEMMA AccountedIsGrant ==
    ASSUME TypeOK
    PROVE  /\ GrantIsAccountedFor <=> Accounted
           /\ RevokedHoldsNothing <=> RevokedBare
<1>0. NoDevice \notin Devices /\ Peers = Devices \cup {NoDevice}
  BY PaneControlAssumption DEF Peers
<1>1. GrantIsAccountedFor <=> Accounted
  BY <1>0, GrantsAreHeld DEF GrantIsAccountedFor, Accounted, Answers
<1>2. ASSUME NEW d \in Devices
      PROVE  d \in {x[1] : x \in Grants} <=>
                \E g \in 0 .. MaxGeneration : Holds(host, d, g)
  <2>1. ASSUME NEW x \in Grants, d = x[1]
        PROVE  \E g \in 0 .. MaxGeneration : Holds(host, d, g)
    <3>1. x = <<d, x[2]>> /\ x[2] \in 0 .. MaxGeneration BY <2>1, GrantsAreHeld
    <3>2. <<d, x[2]>> \in Grants BY <2>1, <3>1
    <3> QED BY <3>1, <3>2, GrantsAreHeld
  <2>2. ASSUME NEW g \in 0 .. MaxGeneration, Holds(host, d, g)
        PROVE  \E x \in Grants : d = x[1]
    <3>1. <<d, g>> \in Grants /\ <<d, g>>[1] = d BY <2>2, GrantsAreHeld
    <3> QED BY <3>1
  <2> QED BY <2>1, <2>2
<1>3. RevokedHoldsNothing <=> RevokedBare
  BY <1>2 DEF RevokedHoldsNothing, RevokedBare
<1> QED BY <1>1, <1>3

(* A step that gives no grant keeps each accounted for, if whoever holds one *)
(* afterwards still answers for it.                                          *)
LEMMA QuietGrants ==
    ASSUME TypeOK, Quiet, Accounted,
           \A d \in Devices, g \in 0 .. MaxGeneration :
              listed /\ Holds(host', d, g) /\ Answers(d, g) => Answers(d, g)'
    PROVE  Accounted'
  BY DEF Quiet, GrantsNothing, Accounted

(* A step that revokes nobody, or takes what the revoked device held.        *)
LEMMA QuietRevocation ==
    ASSUME TypeOK, Quiet, RevokedBare, creator' \in {creator, NoDevice},
           \A d \in Devices : revoked'[d] = "done" =>
              \/ revoked[d] = "done"
              \/ creator' # d /\ \A g \in 0 .. MaxGeneration : ~Holds(host', d, g)
    PROVE  RevokedBare'
  BY PaneControlAssumption DEF Quiet, GrantsNothing, RevokedBare

(* A quiet step keeps leases with their channels.                            *)
LEMMA QuietLeases ==
    ASSUME Quiet, LeasesAreOfTheirChannel
    PROVE  LeasesAreOfTheirChannel'
  BY DEF Quiet, LeasesAreOfTheirChannel

(* What a client remembers, but for the offer it was last shown.             *)
SameBook(d) ==
    /\ client'[d].attached = client[d].attached /\ client'[d].pending = client[d].pending
    /\ client'[d].next = client[d].next /\ client'[d].link = client[d].link
    /\ client'[d].permit = client[d].permit

(* A step that changes no client's book, opens no connection and queues      *)
(* nothing keeps the parts about generations, claims and links.              *)
LEMMA BooksKept ==
    ASSUME TypeOK, GenerationsInOrder, ClaimsAreCurrent, LinksAreMade,
           \A d \in Devices : SameBook(d),
           \A c \in Connections :
              /\ Open(c)' => Open(c) /\ gens'[Owner(c)].released = gens[Owner(c)].released
              /\ conn'[c] = "none" <=> conn[c] = "none"
              /\ conn[c] = "none" => queue'[c] = <<>>
              /\ \A i \in 1 .. Len(queue'[c]) :
                    \E j \in 1 .. Len(queue[c]) : queue'[c][i] = queue[c][j]
    PROVE  GenerationsInOrder' /\ ClaimsAreCurrent' /\ LinksAreMade'
<1>1. GenerationsInOrder' BY DEF GenerationsInOrder, SameBook
<1>2. LinksAreMade'
  <2>1. \A d \in Devices : IF client'[d].link = NoLink THEN client'[d].permit = NoPermit
                           ELSE conn'[<<d, client'[d].link>>] # "none"
    <3> SUFFICES ASSUME NEW d \in Devices
                 PROVE  IF client'[d].link = NoLink THEN client'[d].permit = NoPermit
                        ELSE conn'[<<d, client'[d].link>>] # "none"
      OBVIOUS
    <3>1. CASE client[d].link = NoLink BY <3>1 DEF LinksAreMade, SameBook
    <3>2. CASE client[d].link # NoLink
      <4>1. client[d].link \in 1 .. MaxLinks
        BY <3>2, PaneControlAssumption DEF TypeOK, ClientType, NoLink
      <4>2. <<d, client[d].link>> \in Connections BY <4>1, ConnectionsOfClients
      <4>3. conn[<<d, client[d].link>>] # "none" BY <3>2 DEF LinksAreMade
      <4> QED BY <3>2, <4>2, <4>3 DEF SameBook
    <3> QED BY <3>1, <3>2
  <2> QED BY <2>1 DEF LinksAreMade
<1>3. ClaimsAreCurrent'
  <2> SUFFICES ASSUME NEW c \in Connections, Open(c)'
               PROVE  /\ \A i \in 1 .. Len(queue'[c]) :
                            queue'[c][i].kind \in Claims =>
                               Current(Owner(c), queue[c][i].gen)'
                      /\ client'[Owner(c)].link = c[2] /\ client'[Owner(c)].permit # NoPermit
                            => Current(Owner(c), client[Owner(c)].permit.gen)'
    BY DEF ClaimsAreCurrent
  <2>0. Open(c) /\ Owner(c) \in Devices /\ SameBook(Owner(c)) BY ConnectionsOfClients
  <2>2. ASSUME NEW i \in 1 .. Len(queue'[c]), queue'[c][i].kind \in Claims
        PROVE  Current(Owner(c), queue[c][i].gen)'
    <3>1. PICK j \in 1 .. Len(queue[c]) : queue'[c][i] = queue[c][j] OBVIOUS
    <3>2. Current(Owner(c), queue[c][j].gen) BY <2>0, <2>2, <3>1 DEF ClaimsAreCurrent
    <3> QED BY <2>0, <3>1, <3>2 DEF Current, Answers, SameBook
  <2>3. ASSUME client'[Owner(c)].link = c[2], client'[Owner(c)].permit # NoPermit
        PROVE  Current(Owner(c), client[Owner(c)].permit.gen)'
    <3>1. Current(Owner(c), client[Owner(c)].permit.gen)
      BY <2>0, <2>3 DEF ClaimsAreCurrent, SameBook
    <3> QED BY <2>0, <3>1 DEF Current, Answers, SameBook
  <2> QED BY <2>2, <2>3
<1> QED BY <1>1, <1>2, <1>3

(* The inductive invariant, with its two goals said of every client.         *)
HeldInv ==
    /\ Accounted /\ GenerationsInOrder /\ ClaimsAreCurrent /\ LinksAreMade
    /\ LeasesAreOfTheirChannel /\ RevokedBare /\ RevokedAreClosed

(* A step that gives no grant, changes no book and opens no connection.      *)
LEMMA CalmStep ==
    ASSUME TypeOK, HeldInv, Quiet, creator' \in {creator, NoDevice},
           \A d \in Devices : SameBook(d),
           \A c \in Connections :
              /\ Open(c)' => Open(c) /\ gens'[Owner(c)].released = gens[Owner(c)].released
              /\ conn'[c] = "none" <=> conn[c] = "none"
              /\ conn[c] = "none" => queue'[c] = <<>>
              /\ \A i \in 1 .. Len(queue'[c]) :
                    \E j \in 1 .. Len(queue[c]) : queue'[c][i] = queue[c][j],
           \A d \in Devices :
              /\ revoked'[d] = "done" =>
                    \/ revoked[d] = "done"
                    \/ creator' # d /\ \A g \in 0 .. MaxGeneration : ~Holds(host', d, g)
              /\ revoked'[d] # "no" =>
                    \/ revoked[d] # "no"
                    \/ \A c \in Connections : Owner(c) = d => ~Open(c)'
    PROVE  HeldInv'
<1>1. GenerationsInOrder' /\ ClaimsAreCurrent' /\ LinksAreMade' BY BooksKept DEF HeldInv
<1>2. Accounted' BY QuietGrants DEF HeldInv, Answers, SameBook
<1>3. RevokedBare' BY QuietRevocation DEF HeldInv
<1>4. LeasesAreOfTheirChannel' BY QuietLeases DEF HeldInv
<1>5. RevokedAreClosed' BY ConnectionsOfClients DEF HeldInv, RevokedAreClosed
<1> QED BY <1>1, <1>2, <1>3, <1>4, <1>5 DEF HeldInv

(* Dispatching a message queues nothing.                                     *)
LEMMA DispatchQueues ==
    ASSUME TypeOK, LinksAreMade, NEW c \in Connections, NEW m \in Received(c), Dispatches(c),
           UNCHANGED conn
    PROVE  /\ Open(c) /\ queue[c][1] = m /\ 1 \in 1 .. Len(queue[c])
           /\ m \in MessageType
           /\ \A e \in Connections :
                 /\ conn[e] = "none" => queue'[e] = <<>>
                 /\ \A i \in 1 .. Len(queue'[e]) :
                       \E j \in 1 .. Len(queue[e]) : queue'[e][i] = queue[e][j]
<1>1. Open(c) /\ queue' = [queue EXCEPT ![c] = Tail(@)] BY DEF Dispatches
<1>2. /\ m \in MessageType /\ queue[c] # <<>> /\ m = queue[c][1]
      /\ \A i \in 1 .. Len(queue'[c]) : i + 1 \in 1 .. Len(queue[c])
                                        /\ queue'[c][i] = queue[c][i + 1]
      /\ \A e \in Connections : e # c => queue'[e] = queue[e]
  BY <1>1, DispatchType
<1>3. queue[c] \in Seq(MessageType) BY DEF TypeOK
<1>4. 1 \in 1 .. Len(queue[c]) BY <1>2, <1>3
<1>5. ASSUME NEW e \in Connections
      PROVE  /\ conn[e] = "none" => queue'[e] = <<>>
             /\ \A i \in 1 .. Len(queue'[e]) :
                   \E j \in 1 .. Len(queue[e]) : queue'[e][i] = queue[e][j]
  <2>1. CASE e = c
    <3>1. conn[c] # "none" BY <1>1 DEF Open
    <3> QED BY <2>1, <3>1, <1>2
  <2>2. CASE e # c BY <2>2, <1>2 DEF LinksAreMade
  <2> QED BY <2>1, <2>2
<1> QED BY <1>1, <1>2, <1>4, <1>5

(* A claim grants only what its client answers for.                          *)
LEMMA ClaimHeld ==
    ASSUME TypeOK, HeldInv, NEW c \in Connections, Claim(c)
    PROVE  HeldInv'
<1> DEFINE d == Owner(c)
           h == IF bound[c] = NoLease THEN host ELSE unbound(host, c)
<1>1. PICK m \in Received(c) :
      /\ Dispatches(c) /\ m.kind \in Claims
      /\ LET stale == ~listed \/ Fenced(d, m.gen)
         IN  \E r \in IF stale THEN Refuse(h) ELSE ClaimPane(h, c, m) :
               /\ host' = r.host
               /\ bound' = [bound EXCEPT ![c] = r.lease]
               /\ gens' = IF stale THEN gens ELSE [gens EXCEPT ![d].claimed = m.gen]
               /\ client' = IF Hears(c) /\ r.offer # NoTarget
                            THEN [client EXCEPT ![d].offer = r.offer] ELSE client
      /\ UNCHANGED <<boot, listed, creator, ends, revoked, conn>>
  BY DEF Claim
<1> DEFINE stale == ~listed \/ Fenced(d, m.gen)
<1>2. PICK r \in IF stale THEN Refuse(h) ELSE ClaimPane(h, c, m) :
               /\ host' = r.host
               /\ bound' = [bound EXCEPT ![c] = r.lease]
               /\ gens' = IF stale THEN gens ELSE [gens EXCEPT ![d].claimed = m.gen]
               /\ client' = IF Hears(c) /\ r.offer # NoTarget
                            THEN [client EXCEPT ![d].offer = r.offer] ELSE client
  BY <1>1
<1>3. /\ Open(c) /\ queue[c][1] = m /\ 1 \in 1 .. Len(queue[c]) /\ m \in MessageType
      /\ \A e \in Connections :
            /\ conn[e] = "none" => queue'[e] = <<>>
            /\ \A i \in 1 .. Len(queue'[e]) :
                  \E j \in 1 .. Len(queue[e]) : queue'[e][i] = queue[e][j]
  BY <1>1, DispatchQueues DEF HeldInv
<1>4. d \in Devices /\ m.gen \in 0 .. MaxGeneration
  BY <1>3, ConnectionsOfClients DEF MessageType
<1>5. h \in HostType /\ GrantsNothing(host, h)
  <2>1. GrantsNothing(host, host) BY DEF GrantsNothing
  <2> QED BY <2>1, UnlinkedKeeps DEF TypeOK
<1>6. \A e \in Devices : SameBook(e)
  BY <1>2, <1>4 DEF SameBook, TypeOK, ClientType
<1>7. \A e \in Connections : gens'[Owner(e)].released = gens[Owner(e)].released
  BY <1>2, <1>4, ConnectionsOfClients DEF TypeOK
<1>8. GenerationsInOrder' /\ ClaimsAreCurrent' /\ LinksAreMade'
  <2>1. UNCHANGED conn BY <1>1
  <2> QED BY <2>1, <1>3, <1>6, <1>7, BooksKept DEF HeldInv, Open
<1>9. RevokedAreClosed' BY <1>1 DEF HeldInv, RevokedAreClosed, Open
<1> HIDE DEF h
<1>10. /\ r.lease # NoLease => r.lease.link = c
       /\ \A e \in Devices, g \in 0 .. MaxGeneration :
             Holds(host', e, g) => Holds(host, e, g) \/ (e = d /\ g = m.gen /\ ~stale)
  <2>1. CASE stale
    <3>1. r = [host |-> h, lease |-> NoLease, offer |-> NoTarget]
      BY <2>1, <1>2 DEF Refuse
    <3>2. host' = h /\ r.lease = NoLease BY <3>1, <1>2
    <3> QED BY <3>2, <1>5 DEF GrantsNothing
  <2>2. CASE ~stale
    <3>1. Answered(h, c, m.gen, r)
      BY <2>2, <1>1, <1>2, <1>3, <1>5, ClaimsAreAnswered DEF TypeOK
    <3>2. \A e \in Devices, g \in 0 .. MaxGeneration :
             Holds(host', e, g) => Holds(h, e, g) \/ (e = d /\ g = m.gen)
      BY <3>1, <1>2 DEF Answered
    <3> QED BY <3>1, <3>2, <2>2, <1>5 DEF Answered, GrantsNothing
  <2> QED BY <2>1, <2>2
<1>11. ~stale => Answers(d, m.gen)
  <2>1. Current(d, m.gen) BY <1>1, <1>3 DEF HeldInv, ClaimsAreCurrent
  <2> QED BY <2>1 DEF Fenced, Current
<1>12. Accounted'
  <2>1. \A e \in Devices : \A g : Answers(e, g) => Answers(e, g)'
    BY <1>6 DEF Answers, SameBook
  <2>2. listed' = listed BY <1>1
  <2> HIDE DEF stale
  <2> QED BY <2>1, <2>2, <1>10, <1>11 DEF HeldInv, Accounted
<1>13. RevokedBare'
  <2>1. revoked[d] = "no" BY <1>3 DEF HeldInv, RevokedAreClosed
  <2>2. UNCHANGED <<revoked, creator>> BY <1>1
  <2> HIDE DEF stale
  <2> QED BY <2>1, <2>2, <1>10 DEF HeldInv, RevokedBare
<1>14. LeasesAreOfTheirChannel'
  BY <1>2, <1>10 DEF HeldInv, LeasesAreOfTheirChannel, TypeOK
<1> QED BY <1>8, <1>9, <1>12, <1>13, <1>14 DEF HeldInv

(* A release: what its client no longer owes holds no grant, and the claims  *)
(* it still has under way are fenced.                                        *)
LEMMA ReleaseHeld ==
    ASSUME TypeOK, TypeOK', HeldInv, Quiet, NEW c \in Connections, Release(c)
    PROVE  HeldInv'
<1> DEFINE d == Owner(c)
<1>1. PICK m \in Received(c) :
      /\ Dispatches(c)
      /\ host' = ReleaseAttachment(host, d, m.gen)
      /\ gens' = [gens EXCEPT ![d].released = IF @ < m.gen THEN m.gen ELSE @]
      /\ client' = IF Hears(c) THEN [client EXCEPT ![d] = released(@, m.gen)] ELSE client
      /\ UNCHANGED <<listed, creator, revoked, conn, bound>>
  BY DEF Release
<1>2. /\ m \in MessageType
      /\ \A e \in Connections :
            /\ conn[e] = "none" => queue'[e] = <<>>
            /\ \A i \in 1 .. Len(queue'[e]) :
                  \E j \in 1 .. Len(queue[e]) : queue'[e][i] = queue[e][j]
  BY <1>1, DispatchQueues DEF HeldInv
<1>3. d \in Devices /\ m.gen \in 0 .. MaxGeneration
  BY <1>2, ConnectionsOfClients DEF MessageType
<1>4. \A e \in Devices :
         /\ client[e] \in ClientType /\ client'[e] \in ClientType
         /\ gens[e].released \in 0 .. MaxGeneration
         /\ gens'[e].released \in 0 .. MaxGeneration
  BY DEF TypeOK
<1>5. \A e \in Devices :
         /\ gens'[e].released >= gens[e].released
         /\ e = d => gens'[e].released >= m.gen
  BY <1>1, <1>3, <1>4 DEF TypeOK
<1>6. \A e \in Devices :
         /\ client'[e].attached = client[e].attached /\ client'[e].next = client[e].next
         /\ client'[e].link = client[e].link
         /\ client'[e].permit.gen = client[e].permit.gen
         /\ client[e].permit = NoPermit => client'[e].permit = NoPermit
         /\ \/ client'[e].pending = client[e].pending
            \/ e = d /\ client[e].pending = m.gen /\ client'[e].pending = 0
  <2> SUFFICES ASSUME NEW e \in Devices
               PROVE  /\ client'[e].attached = client[e].attached
                      /\ client'[e].next = client[e].next
                      /\ client'[e].link = client[e].link
                      /\ client'[e].permit.gen = client[e].permit.gen
                      /\ client[e].permit = NoPermit => client'[e].permit = NoPermit
                      /\ \/ client'[e].pending = client[e].pending
                         \/ e = d /\ client[e].pending = m.gen /\ client'[e].pending = 0
    OBVIOUS
  <2>1. CASE client'[e] = client[e] BY <2>1
  <2>2. CASE e = d /\ client'[e] = released(client[e], m.gen)
    <3> DEFINE k == client[e]
    <3>1. k \in ClientType /\ k.permit \in PermitType BY <1>4 DEF ClientType
    <3>2. client'[e] = [k EXCEPT !.pending = IF @ = m.gen THEN 0 ELSE @,
                                 !.permit.waits = IF @ = m.gen THEN 0 ELSE @]
      BY <2>2 DEF released
    <3> HIDE DEF k
    <3>3. /\ client'[e].attached = k.attached /\ client'[e].next = k.next
          /\ client'[e].link = k.link
          /\ client'[e].pending = IF k.pending = m.gen THEN 0 ELSE k.pending
          /\ client'[e].permit = [k.permit EXCEPT !.waits = IF @ = m.gen THEN 0 ELSE @]
      BY <3>1, <3>2 DEF ClientType
    <3>4. client'[e].permit.gen = k.permit.gen
      BY <3>1, <3>3 DEF PermitType, NoPermit
    <3>5. k.permit = NoPermit => client'[e].permit = NoPermit
      BY <3>3 DEF NoPermit
    <3> QED BY <2>2, <3>3, <3>4, <3>5 DEF k
  <2>3. \/ client'[e] = client[e]
        \/ e = d /\ client'[e] = released(client[e], m.gen)
    BY <1>1, <1>3 DEF TypeOK
  <2> QED BY <2>1, <2>2, <2>3
<1>7. GenerationsInOrder'
  <2>1. \A e \in Devices : client'[e].pending <= client[e].pending
    BY <1>4, <1>6 DEF ClientType
  <2> QED BY <2>1, <1>4, <1>6 DEF HeldInv, GenerationsInOrder, ClientType
<1>9. LinksAreMade'
  BY <1>1, <1>2, <1>6 DEF HeldInv, LinksAreMade
<1>10. ClaimsAreCurrent'
  <2> SUFFICES ASSUME NEW e \in Connections, Open(e)'
               PROVE  /\ \A i \in 1 .. Len(queue'[e]) :
                            queue'[e][i].kind \in Claims =>
                               Current(Owner(e), queue[e][i].gen)'
                      /\ client'[Owner(e)].link = e[2] /\ client'[Owner(e)].permit # NoPermit
                            => Current(Owner(e), client[Owner(e)].permit.gen)'
    BY DEF ClaimsAreCurrent
  <2>0. Open(e) /\ Owner(e) \in Devices BY <1>1, ConnectionsOfClients DEF Open
  <2>1. ASSUME NEW i \in 1 .. Len(queue'[e]), queue'[e][i].kind \in Claims
        PROVE  Current(Owner(e), queue[e][i].gen)'
    <3>1. PICK j \in 1 .. Len(queue[e]) : queue'[e][i] = queue[e][j] BY <1>2
    <3>2. Current(Owner(e), queue[e][j].gen)
      BY <2>0, <2>1, <3>1 DEF HeldInv, ClaimsAreCurrent
    <3>3. queue[e][j] \in MessageType BY DEF TypeOK
    <3>4. queue[e][j].gen \in 0 .. MaxGeneration BY <3>3 DEF MessageType
    <3> DEFINE g == queue[e][j].gen
    <3>5. queue'[e][i].gen = g BY <3>1
    <3>6. \/ g = client'[Owner(e)].attached \/ g <= client'[Owner(e)].pending
          \/ g <= gens'[Owner(e)].released
      <4>1. g \in 0 .. MaxGeneration /\ Current(Owner(e), g) BY <3>2, <3>4
      <4> HIDE DEF g
      <4> QED BY <4>1, <2>0, <1>4, <1>5, <1>6 DEF Current, Answers, ClientType
    <3> QED BY <3>5, <3>6 DEF Current, Answers
  <2>2. ASSUME client'[Owner(e)].link = e[2], client'[Owner(e)].permit # NoPermit
        PROVE  Current(Owner(e), client[Owner(e)].permit.gen)'
    <3> DEFINE k == client[Owner(e)].permit
    <3>1. client[Owner(e)].link = e[2] /\ k # NoPermit BY <2>0, <2>2, <1>6
    <3>2. Current(Owner(e), k.gen) BY <2>0, <3>1 DEF HeldInv, ClaimsAreCurrent
    <3>3. k.gen \in 0 .. MaxGeneration
      BY <2>0, <1>4, <3>1 DEF ClientType, PermitType
    <3>4. client'[Owner(e)].permit.gen = k.gen BY <2>0, <1>6
    <3>5. \/ k.gen = client'[Owner(e)].attached \/ k.gen <= client'[Owner(e)].pending
          \/ k.gen <= gens'[Owner(e)].released
      <4> HIDE DEF k
      <4> QED BY <3>2, <3>3, <2>0, <1>4, <1>5, <1>6 DEF Current, Answers, ClientType
    <3> QED BY <3>4, <3>5 DEF Current, Answers
  <2> QED BY <2>1, <2>2
<1>11. Accounted'
  <2>1. listed => \A g \in 1 .. m.gen : ~Holds(host', d, g)
    BY <1>1, <1>3, ReleaseAttachmentKeeps DEF TypeOK
  <2>2. ASSUME NEW e \in Devices, NEW g \in 0 .. MaxGeneration,
               listed, Holds(host', e, g), Answers(e, g)
        PROVE  Answers(e, g)'
    <3>1. CASE client'[e].pending = client[e].pending
      BY <3>1, <2>2, <1>6 DEF Answers
    <3>2. CASE e = d /\ client[e].pending = m.gen /\ client'[e].pending = 0
      <4>1. g \notin 1 .. m.gen BY <3>2, <2>1, <2>2
      <4>2. g = client[e].attached \/ g = 0 BY <4>1, <3>2, <2>2, <1>3 DEF Answers
      <4> QED BY <4>2, <3>2, <1>6 DEF Answers
    <3> QED BY <3>1, <3>2, <1>6
  <2> QED BY <2>2, QuietGrants DEF HeldInv
<1>12. RevokedBare' BY <1>1, QuietRevocation DEF HeldInv
<1>13. LeasesAreOfTheirChannel' BY QuietLeases DEF HeldInv
<1>14. RevokedAreClosed' BY <1>1 DEF HeldInv, RevokedAreClosed, Open
<1> QED BY <1>7, <1>9, <1>10, <1>11, <1>12, <1>13, <1>14 DEF HeldInv

(* The parts about leases, revocations and the Pane's grants in a step that  *)
(* leaves the server alone.                                                  *)
LEMMA ServerIdle ==
    ASSUME TypeOK, HeldInv, UNCHANGED <<host, listed, bound, creator, revoked>>,
           \A d \in Devices, g \in 0 .. MaxGeneration : Answers(d, g) => Answers(d, g)',
           \A c \in Connections : Open(c)' => Open(c) \/ revoked[Owner(c)] = "no"
    PROVE  Accounted' /\ RevokedBare' /\ LeasesAreOfTheirChannel' /\ RevokedAreClosed'
<1>1. Quiet BY UnchangedQuiet
<1>2. Accounted' BY <1>1, QuietGrants DEF HeldInv
<1>3. RevokedBare' BY <1>1, QuietRevocation DEF HeldInv
<1>4. LeasesAreOfTheirChannel' BY <1>1, QuietLeases DEF HeldInv
<1>5. RevokedAreClosed' BY DEF HeldInv, RevokedAreClosed
<1> QED BY <1>2, <1>3, <1>4, <1>5

(* A new connection has nothing queued and no claim under way.               *)
LEMMA ConnectHeld ==
    ASSUME TypeOK, HeldInv, NEW d \in Devices, Connect(d)
    PROVE  HeldInv'
<1>1. PICK n \in 1 .. MaxLinks :
      /\ client[d].link = NoLink /\ revoked[d] = "no"
      /\ conn[<<d, n>>] = "none"
      /\ conn' = [conn EXCEPT ![<<d, n>>] = "open"]
      /\ client' = [client EXCEPT ![d].link = n]
      /\ UNCHANGED <<serverVars, bound, want, bell, notifying, queue, paced>>
  BY DEF Connect
<1> DEFINE c == <<d, n>>
<1>2. c \in Connections /\ Owner(c) = d /\ c[2] = n /\ n # NoLink
  BY ConnectionsOfClients DEF NoLink
<1>3. /\ UNCHANGED <<host, listed, bound, creator, revoked, gens, queue>>
      /\ \A e \in Connections : e # c => conn'[e] = conn[e]
      /\ conn'[c] = "open" /\ Open(c)'
  BY <1>1, <1>2 DEF serverVars, TypeOK, Open
<1>4. \A e \in Devices :
         /\ client'[e].attached = client[e].attached /\ client'[e].next = client[e].next
         /\ client'[e].pending = client[e].pending
         /\ client'[e].permit = client[e].permit
         /\ client'[e].link = IF e = d THEN n ELSE client[e].link
  BY <1>1 DEF TypeOK, ClientType
<1>5. queue[c] = <<>> /\ client[d].permit = NoPermit
  BY <1>1, <1>2 DEF HeldInv, LinksAreMade
<1> HIDE DEF c
<1>6. GenerationsInOrder' BY <1>4 DEF HeldInv, GenerationsInOrder
<1>7. LinksAreMade'
  <2>1. \A e \in Devices : IF client'[e].link = NoLink THEN client'[e].permit = NoPermit
                           ELSE conn'[<<e, client'[e].link>>] # "none"
    <3> SUFFICES ASSUME NEW e \in Devices
                 PROVE  IF client'[e].link = NoLink THEN client'[e].permit = NoPermit
                        ELSE conn'[<<e, client'[e].link>>] # "none"
      OBVIOUS
    <3>1. CASE e = d BY <3>1, <1>2, <1>3, <1>4 DEF c
    <3>2. CASE e # d /\ client[e].link = NoLink
      BY <3>2, <1>4 DEF HeldInv, LinksAreMade
    <3>3. CASE e # d /\ client[e].link # NoLink
      <4>0. client[e] \in ClientType BY DEF TypeOK
      <4>1. client[e].link \in 1 .. MaxLinks
        BY <3>3, <4>0, PaneControlAssumption DEF ClientType, NoLink
      <4>2. <<e, client[e].link>> \in Connections /\ <<e, client[e].link>> # c
        BY <3>3, <4>1, ConnectionsOfClients DEF c
      <4> QED BY <3>3, <4>2, <1>3, <1>4 DEF HeldInv, LinksAreMade
    <3> QED BY <3>1, <3>2, <3>3
  <2> QED BY <2>1, <1>3 DEF HeldInv, LinksAreMade
<1>8. ClaimsAreCurrent'
  <2> SUFFICES ASSUME NEW e \in Connections, Open(e)'
               PROVE  /\ \A i \in 1 .. Len(queue'[e]) :
                            queue'[e][i].kind \in Claims =>
                               Current(Owner(e), queue[e][i].gen)'
                      /\ client'[Owner(e)].link = e[2] /\ client'[Owner(e)].permit # NoPermit
                            => Current(Owner(e), client[Owner(e)].permit.gen)'
    BY DEF ClaimsAreCurrent
  <2>0. Owner(e) \in Devices BY ConnectionsOfClients
  <2>1. CASE e = c BY <2>1, <1>2, <1>3, <1>4, <1>5
  <2>2. CASE e # c
    <3>1. Open(e) BY <2>2, <1>3 DEF Open
    <3>2. client'[Owner(e)].link = e[2] => client[Owner(e)].link = e[2]
      <4>1. CASE Owner(e) = d
        <5>1. e[2] # n BY <4>1, <2>2, ConnectionsOfClients DEF c
        <5> QED BY <4>1, <5>1, <1>4
      <4>2. CASE Owner(e) # d BY <4>2, <2>0, <1>4
      <4> QED BY <4>1, <4>2
    <3> QED BY <2>0, <3>1, <3>2, <1>3, <1>4 DEF HeldInv, ClaimsAreCurrent, Current, Answers
  <2> QED BY <2>1, <2>2
<1>9. Accounted' /\ RevokedBare' /\ LeasesAreOfTheirChannel' /\ RevokedAreClosed'
  <2>1. \A e \in Devices, g \in 0 .. MaxGeneration : Answers(e, g) => Answers(e, g)'
    BY <1>4 DEF Answers
  <2>2. \A e \in Connections : Open(e)' => Open(e) \/ revoked[Owner(e)] = "no"
    BY <1>1, <1>2, <1>3 DEF Open
  <2> QED BY <2>1, <2>2, <1>3, ServerIdle
<1> QED BY <1>6, <1>7, <1>8, <1>9 DEF HeldInv

(* A client's own step on its book, which queues nothing.                    *)
LEMMA BookHeld ==
    ASSUME TypeOK, TypeOK', HeldInv, NEW d \in Devices,
           \/ LinkEnds(d) \/ attach(d) \/ detach(d)
           \/ \E kind \in Requests \cap Claims : Permit(d, kind)
    PROVE  HeldInv'
<1>1. UNCHANGED <<host, listed, bound, creator, revoked, gens, queue, conn>>
  BY DEF LinkEnds, attach, detach, Permit, serverVars, servedVars
<1>2. \A e \in Devices : client[e] \in ClientType /\ client'[e] \in ClientType
  BY DEF TypeOK
<1>3. \A e \in Devices : e # d => client'[e] = client[e]
  BY DEF LinkEnds, attach, detach, Permit, TypeOK
<1>4. \/ /\ client'[d].link = NoLink /\ client'[d].permit = NoPermit
         /\ client'[d].attached = client[d].attached /\ client'[d].next = client[d].next
         /\ client'[d].pending = client[d].pending
      \/ /\ client[d].attached = 0 /\ client'[d].attached = client[d].next + 1
         /\ client'[d].next = client[d].next + 1 /\ client'[d].pending = client[d].pending
         /\ client'[d].link = client[d].link /\ client'[d].permit = client[d].permit
      \/ /\ client[d].attached # 0 /\ client'[d].attached = 0
         /\ client'[d].next = client[d].next /\ client'[d].pending = client[d].attached
         /\ client'[d].link = client[d].link /\ client'[d].permit = client[d].permit
      \/ /\ client'[d].attached = client[d].attached /\ client'[d].next = client[d].next
         /\ client'[d].pending = client[d].pending /\ client[d].link # NoLink
         /\ client'[d].link = client[d].link
         /\ client'[d].permit.gen = client[d].attached
  <2>1. CASE LinkEnds(d) BY <2>1, <1>2 DEF LinkEnds, TypeOK, ClientType
  <2>2. CASE attach(d) BY <2>2, <1>2 DEF attach, TypeOK, ClientType
  <2>3. CASE detach(d) BY <2>3, <1>2 DEF detach, TypeOK, ClientType
  <2>4. CASE \E kind \in Requests \cap Claims : Permit(d, kind)
    BY <2>4, <1>2 DEF Permit, TypeOK, ClientType
  <2> QED BY <2>1, <2>2, <2>3, <2>4
<1>5. GenerationsInOrder' BY <1>2, <1>3, <1>4 DEF HeldInv, GenerationsInOrder, ClientType
<1>6. ASSUME NEW e \in Devices, NEW g \in 0 .. MaxGeneration, Answers(e, g)
      PROVE  Answers(e, g)'
  <2>1. CASE e # d BY <2>1, <1>3, <1>6 DEF Answers
  <2>2. CASE e = d
    BY <2>2, <1>2, <1>4, <1>6 DEF Answers, ClientType, HeldInv, GenerationsInOrder
  <2> QED BY <2>1, <2>2
<1>7. LinksAreMade' BY <1>1, <1>3, <1>4 DEF HeldInv, LinksAreMade
<1>8. ClaimsAreCurrent'
  <2> SUFFICES ASSUME NEW e \in Connections, Open(e)'
               PROVE  /\ \A i \in 1 .. Len(queue'[e]) :
                            queue'[e][i].kind \in Claims =>
                               Current(Owner(e), queue[e][i].gen)'
                      /\ client'[Owner(e)].link = e[2] /\ client'[Owner(e)].permit # NoPermit
                            => Current(Owner(e), client[Owner(e)].permit.gen)'
    BY DEF ClaimsAreCurrent
  <2> DEFINE x == Owner(e)
  <2>0. Open(e) /\ x \in Devices BY <1>1, ConnectionsOfClients DEF Open
  <2>1. ASSUME NEW g \in 0 .. MaxGeneration, Current(x, g)
        PROVE  Current(x, g)'
    BY <2>0, <2>1, <1>1, <1>6 DEF Current
  <2>2. ASSUME NEW i \in 1 .. Len(queue'[e]), queue'[e][i].kind \in Claims
        PROVE  Current(x, queue[e][i].gen)'
    <3> DEFINE g == queue[e][i].gen
    <3>1. i \in 1 .. Len(queue[e]) /\ queue'[e][i] = queue[e][i] BY <1>1
    <3>2. queue[e][i] \in MessageType BY <3>1 DEF TypeOK
    <3>3. g \in 0 .. MaxGeneration BY <3>2 DEF MessageType
    <3>4. Current(x, g) BY <3>1, <2>0, <2>2 DEF HeldInv, ClaimsAreCurrent
    <3>5. \/ g = client'[x].attached \/ g <= client'[x].pending
          \/ g <= gens'[x].released
      <4> HIDE DEF g, x
      <4>1. PICK y \in 0 .. MaxGeneration : y = g BY <3>3
      <4>2. Current(x, y) BY <4>1, <3>4
      <4>3. Current(x, y)' BY <4>2, <2>1
      <4> QED BY <4>1, <4>3 DEF Current, Answers
    <3> QED BY <3>1, <3>5 DEF Current, Answers
  <2>3. ASSUME client'[x].link = e[2], client'[x].permit # NoPermit
        PROVE  Current(x, client[x].permit.gen)'
    <3> DEFINE g == client'[x].permit.gen
    <3>0. e[2] # NoLink BY ConnectionsOfClients DEF NoLink
    <3>1. g \in 0 .. MaxGeneration BY <2>0, <2>3, <1>2 DEF ClientType, PermitType
    <3>2. CASE client'[x].permit = client[x].permit /\ client'[x].link = client[x].link
      <4>1. Current(x, client[x].permit.gen)
        BY <3>2, <2>0, <2>3 DEF HeldInv, ClaimsAreCurrent
      <4>2. PICK y \in 0 .. MaxGeneration : y = client[x].permit.gen BY <3>1, <3>2
      <4>3. Current(x, y)' BY <4>1, <4>2, <2>1
      <4> QED BY <3>2, <4>2, <4>3
    <3>3. CASE x = d /\ g = client'[d].attached BY <3>3 DEF Current, Answers
    <3> QED BY <3>0, <3>2, <3>3, <2>0, <2>3, <1>3, <1>4
  <2> QED BY <2>2, <2>3
<1>9. Accounted' /\ RevokedBare' /\ LeasesAreOfTheirChannel' /\ RevokedAreClosed'
  <2>1. \A e \in Connections : Open(e)' => Open(e) BY <1>1 DEF Open
  <2> QED BY <2>1, <1>1, <1>6, ServerIdle
<1> QED BY <1>5, <1>7, <1>8, <1>9 DEF HeldInv

(* A client sends a message: a claim it may send is current, and the rest    *)
(* claims nothing.                                                           *)
LEMMA SendHeld ==
    ASSUME TypeOK, HeldInv, NEW d \in Devices, NEW m \in MessageType, Sends(d, m),
           UNCHANGED <<host, listed, bound, creator, revoked, gens, conn>>,
           m.kind \in Claims => /\ client[d].permit # NoPermit
                                /\ m.gen = client[d].permit.gen,
           \A e \in Devices :
              /\ client'[e].attached = client[e].attached /\ client'[e].next = client[e].next
              /\ client'[e].pending = client[e].pending /\ client'[e].link = client[e].link
              /\ client'[e].permit \in {client[e].permit, NoPermit}
    PROVE  HeldInv'
<1> DEFINE c == <<d, client[d].link>>
<1>1. /\ c \in Connections /\ Owner(c) = d /\ c[2] = client[d].link
      /\ client[d].link # NoLink
      /\ \A i \in 1 .. Len(queue'[c]) :
            (i \in 1 .. Len(queue[c]) /\ queue'[c][i] = queue[c][i]) \/ queue'[c][i] = m
      /\ \A e \in Connections : e # c => queue'[e] = queue[e]
  BY SendType
<1>2. conn[c] # "none" BY <1>1 DEF HeldInv, LinksAreMade
<1> HIDE DEF c
<1>3. GenerationsInOrder' BY DEF HeldInv, GenerationsInOrder
<1>4. LinksAreMade' BY <1>1, <1>2 DEF HeldInv, LinksAreMade
<1>5. ClaimsAreCurrent'
  <2> SUFFICES ASSUME NEW e \in Connections, Open(e)'
               PROVE  /\ \A i \in 1 .. Len(queue'[e]) :
                            queue'[e][i].kind \in Claims =>
                               Current(Owner(e), queue[e][i].gen)'
                      /\ client'[Owner(e)].link = e[2] /\ client'[Owner(e)].permit # NoPermit
                            => Current(Owner(e), client[Owner(e)].permit.gen)'
    BY DEF ClaimsAreCurrent
  <2> DEFINE x == Owner(e)
  <2>0. Open(e) /\ x \in Devices BY ConnectionsOfClients DEF Open
  <2>1. ASSUME NEW g, Current(x, g) PROVE Current(x, g)'
    BY <2>0, <2>1 DEF Current, Answers
  <2>2. ASSUME NEW i \in 1 .. Len(queue'[e]), queue'[e][i].kind \in Claims
        PROVE  Current(x, queue[e][i].gen)'
    <3>1. PICK g : g = queue'[e][i].gen OBVIOUS
    <3>2. CASE i \in 1 .. Len(queue[e]) /\ queue'[e][i] = queue[e][i]
      <4>1. Current(x, g) BY <3>1, <3>2, <2>0, <2>2 DEF HeldInv, ClaimsAreCurrent
      <4> QED BY <4>1, <3>1, <2>1
    <3>3. CASE e = c /\ queue'[e][i] = m
      <4>1. client[x].permit # NoPermit /\ g = client[x].permit.gen /\ client[x].link = e[2]
        BY <3>1, <3>3, <2>2, <1>1
      <4>2. Current(x, g) BY <4>1, <2>0 DEF HeldInv, ClaimsAreCurrent
      <4> QED BY <4>2, <3>1, <2>1
    <3> QED BY <3>2, <3>3, <1>1
  <2>3. ASSUME client'[x].link = e[2], client'[x].permit # NoPermit
        PROVE  Current(x, client[x].permit.gen)'
    <3>1. client'[x].permit = client[x].permit /\ client[x].link = e[2] BY <2>0, <2>3
    <3>2. PICK g : g = client[x].permit.gen OBVIOUS
    <3>3. Current(x, g) BY <3>1, <3>2, <2>0, <2>3 DEF HeldInv, ClaimsAreCurrent
    <3> QED BY <3>1, <3>2, <3>3, <2>1
  <2> QED BY <2>2, <2>3
<1>6. Accounted' /\ RevokedBare' /\ LeasesAreOfTheirChannel' /\ RevokedAreClosed'
  <2>1. \A e \in Connections : Open(e)' => Open(e) BY DEF Open
  <2>2. \A e \in Devices, g \in 0 .. MaxGeneration : Answers(e, g) => Answers(e, g)'
    BY DEF Answers
  <2> QED BY <2>1, <2>2, ServerIdle
<1> QED BY <1>3, <1>4, <1>5, <1>6 DEF HeldInv

(* Every step keeps the invariant.                                           *)
LEMMA HeldInductive ==
    TypeOK /\ TypeOK' /\ HeldInv /\ [Next]_vars => HeldInv'
<1> SUFFICES ASSUME TypeOK, TypeOK', HeldInv, [Next]_vars PROVE HeldInv' OBVIOUS
<1>a. CASE UNCHANGED vars
  <2>1. Quiet BY <1>a, UnchangedQuiet DEF vars
  <2> QED BY <1>a, <2>1, CalmStep DEF vars, SameBook, Open, HeldInv, LinksAreMade
<1>b. CASE \E c \in Connections : Claim(c) BY <1>b, ClaimHeld
<1>c. CASE Next /\ \A c \in Connections : ~Claim(c)
  <2>0. Quiet BY <1>c, QuietSteps
  <2>q. \A c \in Connections : conn[c] = "none" => queue[c] = <<>>
    BY DEF HeldInv, LinksAreMade
  <2>1. ASSUME NEW c \in Connections, Release(c) PROVE HeldInv'
    BY <2>0, <2>1, ReleaseHeld
  <2>2. ASSUME NEW c \in Connections, OnChannel(c) PROVE HeldInv'
    <3>1. PICK m \in Received(c) :
            Dispatches(c) /\ UNCHANGED <<creator, gens, revoked, conn, client>>
      BY <2>2 DEF OnChannel
    <3>2. \A e \in Connections :
             /\ conn[e] = "none" => queue'[e] = <<>>
             /\ \A i \in 1 .. Len(queue'[e]) :
                   \E j \in 1 .. Len(queue[e]) : queue'[e][i] = queue[e][j]
      BY <3>1, DispatchQueues DEF HeldInv
    <3> QED BY <3>1, <3>2, <2>0, CalmStep DEF SameBook, Open
  <2>3. ASSUME NEW c \in Connections, publish(c) PROVE HeldInv'
    <3>1. UNCHANGED <<creator, gens, revoked, conn, queue>> BY <2>3 DEF publish
    <3>2. \A d \in Devices : SameBook(d)
      <4>1. \/ client' = client
            \/ client' = [client EXCEPT ![Owner(c)].offer = OfferOf(observe(host, c))]
        BY <2>3 DEF publish
      <4>2. CASE client' = client BY <4>2 DEF SameBook
      <4>3. CASE client' = [client EXCEPT ![Owner(c)].offer = OfferOf(observe(host, c))]
        <5>1. PICK t : client' = [client EXCEPT ![Owner(c)].offer = t] BY <4>3
        <5>2. SUFFICES ASSUME NEW d \in Devices PROVE SameBook(d) OBVIOUS
        <5>3. client \in [Devices -> ClientType] /\ client[d] \in ClientType BY DEF TypeOK
        <5>4. CASE d = Owner(c)
          <6>1. client'[d] = [client[d] EXCEPT !.offer = t] BY <5>1, <5>3, <5>4
          <6> QED BY <6>1, <5>3 DEF SameBook, ClientType
        <5>5. CASE d # Owner(c) BY <5>1, <5>3, <5>5 DEF SameBook
        <5> QED BY <5>4, <5>5
      <4> QED BY <4>1, <4>2, <4>3
    <3> QED BY <3>1, <3>2, <2>0, <2>q, CalmStep DEF Open
  <2>4. ASSUME NEW c \in Connections, disconnected(c) PROVE HeldInv'
    <3>1. /\ UNCHANGED <<creator, gens, revoked, client>> /\ Registered(c)
          /\ conn' = [conn EXCEPT ![c] = "gone"] /\ queue' = [queue EXCEPT ![c] = <<>>]
      BY <2>4 DEF disconnected
    <3>2. conn'[c] = "gone" /\ queue'[c] = <<>> /\ Len(queue'[c]) = 0 /\ conn[c] # "none"
          /\ \A e \in Connections : e # c => conn'[e] = conn[e] /\ queue'[e] = queue[e]
      BY <3>1 DEF TypeOK, Registered
    <3>3. \A e \in Connections :
             /\ Open(e)' => Open(e)
             /\ conn'[e] = "none" <=> conn[e] = "none"
             /\ conn[e] = "none" => queue'[e] = <<>>
             /\ \A i \in 1 .. Len(queue'[e]) :
                   \E j \in 1 .. Len(queue[e]) : queue'[e][i] = queue[e][j]
      BY <3>2, <2>q DEF Open
    <3>4. \A d \in Devices : SameBook(d) BY <3>1 DEF SameBook
    <3> QED BY <3>1, <3>3, <3>4, <2>0, CalmStep
  <2>5. ASSUME NEW c \in Connections, Goodbye(c) PROVE HeldInv'
    <3>1. /\ UNCHANGED <<creator, gens, revoked, client, queue>> /\ Open(c)
          /\ conn' = [conn EXCEPT ![c] = "closing"]
      BY <2>5 DEF Goodbye, serverVars
    <3>2. \A e \in Connections : /\ Open(e)' => Open(e)
                                 /\ conn'[e] = "none" <=> conn[e] = "none"
      BY <3>1 DEF TypeOK, Open
    <3>4. \A d \in Devices : SameBook(d) BY <3>1 DEF SameBook
    <3> QED BY <3>1, <3>2, <3>4, <2>0, <2>q, CalmStep
  <2>6. ASSUME (\E how \in Exits : Exit(how)) \/ notify \/ DeletePane \/ EndAllSessions
        PROVE  HeldInv'
    <3>1. UNCHANGED <<creator, gens, revoked, client, queue, conn>>
      BY <2>6 DEF Exit, notify, DeletePane, EndAllSessions, serverVars, servedVars
    <3>2. \A d \in Devices : SameBook(d) BY <3>1 DEF SameBook
    <3> QED BY <3>1, <3>2, <2>0, <2>q, CalmStep DEF Open
  <2>7. ASSUME NEW defers \in BOOLEAN, tick(defers) PROVE HeldInv'
    <3>1. UNCHANGED <<creator, gens, revoked, queue, conn>> BY <2>7 DEF tick
    <3>2. \A d \in Devices : SameBook(d)
      <4>1. \A d \in Devices : client'[d] = [client[d] EXCEPT !.offer = client'[d].offer]
        BY <2>7, TickQuiet
      <4> QED BY <4>1 DEF SameBook, TypeOK, ClientType
    <3> QED BY <3>1, <3>2, <2>0, <2>q, CalmStep DEF Open
  <2>8. ASSUME NEW d \in Devices, Connect(d) PROVE HeldInv' BY <2>8, ConnectHeld
  <2>9. ASSUME NEW d \in Devices,
               \/ LinkEnds(d) \/ attach(d) \/ detach(d)
               \/ \E kind \in Requests \cap Claims : Permit(d, kind)
        PROVE  HeldInv'
    BY <2>9, BookHeld
  <2>n. NoTarget \in TargetType /\ 0 \in 0 .. MaxGeneration
    BY PaneControlAssumption DEF NoTarget, TargetType
  <2>10. ASSUME NEW d \in Devices, SendClaim(d) PROVE HeldInv'
    <3> DEFINE k == client[d].permit
               m == [kind |-> k.kind, gen |-> k.gen,
                     target |-> IF k.kind \in Informed THEN client[d].offer ELSE NoTarget]
    <3>0. client[d] \in ClientType BY DEF TypeOK
    <3>1. /\ k # NoPermit /\ Sends(d, m)
          /\ client' = [client EXCEPT ![d].permit = NoPermit]
          /\ UNCHANGED <<host, listed, bound, creator, revoked, gens, conn>>
      BY <2>10 DEF SendClaim, serverVars
    <3>2. k.gen \in 0 .. MaxGeneration /\ k.kind \in Claims
      BY <3>0, <3>1 DEF ClientType, PermitType
    <3>3. (IF k.kind \in Informed THEN client[d].offer ELSE NoTarget) \in TargetType
      BY <3>0, <2>n DEF ClientType
    <3>4. m \in MessageType /\ m.gen = k.gen BY <3>2, <3>3 DEF MessageType
    <3>5. \A e \in Devices :
              /\ client'[e].attached = client[e].attached /\ client'[e].next = client[e].next
              /\ client'[e].pending = client[e].pending /\ client'[e].link = client[e].link
              /\ client'[e].permit \in {client[e].permit, NoPermit}
      <4>1. TAKE e \in Devices
      <4>2. client[e] \in ClientType BY DEF TypeOK
      <4>3. \/ client'[e] = client[e]
            \/ client'[e] = [client[e] EXCEPT !.permit = NoPermit]
        BY <3>1 DEF TypeOK
      <4> QED BY <4>2, <4>3 DEF ClientType
    <3> HIDE DEF m
    <3> QED BY <3>1, <3>4, <3>5, SendHeld
  <2>11. ASSUME NEW d \in Devices, release_pending(d) PROVE HeldInv'
    <3> DEFINE m == [kind |-> "release", gen |-> client[d].pending, target |-> NoTarget]
    <3>1. /\ Sends(d, m) /\ UNCHANGED <<host, listed, bound, creator, revoked, gens, conn>>
          /\ UNCHANGED client
      BY <2>11 DEF release_pending, serverVars
    <3>2. m \in MessageType /\ m.kind \notin Claims
      BY <2>n DEF MessageType, TypeOK, ClientType, Claims
    <3> HIDE DEF m
    <3> QED BY <3>1, <3>2, SendHeld
  <2>12. ASSUME NEW d \in Devices, NEW kind \in Requests \ Claims, SendOnChannel(d, kind)
         PROVE  HeldInv'
    <3> DEFINE m == [kind |-> kind, gen |-> 0, target |-> NoTarget]
    <3>1. /\ Sends(d, m) /\ UNCHANGED <<host, listed, bound, creator, revoked, gens, conn>>
          /\ UNCHANGED client
      BY <2>12 DEF SendOnChannel, serverVars
    <3>0. kind \in {"input", "command", "drop", "close"}
      BY <2>12, PaneControlAssumption DEF Claims
    <3>2. m \in MessageType /\ m.kind \notin Claims BY <2>n, <3>0, <2>12 DEF MessageType
    <3> HIDE DEF m
    <3> QED BY <3>1, <3>2, SendHeld
  <2>13. ASSUME NEW d \in Devices, Revoke(d) PROVE HeldInv'
    <3>1. /\ UNCHANGED <<creator, gens, client, queue>> /\ revoked[d] = "no"
          /\ revoked' = [revoked EXCEPT ![d] = "goodbye"]
          /\ conn' = [c \in Connections |->
                        IF Owner(c) = d /\ Open(c) THEN "closing" ELSE conn[c]]
      BY <2>13 DEF Revoke
    <3>2. \A e \in Connections : /\ Open(e)' => Open(e) /\ Owner(e) # d
                                 /\ conn'[e] = "none" <=> conn[e] = "none"
      BY <3>1 DEF TypeOK, Open
    <3>3. \A e \in Devices :
             /\ revoked'[e] = "done" => revoked[e] = "done"
             /\ revoked'[e] # "no" => \/ revoked[e] # "no"
                                     \/ \A c \in Connections : Owner(c) = e => ~Open(c)'
      BY <3>1, <3>2 DEF TypeOK
    <3>4. \A e \in Devices : SameBook(e) BY <3>1 DEF SameBook
    <3> QED BY <3>1, <3>2, <3>3, <3>4, <2>0, <2>q, CalmStep
  <2>14. ASSUME NEW d \in Devices, Revoked(d) PROVE HeldInv'
    <3>1. /\ UNCHANGED <<conn, client, queue>> /\ revoked[d] = "goodbye"
          /\ revoked' = [revoked EXCEPT ![d] = "done"]
          /\ host' = release_control(host, d)
          /\ creator' = IF creator = d THEN NoDevice ELSE creator
          /\ gens' = [gens EXCEPT ![d] = [claimed |-> 0, released |-> 0]]
      BY <2>14 DEF Revoked
    <3>2. creator' \in {creator, NoDevice} /\ creator' # d
      BY <3>1, PaneControlAssumption
    <3>3. \A g \in 0 .. MaxGeneration : ~Holds(host', d, g)
      BY <3>1, ReleaseControlKeeps DEF TypeOK
    <3>4. \A e \in Connections : Open(e)' =>
             Open(e) /\ gens'[Owner(e)].released = gens[Owner(e)].released
      <4>1. \A e \in Connections : Open(e)' => Open(e) /\ Owner(e) # d
        BY <3>1 DEF Open, HeldInv, RevokedAreClosed
      <4> QED BY <4>1, <3>1, ConnectionsOfClients DEF TypeOK
    <3>5. \A e \in Devices : SameBook(e) BY <3>1 DEF SameBook
    <3>6. \A e \in Devices :
             /\ revoked'[e] = "done" =>
                   \/ revoked[e] = "done"
                   \/ creator' # e /\ \A g \in 0 .. MaxGeneration : ~Holds(host', e, g)
             /\ revoked'[e] # "no" => revoked[e] # "no"
      BY <3>1, <3>2, <3>3 DEF TypeOK
    <3> QED BY <3>1, <3>2, <3>4, <3>5, <3>6, <2>0, <2>q, CalmStep
  <2>15. ASSUME NEW d \in Devices, Evict(d) PROVE HeldInv'
    <3>1. UNCHANGED <<creator, gens, revoked, client, queue, conn>> BY <2>15 DEF Evict
    <3>2. \A e \in Devices : SameBook(e) BY <3>1 DEF SameBook
    <3> QED BY <3>1, <3>2, <2>0, <2>q, CalmStep DEF Open
  <2>16. ASSUME Restart PROVE HeldInv'
    <3>1. /\ UNCHANGED <<revoked, client>> /\ creator' = NoDevice
          /\ conn' = [c \in Connections |-> IF Registered(c) THEN "gone" ELSE conn[c]]
          /\ queue' = [c \in Connections |-> <<>>]
      BY <2>16 DEF Restart
    <3>2. \A e \in Connections :
             /\ ~Open(e)' /\ (conn'[e] = "none" <=> conn[e] = "none")
             /\ queue'[e] = <<>> /\ Len(queue'[e]) = 0
      BY <3>1 DEF Registered, Open
    <3>3. \A e \in Devices : SameBook(e) BY <3>1 DEF SameBook
    <3>4. \A e \in Connections : \A i \in 1 .. Len(queue'[e]) :
             \E j \in 1 .. Len(queue[e]) : queue'[e][i] = queue[e][j]
      BY <3>2
    <3> QED BY <3>1, <3>2, <3>3, <3>4, <2>0, CalmStep
  <2> QED
    BY <1>c, <2>1, <2>2, <2>3, <2>4, <2>5, <2>6, <2>7, <2>8, <2>9, <2>10, <2>11, <2>12,
       <2>13, <2>14, <2>15, <2>16
    DEF Next
<1> QED BY <1>a, <1>b, <1>c

(* The invariant holds initially: nobody holds anything.                     *)
LEMMA HeldInitial == Init => HeldInv
<1> SUFFICES ASSUME Init PROVE HeldInv OBVIOUS
<1>1. \A d, g : ~Holds(host, d, g)
  BY DEF Init, Holds, Lives, Sleeps, NoDormant
<1>2. Accounted /\ RevokedBare BY <1>1 DEF Init, Accounted, RevokedBare
<1>3. GenerationsInOrder BY DEF Init, GenerationsInOrder
<1>4. ClaimsAreCurrent /\ RevokedAreClosed /\ LeasesAreOfTheirChannel
  BY DEF Init, ClaimsAreCurrent, RevokedAreClosed, LeasesAreOfTheirChannel, Open
<1>5. LinksAreMade BY DEF Init, LinksAreMade, NoLink
<1> QED BY <1>2, <1>3, <1>4, <1>5 DEF HeldInv

-----------------------------------------------------------------------------
(* What a step may do to a running Session                                   *)

(* A live Pane of r is h's, with its Session and its grant.                  *)
Kept(h, r) ==
    Lives(r) => /\ Lives(h) /\ r.pane.session = h.pane.session
                /\ r.pane.device = h.pane.device /\ r.pane.gen = h.pane.gen

(* Keeping a Pane is transitive.                                             *)
LEMMA KeptTwice ==
    ASSUME NEW h, NEW r, NEW q, Kept(h, r), Kept(r, q)
    PROVE  Kept(h, q)
  BY DEF Kept

(* Taking the events a Session queued keeps its Pane and how it exited.      *)
LEMMA DrainKept ==
    ASSUME NEW h \in HostType
    PROVE  /\ Kept(h, drain(h))
           /\ Lives(h) => drain(h).pane.exit = h.pane.exit
           /\ \A q : Lives(h) /\ q.pane = drain(h).pane => Kept(h, q)
<1>1. CASE ~Lives(h) BY <1>1, DrainKeeps DEF Kept
<1>2. CASE Lives(h)
  <2> DEFINE p == drain(h).pane
             x == p.drained
  <2>1. h.pane \in PaneType BY <1>2 DEF HostType, Lives
  <2>2. p = [h.pane EXCEPT !.drained = x] BY <1>2, DrainKeeps
  <2> HIDE DEF p, x
  <2>3. /\ p.session = h.pane.session /\ p.device = h.pane.device
        /\ p.gen = h.pane.gen /\ p.exit = h.pane.exit
    BY <2>1, <2>2 DEF PaneType
  <2> QED BY <1>2, <2>3 DEF p, Kept
<1> QED BY <1>1, <1>2

(* Reconciling keeps the Pane, or retires a Session that ended.              *)
LEMMA ReconcileKept ==
    ASSUME NEW h \in HostType
    PROVE  LET q == reconcile_selection(h) IN
           /\ q \in HostType /\ Kept(h, q)
           /\ Lives(h) /\ ~Lives(q) => h.pane.exit # "none"
<1> DEFINE k == drain(h)
           r == retire_exited(h)
           q == reconcile_selection(h)
<1>1. q \in HostType /\ (Lives(q) => Lives(h) /\ q.pane = k.pane) BY ReconcileKeeps
<1>2. Kept(h, q) BY <1>1, DrainKept DEF Kept
<1>3. ASSUME Lives(h), h.pane.exit = "none" PROVE Lives(q)
  <2>1. k \in HostType /\ Lives(k) /\ k.pane.exit = "none" BY <1>3, DrainKept, DrainKeeps
  <2>2. r = k BY <2>1 DEF retire_exited
  <2>3. q = k BY <2>1, <2>2 DEF reconcile_selection, Ended
  <2> QED BY <2>1, <2>3
<1> QED BY <1>1, <1>2, <1>3

(* So does the tick's work, an observation and the loss of a connection.     *)
LEMMA WorkKept ==
    ASSUME NEW h \in HostType, listed \in BOOLEAN
    PROVE  /\ \A durable \in BOOLEAN : Kept(h, synchronize(h, durable).host)
           /\ \A c \in Connections : Kept(h, observe(h, c))
           /\ \A c : \A q \in {Unlinked(h, c), unbound(h, c)} :
                 Kept(h, q) /\ (Lives(h) => Lives(q) /\ q.pane.exit = h.pane.exit)
<1>1. \A durable \in BOOLEAN : Kept(h, synchronize(h, durable).host)
  <2> SUFFICES ASSUME NEW durable \in BOOLEAN
               PROVE  Kept(h, synchronize(h, durable).host)
    OBVIOUS
  <2> DEFINE s == synchronize(h, durable)
  <2>1. Lives(s.host) => Lives(h) /\ s.host.pane = drain(h).pane BY SynchronizeKeeps
  <2> HIDE DEF s
  <2>2. Kept(h, s.host) BY <2>1, DrainKept DEF Kept
  <2> QED BY <2>2 DEF s
<1>2. \A c \in Connections : Kept(h, observe(h, c))
  <2> SUFFICES ASSUME NEW c \in Connections PROVE Kept(h, observe(h, c)) OBVIOUS
  <2>1. Lives(observe(h, c)) => Lives(h) /\ observe(h, c).pane \in {h.pane, drain(h).pane}
    BY ObserveKeeps
  <2> QED BY <2>1, DrainKept DEF Kept
<1>3. ASSUME NEW c, NEW q \in {Unlinked(h, c), unbound(h, c)}
      PROVE  Kept(h, q) /\ (Lives(h) => Lives(q) /\ q.pane.exit = h.pane.exit)
  <2> DEFINE x == q.pane.connected
  <2>0. \A y \in {Unlinked(h, c), unbound(h, c)} :
          /\ y \in HostType /\ GrantsNothing(h, y)
          /\ (Lives(y) <=> Lives(h)) /\ y.dormant = h.dormant
          /\ Lives(h) => y.pane = [h.pane EXCEPT !.connected = y.pane.connected]
    BY UnlinkedKeeps
  <2>1. /\ Lives(q) <=> Lives(h)
        /\ Lives(h) => q.pane = [h.pane EXCEPT !.connected = x]
    BY <2>0
  <2>2. Lives(h) => h.pane \in PaneType BY DEF HostType, Lives
  <2> HIDE DEF x
  <2> QED BY <2>1, <2>2 DEF Kept, PaneType
<1> QED BY <1>1, <1>2, <1>3

(* Releasing control keeps every Session, and every other client's grant.    *)
LEMMA ReleaseKept ==
    ASSUME NEW h \in HostType, NEW d \in Devices
    PROVE  LET q == release_control(h, d) IN
           Lives(q) => /\ Lives(h) /\ q.pane.session = h.pane.session
                       /\ Kept(h, q) \/ h.pane.device = d
<1> DEFINE s == IF Sleeps(h) /\ h.dormant.device = d
                THEN [h EXCEPT !.dormant.device = NoDevice, !.dormant.gen = 0] ELSE h
           q == release_control(h, d)
<1>1. s.pane = h.pane /\ (s = h \/ s.pane = h.pane) BY DEF HostType
<1>2. q = IF Lives(s) /\ s.pane.device = d
          THEN [s EXCEPT !.pane = [Unclaimed(@, 0) EXCEPT !.gen = 0]] ELSE s
  BY DEF release_control
<1>3. s \in [pane : PaneType \cup {NoPane},
             dormant : {s.dormant}, identity : {s.identity}]
  BY DEF HostType
<1> HIDE DEF s, q
<1>4. CASE Lives(s) /\ s.pane.device = d
  <2> DEFINE u == [Unclaimed(s.pane, 0) EXCEPT !.gen = 0]
  <2>1. s.pane \in PaneType BY <1>4, <1>1 DEF HostType, Lives
  <2>2. u.session = s.pane.session BY <2>1 DEF PaneType, Unclaimed
  <2>3. q = [s EXCEPT !.pane = u] BY <1>4, <1>2
  <2> HIDE DEF u
  <2>4. q.pane = u BY <2>3, <1>3
  <2> QED BY <2>2, <2>4, <1>1, <1>4 DEF Lives, q
<1>5. CASE ~(Lives(s) /\ s.pane.device = d)
  BY <1>1, <1>2, <1>5 DEF Kept, Lives, q
<1> QED BY <1>4, <1>5

(* A release of attachments up to gen keeps every Session, and every grant   *)
(* of another client or of a newer attachment.                               *)
LEMMA ReleaseAttachmentKept ==
    ASSUME NEW h \in HostType, NEW d \in Devices, NEW gen \in 0 .. MaxGeneration
    PROVE  LET q == ReleaseAttachment(h, d, gen) IN
           Lives(q) => /\ Lives(h) /\ q.pane.session = h.pane.session
                       /\ Kept(h, q) \/ (h.pane.device = d /\ h.pane.gen \in 1 .. gen)
<1> DEFINE s == IF Sleeps(h) /\ h.dormant.device = d /\ h.dormant.gen \in 1 .. gen
                THEN [h EXCEPT !.dormant.device = NoDevice, !.dormant.gen = 0] ELSE h
           q == ReleaseAttachment(h, d, gen)
<1>1. s.pane = h.pane BY DEF HostType
<1>2. q = IF ~listed THEN h
          ELSE IF Lives(s) /\ s.pane.device = d /\ s.pane.gen \in 1 .. gen
          THEN [s EXCEPT !.pane = [Unclaimed(@, ControlNonce) EXCEPT !.gen = 0]] ELSE s
  BY DEF ReleaseAttachment
<1>3. s \in [pane : PaneType \cup {NoPane},
             dormant : {s.dormant}, identity : {s.identity}]
  BY DEF HostType
<1> HIDE DEF s, q
<1>4. CASE listed /\ Lives(s) /\ s.pane.device = d /\ s.pane.gen \in 1 .. gen
  <2> DEFINE u == [Unclaimed(s.pane, ControlNonce) EXCEPT !.gen = 0]
  <2>1. s.pane \in PaneType BY <1>4, <1>1 DEF HostType, Lives
  <2>2. u.session = s.pane.session BY <2>1 DEF PaneType, Unclaimed
  <2>3. q = [s EXCEPT !.pane = u] BY <1>4, <1>2
  <2> HIDE DEF u
  <2>4. q.pane = u BY <2>3, <1>3
  <2> QED BY <2>2, <2>4, <1>1, <1>4 DEF Lives, q
<1>5. CASE ~(listed /\ Lives(s) /\ s.pane.device = d /\ s.pane.gen \in 1 .. gen)
  BY <1>1, <1>2, <1>5 DEF Kept, Lives, q
<1> QED BY <1>4, <1>5
(* What a claim's judgement may do: leave the Pane as it was, give the       *)
(* running Session to the claimant, or start a Session where none ran.       *)
Stays(h, r) == r.lease = NoLease /\ Kept(h, r.host)
Takes(h, c, r) ==
    /\ Lives(h) /\ Lives(r.host) /\ r.lease # NoLease
    /\ r.host.pane.session = h.pane.session /\ r.host.pane.device = Owner(c)
Starts(h, r) ==
    /\ Lives(h) => h.pane.exit # "none"
    /\ r.host.pane.session = SessionNonce

(* A refusal or an offer leaves the Pane as it was.                          *)
LEMMA RefusalStays ==
    ASSUME NEW h, NEW q, Kept(h, q)
    PROVE  /\ \A r \in Refuse(q) : Stays(h, r)
           /\ \A s : \A r \in takeover(q, s) : Stays(h, r)
  BY DEF Refuse, takeover, Stays

(* A start finds no running Session, and the Session it starts is new.       *)
LEMMA StartStarts ==
    ASSUME NEW h, NEW q \in HostType, NEW c, Kept(h, q),
           Lives(h) => h.pane.exit # "none"
    PROVE  \A r \in start(q, c) : Stays(h, r) \/ Starts(h, r)
<1> DEFINE p == [device |-> Owner(c), gen |-> 0,
                 session |-> SessionNonce, control |-> ControlNonce,
                 link |-> c, connected |-> TRUE,
                 exit |-> "none", drained |-> FALSE, restart |-> Sleeps(q)]
           s == [q EXCEPT !.dormant = NoDormant, !.pane = p]
<1>1. p.session = SessionNonce OBVIOUS
<1>2. start(q, c) \subseteq Refuse(q) \cup Attached(s) BY DEF start
<1> HIDE DEF p
<1>3. s.pane = p BY DEF HostType
<1> HIDE DEF s
<1>4. \A r \in Attached(s) : Starts(h, r) BY <1>1, <1>3 DEF Attached, Starts
<1> QED BY <1>2, <1>4, RefusalStays

(* Claiming a live Pane takes its running Session.                           *)
LEMMA ClaimTakes ==
    ASSUME NEW h, NEW q \in HostType, NEW c \in Connections, NEW transfer \in BOOLEAN,
           Lives(q), Kept(h, q)
    PROVE  \A r \in claim(q, c, transfer) : Takes(h, c, r)
<1> DEFINE g == IF transfer THEN 0 ELSE q.pane.gen
           k == IF transfer THEN ControlNonce ELSE q.pane.control
           p == [q.pane EXCEPT !.device = Owner(c), !.gen = g, !.control = k,
                               !.link = c, !.connected = TRUE]
           s == [q EXCEPT !.pane = p]
<1>0. q.pane \in PaneType BY DEF Lives, HostType
<1>1. claim(q, c, transfer) = Attached(s) BY <1>0 DEF claim, HostType, PaneType
<1>2. g \in 0 .. MaxGeneration /\ k \in Names \cup {0}
  BY <1>0, ControlNonceIsFresh, PaneControlAssumption DEF PaneType
<1>3. Owner(c) \in Peers BY ConnectionsOfClients
<1> HIDE DEF g, k
<1>4. p \in PaneType /\ p.session = q.pane.session /\ p.device = Owner(c)
  BY <1>0, <1>2, <1>3 DEF PaneType
<1> HIDE DEF p
<1>5. s.pane = p BY DEF HostType
<1> HIDE DEF s
<1>6. Lives(s) BY <1>4, <1>5, PaneIsNotNoPane DEF Lives
<1>7. Lease(s.pane) # NoLease BY <1>4, <1>5, PaneIsNotNoPane
<1> QED BY <1>1, <1>4, <1>5, <1>6, <1>7 DEF Attached, Takes, Kept

(* Selecting on the Pane host takes a Session its client controls or nobody  *)
(* does, and starts one only when asked to.                                  *)
LEMMA HostSelectMoves ==
    ASSUME NEW h \in HostType, NEW c \in Connections, NEW explicit \in BOOLEAN
    PROVE  \A r \in select(h, c, explicit) :
             \/ Stays(h, r)
             \/ Takes(h, c, r) /\ h.pane.device \in {NoDevice, Owner(c)}
             \/ explicit /\ Starts(h, r)
<1> DEFINE q == reconcile_selection(h)
           d == Owner(c)
           Good(R) == \A r \in R :
             \/ Stays(h, r)
             \/ Takes(h, c, r) /\ h.pane.device \in {NoDevice, d}
             \/ explicit /\ Starts(h, r)
<1>1. q \in HostType /\ Kept(h, q) /\ (Lives(h) /\ ~Lives(q) => h.pane.exit # "none")
  BY ReconcileKept
<1>2. Good(Refuse(q)) BY <1>1, RefusalStays
<1>3. \A s : Good(takeover(q, s)) BY <1>1, RefusalStays
<1>4. ASSUME ~Lives(q), explicit PROVE Good(start(q, c))
  BY <1>1, <1>4, StartStarts
<1>5. ASSUME Lives(q), q.pane.device \in {NoDevice, d}, NEW t \in BOOLEAN
      PROVE  Good(claim(q, c, t))
  <2>1. \A r \in claim(q, c, t) : Takes(h, c, r) BY <1>1, <1>5, ClaimTakes
  <2>2. h.pane.device \in {NoDevice, d} BY <1>1, <1>5 DEF Kept
  <2> QED BY <2>1, <2>2
<1> HIDE DEF Good
<1>6. CASE Lives(q) /\ Failed(q.pane)
  <2>1. select(h, c, explicit) = Refuse(q) BY <1>6 DEF select
  <2> QED BY <2>1, <1>2 DEF Good
<1>7. CASE ~(Lives(q) /\ Failed(q.pane))
           /\ Sleeps(q) /\ q.dormant.device \notin {NoDevice, d}
  <2>1. select(h, c, explicit) = takeover(q, 0) BY <1>7 DEF select
  <2> QED BY <2>1, <1>3 DEF Good
<1>8. CASE Lives(q) /\ ~Failed(q.pane)
           /\ ~(Sleeps(q) /\ q.dormant.device \notin {NoDevice, d})
           /\ q.pane.device \notin {NoDevice, d}
  <2>1. select(h, c, explicit) = takeover(q, q.pane.session) BY <1>8 DEF select
  <2> QED BY <2>1, <1>3 DEF Good
<1>9. CASE Lives(q) /\ ~Failed(q.pane)
           /\ ~(Sleeps(q) /\ q.dormant.device \notin {NoDevice, d})
           /\ q.pane.device \in {NoDevice, d}
  <2> DEFINE free == q.pane.device = NoDevice
  <2>1. select(h, c, explicit) = claim(q, c, free) BY <1>9 DEF select
  <2>2. free \in BOOLEAN OBVIOUS
  <2> HIDE DEF free
  <2> QED BY <2>1, <2>2, <1>5, <1>9 DEF Good
<1>10. CASE ~Lives(q) /\ ~(Sleeps(q) /\ q.dormant.device \notin {NoDevice, d})
  <2>1. \/ select(h, c, explicit) \in {Refuse(q), takeover(q, 0)}
        \/ explicit /\ select(h, c, explicit) = start(q, c)
    BY <1>10 DEF select, restored
  <2> QED BY <2>1, <1>2, <1>3, <1>4, <1>10 DEF Good
<1> QED BY <1>6, <1>7, <1>8, <1>9, <1>10

(* Selecting on the Workspace host: a passive selection at most resumes its  *)
(* client's own control.                                                     *)
LEMMA SelectMoves ==
    ASSUME NEW h \in HostType, NEW c \in Connections, NEW kind
    PROVE  \A r \in Select(h, c, kind) :
             \/ Stays(h, r)
             \/ Takes(h, c, r) /\ h.pane.device = Owner(c)
             \/ Takes(h, c, r) /\ kind # "observe" /\ h.pane.device = NoDevice
             \/ kind # "observe" /\ Starts(h, r)
<1> DEFINE explicit == kind = "start" \/ (kind = "select" /\ ~Sleeps(h))
           d == Owner(c)
<1>1. explicit \in BOOLEAN /\ (explicit => kind # "observe") OBVIOUS
<1>2. Select(h, c, kind) =
          IF ~explicit /\ Sleeps(h) /\ h.dormant.device # d THEN takeover(h, 0)
          ELSE IF ~Lives(h) /\ ~Sleeps(h) /\ creator \notin {NoDevice, d}
          THEN takeover(h, 0)
          ELSE IF ~explicit /\ Lives(h) /\ h.pane.device # d
          THEN takeover(h, h.pane.session)
          ELSE select(h, c, explicit)
  BY DEF Select
<1> HIDE DEF explicit
<1>3. Kept(h, h) BY DEF Kept
<1>4. \A s : \A r \in takeover(h, s) : Stays(h, r) BY <1>3, RefusalStays
<1>5. CASE Select(h, c, kind) = takeover(h, 0) BY <1>4, <1>5
<1>6. CASE Select(h, c, kind) = takeover(h, h.pane.session) BY <1>4, <1>6
<1>7. CASE /\ Select(h, c, kind) = select(h, c, explicit)
           /\ ~(~explicit /\ Lives(h) /\ h.pane.device # d)
  <2> SUFFICES ASSUME NEW r \in select(h, c, explicit)
               PROVE  \/ Stays(h, r)
                      \/ Takes(h, c, r) /\ h.pane.device = d
                      \/ Takes(h, c, r) /\ kind # "observe" /\ h.pane.device = NoDevice
                      \/ kind # "observe" /\ Starts(h, r)
    BY <1>7
  <2>1. \/ Stays(h, r)
        \/ Takes(h, c, r) /\ h.pane.device \in {NoDevice, d}
        \/ explicit /\ Starts(h, r)
    BY <1>1, HostSelectMoves
  <2>2. CASE Takes(h, c, r) /\ h.pane.device \in {NoDevice, d}
    BY <2>2, <1>1, <1>7 DEF Takes
  <2> QED BY <2>1, <2>2, <1>1
<1> QED BY <1>2, <1>5, <1>6, <1>7

(* Taking over or repairing.                                                 *)
LEMMA TakeOverMoves ==
    ASSUME NEW h \in HostType, NEW c \in Connections, NEW target,
           NEW gen \in 0 .. MaxGeneration
    PROVE  /\ \A r \in TakeOver(h, c, target, gen) :
                Stays(h, r) \/ Takes(h, c, r) \/ Starts(h, r)
           /\ \A r \in repair_directory(h, c, target) :
                \/ Stays(h, r) \/ Starts(h, r)
                \/ Takes(h, c, r) /\ h.pane.device = Owner(c)
<1>0. Kept(h, h) BY DEF Kept
<1>1. \A r \in Refuse(h) : Stays(h, r) BY <1>0, RefusalStays
<1>2. ~Lives(h) => \A r \in start(h, c) : Stays(h, r) \/ Starts(h, r)
  BY <1>0, StartStarts
<1>3. \A r \in TakeOverLive(h, c, target) : Stays(h, r) \/ Takes(h, c, r)
  <2> DEFINE q == reconcile_selection(h)
  <2>1. q \in HostType /\ Kept(h, q) BY ReconcileKept
  <2>2. \A r \in Refuse(q) : Stays(h, r) BY <2>1, RefusalStays
  <2>3. Lives(q) => \A r \in claim(q, c, TRUE) : Takes(h, c, r) BY <2>1, ClaimTakes
  <2> QED BY <2>2, <2>3 DEF TakeOverLive
<1>4. ~Lives(h) => \A r \in take_over_ended(h, c, gen) : Stays(h, r) \/ Starts(h, r)
  <2> HAVE ~Lives(h)
  <2> DEFINE q == [h EXCEPT !.dormant.device = Owner(c), !.dormant.gen = gen]
  <2>0. Owner(c) \in Peers BY ConnectionsOfClients
  <2>1. q \in HostType /\ q.pane = h.pane BY <2>0 DEF HostType
  <2>2. take_over_ended(h, c, gen) = start(q, c) BY DEF take_over_ended
  <2> HIDE DEF q
  <2>3. Kept(h, q) BY <2>1 DEF Kept, Lives
  <2> QED BY <2>1, <2>2, <2>3, StartStarts
<1>5. \/ TakeOver(h, c, target, gen) \in {Refuse(h), TakeOverLive(h, c, target)}
      \/ ~Lives(h) /\ TakeOver(h, c, target, gen)
                        \in {take_over_ended(h, c, gen), start(h, c)}
  BY DEF TakeOver
<1>6. \/ repair_directory(h, c, target) \in {Refuse(h), Select(h, c, "observe")}
      \/ ~Lives(h) /\ repair_directory(h, c, target) = Refuse(h) \cup start(h, c)
  BY DEF repair_directory
<1>7. \A r \in Select(h, c, "observe") :
        Stays(h, r) \/ (Takes(h, c, r) /\ h.pane.device = Owner(c))
  BY SelectMoves
<1>8. \A r \in TakeOver(h, c, target, gen) :
         Stays(h, r) \/ Takes(h, c, r) \/ Starts(h, r)
  BY <1>1, <1>2, <1>3, <1>4, <1>5
<1>9. \A r \in repair_directory(h, c, target) :
         Stays(h, r) \/ Starts(h, r) \/ (Takes(h, c, r) /\ h.pane.device = Owner(c))
  BY <1>1, <1>2, <1>6, <1>7
<1> QED BY <1>8, <1>9

(* What any claim may do to the Session, before its generation is set.       *)
Moves(h, c, m, r) ==
    \/ Stays(h, r)
    \/ /\ Takes(h, c, r) /\ h.pane.device = Owner(c)
       /\ m.kind = "observe" => h.pane.gen = m.gen
    \/ Takes(h, c, r) /\ m.kind # "observe" /\ h.pane.device = NoDevice
    \/ Takes(h, c, r) /\ m.kind = "takeover"
    \/ m.kind # "observe" /\ Starts(h, r)

(* Every claim is judged so.                                                 *)
LEMMA RepliesMove ==
    ASSUME NEW h \in HostType, NEW c \in Connections, NEW m \in MessageType,
           m.kind \in Claims
    PROVE  \A r \in ClaimReplies(h, c, m) : Moves(h, c, m, r)
<1>0. m.gen \in 0 .. MaxGeneration BY DEF MessageType
<1>1. Kept(h, h) BY DEF Kept
<1>2. \A r \in Refuse(h) : Stays(h, r) BY <1>1, RefusalStays
<1>3. CASE m.kind = "observe" /\ OtherGrant(h, Owner(c), m.gen)
  <2>1. PICK s : ClaimReplies(h, c, m) = takeover(h, s) BY <1>3 DEF ClaimReplies
  <2> QED BY <2>1, <1>1, RefusalStays DEF Moves
<1>4. CASE m.kind = "observe" /\ ~OtherGrant(h, Owner(c), m.gen)
  <2>1. ClaimReplies(h, c, m) = Select(h, c, "observe") BY <1>4 DEF ClaimReplies
  <2>2. \A r \in Select(h, c, "observe") :
          Stays(h, r) \/ (Takes(h, c, r) /\ h.pane.device = Owner(c))
    BY SelectMoves
  <2>3. Lives(h) /\ h.pane.device = Owner(c) => h.pane.gen = m.gen
    BY <1>4 DEF OtherGrant
  <2> QED BY <2>1, <2>2, <2>3 DEF Moves, Takes
<1>5. CASE m.kind \in {"select", "start"}
  <2>1. ClaimReplies(h, c, m) \in {Refuse(h), Select(h, c, m.kind)}
    BY <1>5 DEF ClaimReplies
  <2>2. \A r \in Select(h, c, m.kind) : Moves(h, c, m, r)
    BY <1>5, SelectMoves DEF Moves
  <2> QED BY <2>1, <2>2, <1>2 DEF Moves
<1>6. CASE m.kind = "repair"
  <2>1. ClaimReplies(h, c, m) = repair_directory(h, c, m.target)
    BY <1>6 DEF ClaimReplies
  <2> QED BY <2>1, <1>0, <1>6, TakeOverMoves DEF Moves
<1>7. CASE m.kind = "takeover"
  <2>1. ClaimReplies(h, c, m) = TakeOver(h, c, m.target, m.gen)
    BY <1>7 DEF ClaimReplies
  <2> QED BY <2>1, <1>0, <1>7, TakeOverMoves DEF Moves
<1> QED BY <1>3, <1>4, <1>5, <1>6, <1>7 DEF Claims
(* What a claim leaves, with its generation set.                             *)
Moved(h, c, m, q) ==
    \/ Kept(h, q)
    \/ /\ m.kind # "observe" /\ Lives(h) /\ q.pane.session = h.pane.session
       /\ \/ q.pane.device = h.pane.device \/ h.pane.device = NoDevice
          \/ m.kind = "takeover" /\ q.pane.device = Owner(c)
    \/ /\ m.kind # "observe" /\ (Lives(h) => h.pane.exit # "none")
       /\ q.pane.session = SessionNonce

(* A passive claim leaves the Pane as it was, others may take or start it.   *)
LEMMA ClaimsMove ==
    ASSUME NEW h \in HostType, NEW c \in Connections, NEW m \in MessageType,
           boot \in 1 .. MaxBoots, m.kind \in Claims
    PROVE  \A r \in ClaimPane(h, c, m) : Moved(h, c, m, r.host)
<1> SUFFICES ASSUME NEW r \in ClaimReplies(h, c, m)
             PROVE  Moved(h, c, m, (IF r.lease = NoLease THEN r
                                    ELSE [r EXCEPT !.host.pane.gen = m.gen]).host)
  BY DEF ClaimPane
<1>1. Judged(h, c, m.gen, r) BY RepliesAreJudged
<1>2. Moves(h, c, m, r) BY RepliesMove
<1>3. CASE r.lease = NoLease
  <2>1. Moved(h, c, m, r.host) BY <1>2, <1>3 DEF Moves, Moved, Stays, Takes, Starts
  <2> QED BY <1>3, <2>1
<1>4. CASE r.lease # NoLease
  <2> DEFINE k == r.host
             p == [k.pane EXCEPT !.gen = m.gen]
             s == [k EXCEPT !.pane = p]
             t == [r EXCEPT !.host.pane.gen = m.gen]
  <2>1. k \in HostType /\ Lives(k) BY <1>1, <1>4 DEF Judged
  <2>2. k.pane \in PaneType BY <2>1 DEF Lives, HostType
  <2>3. t.host = s BY <1>1 DEF Judged
  <2>4. /\ p.session = k.pane.session /\ p.device = k.pane.device /\ p.gen = m.gen
    BY <2>2 DEF PaneType
  <2> HIDE DEF p
  <2>5. s.pane = p BY <2>1 DEF HostType
  <2> HIDE DEF s, t
  <2>6. Moved(h, c, m, s)
    <3>1. CASE /\ Takes(h, c, r) /\ h.pane.device = Owner(c)
               /\ m.kind = "observe" => h.pane.gen = m.gen
      BY <3>1, <2>4, <2>5 DEF Takes, Moved, Kept
    <3>2. CASE /\ Takes(h, c, r)
               /\ (m.kind # "observe" /\ h.pane.device = NoDevice) \/ m.kind = "takeover"
      BY <3>2, <2>4, <2>5 DEF Takes, Moved
    <3>3. CASE m.kind # "observe" /\ Starts(h, r)
      BY <3>3, <2>4, <2>5 DEF Starts, Moved
    <3> QED BY <1>2, <1>4, <3>1, <3>2, <3>3 DEF Moves, Stays
  <2> QED BY <1>4, <2>3, <2>6 DEF t
<1> QED BY <1>3, <1>4

(* A claim, as a step.                                                       *)
LEMMA ClaimStep ==
    ASSUME TypeOK, NEW c \in Connections, Claim(c)
    PROVE  \E m \in Received(c) :
             /\ Dispatches(c) /\ boot' = boot
             /\ \/ Kept(host, host')
                \/ /\ m.kind # "observe" /\ Lives(host)
                   /\ host'.pane.session = host.pane.session
                   /\ \/ host'.pane.device = host.pane.device
                      \/ host.pane.device = NoDevice
                      \/ m.kind = "takeover" /\ host'.pane.device = Owner(c)
                \/ /\ m.kind # "observe"
                   /\ Lives(host) => /\ host.pane.exit # "none"
                                     /\ host'.pane.session # host.pane.session
<1> DEFINE d == Owner(c)
           h == IF bound[c] = NoLease THEN host ELSE unbound(host, c)
<1>1. PICK m \in Received(c) :
      /\ Dispatches(c) /\ m.kind \in Claims /\ boot' = boot
      /\ LET stale == ~listed \/ Fenced(d, m.gen)
         IN  \E r \in IF stale THEN Refuse(h) ELSE ClaimPane(h, c, m) : host' = r.host
  BY DEF Claim
<1>2. m \in MessageType BY <1>1, DispatchType DEF Dispatches
<1>3. /\ host \in HostType /\ h \in HostType /\ Kept(host, h)
      /\ Lives(h) <=> Lives(host)
      /\ Lives(host) => h.pane.exit = host.pane.exit
  <2>1. host \in HostType /\ listed \in BOOLEAN BY DEF TypeOK
  <2>2. \A q \in {Unlinked(host, c), unbound(host, c)} :
          Kept(host, q) /\ (Lives(host) => Lives(q) /\ q.pane.exit = host.pane.exit)
    BY <2>1, WorkKept
  <2>3. unbound(host, c) \in HostType BY <2>1, UnlinkedKeeps
  <2> QED BY <2>1, <2>2, <2>3 DEF Kept
<1> HIDE DEF h
<1>4. Moved(h, c, m, host')
  <2>1. CASE ~listed \/ Fenced(d, m.gen)
    <3>1. host' = h BY <1>1, <2>1 DEF Refuse
    <3> QED BY <3>1 DEF Moved, Kept
  <2>2. CASE ~(~listed \/ Fenced(d, m.gen))
    <3>1. PICK r \in ClaimPane(h, c, m) : host' = r.host BY <1>1, <2>2
    <3> QED BY <3>1, <1>1, <1>2, <1>3, ClaimsMove DEF TypeOK
  <2> QED BY <2>1, <2>2
<1>5. Lives(host) => SessionNonce # host.pane.session BY SessionNonceIsFresh
<1> WITNESS m \in Received(c)
<1>6. CASE Kept(h, host') BY <1>1, <1>3, <1>6, KeptTwice
<1>7. CASE /\ m.kind # "observe" /\ Lives(h) /\ host'.pane.session = h.pane.session
           /\ \/ host'.pane.device = h.pane.device \/ h.pane.device = NoDevice
              \/ m.kind = "takeover" /\ host'.pane.device = Owner(c)
  BY <1>1, <1>3, <1>7 DEF Kept
<1>8. CASE /\ m.kind # "observe" /\ (Lives(h) => h.pane.exit # "none")
           /\ host'.pane.session = SessionNonce
  BY <1>1, <1>3, <1>5, <1>8
<1> QED BY <1>4, <1>6, <1>7, <1>8 DEF Moved

(* An operation on a channel: only dropping it gives control up.             *)
LEMMA ChannelStep ==
    ASSUME TypeOK, NEW c \in Connections, OnChannel(c)
    PROVE  \E m \in Received(c) :
             /\ Dispatches(c) /\ boot' = boot /\ m.kind # "observe"
             /\ \/ Kept(host, host')
                \/ /\ m.kind = "drop" /\ Lives(host) /\ host.pane.device = Owner(c)
                   /\ host'.pane.session = host.pane.session
<1> DEFINE granted == Observes(host, c)
           r == drain(host)
<1>1. PICK m \in Received(c) :
      /\ Dispatches(c) /\ m.kind \in {"input", "command", "drop", "close"}
      /\ boot' = boot
      /\ host' = CASE ~granted -> host
                   [] granted /\ m.kind \in {"input", "command"} -> r
                   [] granted /\ m.kind = "drop" ->
                        [r EXCEPT !.pane = Unclaimed(@, ControlNonce)]
                   [] granted /\ m.kind = "close" ->
                        [r EXCEPT !.pane = NoPane, !.identity = FALSE]
  BY DEF OnChannel
<1>2. host \in HostType BY DEF TypeOK
<1>3. r \in HostType /\ Kept(host, r) /\ (Lives(host) => r.pane \in PaneType)
  BY <1>2, DrainKeeps, DrainKept
<1> WITNESS m \in Received(c)
<1>4. CASE ~granted
  <2>1. host' = host BY <1>1, <1>4
  <2> QED BY <2>1, <1>1 DEF Kept
<1>5. CASE granted /\ m.kind \in {"input", "command"}
  <2>1. host' = r BY <1>1, <1>5
  <2> QED BY <2>1, <1>1, <1>3
<1>6. CASE granted /\ m.kind = "drop"
  <2> DEFINE p == Unclaimed(r.pane, ControlNonce)
             s == [r EXCEPT !.pane = p]
  <2>1. host' = s BY <1>1, <1>6
  <2>2. Lives(host) /\ host.pane.device = Owner(c) BY <1>6 DEF Observes, LeaseLive
  <2>3. Lives(r) BY <1>2, <2>2, DrainKeeps
  <2> HIDE DEF r
  <2>4. p.session = r.pane.session BY <1>3, <2>2 DEF Unclaimed, PaneType
  <2> HIDE DEF p
  <2>5. s.pane = p BY <1>3 DEF HostType
  <2> HIDE DEF s
  <2> QED BY <2>1, <2>2, <2>3, <2>4, <2>5, <1>1, <1>3, <1>6 DEF Kept
<1>7. CASE granted /\ m.kind = "close"
  <2> DEFINE s == [r EXCEPT !.pane = NoPane, !.identity = FALSE]
  <2>1. host' = s BY <1>1, <1>7
  <2> HIDE DEF r
  <2>2. ~Lives(s) BY <1>3 DEF HostType, Lives
  <2> HIDE DEF s
  <2> QED BY <2>1, <2>2, <1>1 DEF Kept
<1> QED BY <1>1, <1>4, <1>5, <1>6, <1>7

(* A release takes only grants of the attachments it covers.                 *)
LEMMA ReleaseStep ==
    ASSUME TypeOK, NEW c \in Connections, Release(c)
    PROVE  \E m \in Received(c) :
             /\ Dispatches(c) /\ boot' = boot /\ m.kind = "release"
             /\ Lives(host') =>
                  /\ Lives(host) /\ host'.pane.session = host.pane.session
                  /\ \/ Kept(host, host')
                     \/ host.pane.device = Owner(c) /\ m.gen >= host.pane.gen
<1>1. PICK m \in Received(c) :
        /\ Dispatches(c) /\ boot' = boot /\ m.kind = "release"
        /\ host' = ReleaseAttachment(host, Owner(c), m.gen)
  BY DEF Release
<1>2. m \in MessageType BY <1>1, DispatchType DEF Dispatches
<1>3. m.gen \in 0 .. MaxGeneration /\ MaxGeneration \in Nat
  BY <1>2, PaneControlAssumption DEF MessageType
<1>4. host \in HostType /\ Owner(c) \in Devices BY ConnectionsOfClients DEF TypeOK
<1>5. Lives(host') =>
        /\ Lives(host) /\ host'.pane.session = host.pane.session
        /\ Kept(host, host')
           \/ (host.pane.device = Owner(c) /\ host.pane.gen \in 1 .. m.gen)
  BY <1>1, <1>3, <1>4, ReleaseAttachmentKept
<1>6. host.pane.gen \in 1 .. m.gen => m.gen >= host.pane.gen BY <1>3
<1> WITNESS m \in Received(c)
<1> QED BY <1>1, <1>5, <1>6

(* A publication keeps the Pane.                                             *)
LEMMA PublishKept ==
    ASSUME TypeOK, NEW c \in Connections, publish(c)
    PROVE  Kept(host, host')
<1>0. host \in HostType /\ listed \in BOOLEAN BY DEF TypeOK
<1>1. CASE ~Open(c) \/ bound[c] = NoLease
  <2>1. host' = host BY <1>1 DEF publish
  <2> QED BY <2>1 DEF Kept
<1>2. CASE Open(c) /\ bound[c] # NoLease
  <2> DEFINE gone == Gone(host, c)
             r == observe(host, c)
             s(durable) == IF gone /\ Known(host, c) THEN synchronize(r, durable)
                           ELSE [host |-> r, listed |-> listed]
  <2>1. PICK durable \in BOOLEAN : host' = s(durable).host BY <1>2 DEF publish
  <2>2. r \in HostType /\ Kept(host, r) BY <1>0, ObserveKeeps, WorkKept
  <2> HIDE DEF r
  <2>3. CASE gone /\ Known(host, c)
    <3>1. host' = synchronize(r, durable).host BY <2>1, <2>3
    <3>2. Kept(r, host') BY <3>1, <1>0, <2>2, WorkKept
    <3> QED BY <3>2, <2>2, KeptTwice
  <2>4. CASE ~(gone /\ Known(host, c))
    <3>1. host' = r BY <2>1, <2>4
    <3> QED BY <3>1, <2>2
  <2> QED BY <2>3, <2>4
<1> QED BY <1>1, <1>2

(* The tick keeps the Pane.                                                  *)
LEMMA TickKept ==
    ASSUME TypeOK, NEW defers \in BOOLEAN, tick(defers)
    PROVE  Kept(host, host')
<1>0. host \in HostType /\ listed \in BOOLEAN BY DEF TypeOK
<1> DEFINE seen == {c \in Connections : bound[c] # NoLease}
           rang == IF bell THEN {c \in seen : Gone(host, c)} ELSE {}
           o == IF bell /\ \E c \in seen : Observes(host, c)
                THEN observe(host, CHOOSE c \in seen : Observes(host, c)) ELSE host
           works == ~defers \/ \E c \in rang : Known(host, c)
           s(durable) == IF works THEN synchronize(o, durable)
                         ELSE [host |-> o, listed |-> listed]
<1>1. PICK durable \in BOOLEAN : host' = s(durable).host BY DEF tick
<1>2. o \in HostType /\ Kept(host, o)
  <2>1. CASE bell /\ \E c \in seen : Observes(host, c)
    <3> DEFINE e == CHOOSE c \in seen : Observes(host, c)
    <3>1. e \in Connections BY <2>1
    <3>2. o = observe(host, e) BY <2>1
    <3> HIDE DEF e, o
    <3> QED BY <3>1, <3>2, <1>0, ObserveKeeps, WorkKept
  <2>2. CASE ~(bell /\ \E c \in seen : Observes(host, c))
    <3>1. o = host BY <2>2
    <3> QED BY <3>1, <1>0 DEF Kept
  <2> QED BY <2>1, <2>2
<1> HIDE DEF o
<1>3. CASE works
  <2>1. host' = synchronize(o, durable).host BY <1>1, <1>3
  <2>2. Kept(o, host') BY <2>1, <1>0, <1>2, WorkKept
  <2> QED BY <2>2, <1>2, KeptTwice
<1>4. CASE ~works
  <2>1. host' = o BY <1>1, <1>4
  <2> QED BY <2>1, <1>2
<1> QED BY <1>3, <1>4

(* Every step that is not a client's request or a release of control keeps   *)
(* the Pane, its Session and its grant.                                      *)
LEMMA OtherStepsKeep ==
    ASSUME TypeOK, Next,
           \A c \in Connections : ~Claim(c) /\ ~Release(c) /\ ~OnChannel(c),
           \A d \in Devices : ~Revoked(d) /\ ~Evict(d)
    PROVE  Kept(host, host')
<1>0. host \in HostType /\ listed \in BOOLEAN BY DEF TypeOK
<1>s. Kept(host, host) BY DEF Kept
<1>1. ASSUME NEW c \in Connections, publish(c) PROVE Kept(host, host')
  BY <1>1, PublishKept
<1>2. ASSUME NEW c \in Connections, disconnected(c) PROVE Kept(host, host')
  <2>1. host' = Unlinked(host, c) BY <1>2 DEF disconnected
  <2> QED BY <2>1, <1>0, WorkKept
<1>3. ASSUME NEW how \in Exits, Exit(how) PROVE Kept(host, host')
  <2>1. Lives(host) /\ host' = [host EXCEPT !.pane.exit = how] BY <1>3 DEF Exit
  <2> DEFINE p == [host.pane EXCEPT !.exit = how]
  <2>2. host.pane \in PaneType BY <2>1, <1>0 DEF HostType, Lives
  <2>3. /\ p.session = host.pane.session /\ p.device = host.pane.device
        /\ p.gen = host.pane.gen
    BY <2>2 DEF PaneType
  <2>4. host'.pane = p BY <2>1, <1>0 DEF HostType
  <2> HIDE DEF p
  <2> QED BY <2>1, <2>3, <2>4 DEF Kept
<1>4. ASSUME NEW defers \in BOOLEAN, tick(defers) PROVE Kept(host, host')
  BY <1>4, TickKept
<1>5. ASSUME Restart PROVE Kept(host, host')
  <2>1. host'.pane = NoPane BY <1>5 DEF Restart
  <2> QED BY <2>1 DEF Kept, Lives
<1>6. ASSUME \/ \E c \in Connections : Goodbye(c)
             \/ notify \/ DeletePane \/ EndAllSessions
             \/ \E d \in Devices :
                  \/ Connect(d) \/ LinkEnds(d) \/ attach(d) \/ detach(d)
                  \/ SendClaim(d) \/ release_pending(d) \/ Revoke(d)
                  \/ \E kind \in Requests \cap Claims : Permit(d, kind)
                  \/ \E kind \in Requests \ Claims : SendOnChannel(d, kind)
      PROVE  Kept(host, host')
  <2>1. UNCHANGED host
    BY <1>6
    DEF Goodbye, notify, DeletePane, EndAllSessions, Connect, LinkEnds, attach, detach,
        SendClaim, release_pending, Revoke, Permit, SendOnChannel, serverVars
  <2> QED BY <2>1, <1>s
<1> QED BY <1>1, <1>2, <1>3, <1>4, <1>5, <1>6 DEF Next

(* Only dispatching takes one request off a queue, and only the end of a     *)
(* connection empties it.                                                    *)
LEMMA WhoDequeues ==
    ASSUME TypeOK, Next, NEW c \in Connections, queue[c] # <<>>,
           queue'[c] = Tail(queue[c]), boot' = boot
    PROVE  Claim(c) \/ Release(c) \/ OnChannel(c) \/ disconnected(c)
<1>0. queue \in [Connections -> Seq(MessageType)] /\ queue[c] \in Seq(MessageType)
  BY DEF TypeOK
<1>1. queue'[c] # queue[c] /\ Len(queue'[c]) < Len(queue[c]) BY <1>0
<1>2. ASSUME NEW e \in Connections, Claim(e) \/ Release(e) \/ OnChannel(e) PROVE e = c
  <2>1. queue' = [queue EXCEPT ![e] = Tail(@)]
    BY <1>2 DEF Claim, Release, OnChannel, Dispatches
  <2> QED BY <2>1, <1>0, <1>1
<1>3. ASSUME NEW e \in Connections, disconnected(e) PROVE e = c
  <2>1. queue' = [queue EXCEPT ![e] = <<>>] BY <1>3 DEF disconnected
  <2> QED BY <2>1, <1>0, <1>1
<1>4. ASSUME NEW d \in Devices, NEW m, Sends(d, m) PROVE FALSE
  <2> DEFINE e == <<d, client[d].link>>
  <2>1. queue' = [queue EXCEPT ![e] = Append(@, m)] BY <1>4 DEF Sends
  <2> HIDE DEF e
  <2>2. CASE e = c
    <3>1. queue'[c] = Append(queue[c], m) BY <2>1, <2>2, <1>0
    <3>2. Len(Append(queue[c], m)) = Len(queue[c]) + 1 /\ Len(queue[c]) \in Nat BY <1>0
    <3>3. Len(queue'[c]) = Len(queue[c]) + 1 BY <3>1, <3>2, Zenon
    <3> QED BY <3>2, <3>3, <1>1
  <2>3. CASE e # c BY <2>1, <2>3, <1>0, <1>1
  <2> QED BY <2>2, <2>3
<1>5. ASSUME NEW d \in Devices,
             \/ SendClaim(d) \/ release_pending(d)
             \/ \E kind \in Requests \ Claims : SendOnChannel(d, kind)
      PROVE  FALSE
  BY <1>4, <1>5 DEF SendClaim, release_pending, SendOnChannel
<1>6. ASSUME \/ \E e \in Connections : publish(e) \/ Goodbye(e)
             \/ \E how \in Exits : Exit(how)
             \/ notify \/ DeletePane \/ EndAllSessions
             \/ \E defers \in BOOLEAN : tick(defers)
             \/ \E d \in Devices :
                  \/ Connect(d) \/ LinkEnds(d) \/ attach(d) \/ detach(d)
                  \/ Revoke(d) \/ Revoked(d) \/ Evict(d)
                  \/ \E kind \in Requests \cap Claims : Permit(d, kind)
      PROVE  FALSE
  <2>1. UNCHANGED queue
    BY <1>6
    DEF publish, Goodbye, Exit, notify, DeletePane, EndAllSessions, tick, Connect,
        LinkEnds, attach, detach, Revoke, Revoked, Evict, Permit, servedVars
  <2> QED BY <2>1, <1>1
<1>7. ASSUME Restart PROVE FALSE
  <2>1. boot' = boot + 1 BY <1>7 DEF Restart
  <2> QED BY <2>1 DEF TypeOK
<1> QED BY <1>2, <1>3, <1>5, <1>6, <1>7 DEF Next

-----------------------------------------------------------------------------
(* Theorems                                                                  *)

(* Every variable keeps its type, whatever clients send, lose or repeat and  *)
(* however Sessions, connections and the server end: in particular a fresh   *)
(* nonce always exists.                                                      *)
THEOREM PaneTypeCorrect == Spec => []TypeOK
<1>1. Init => TypeOK BY PaneTypeInitial
<1>2. TypeOK /\ [Next]_vars => TypeOK' BY PaneTypeInductive
<1> QED BY <1>1, <1>2, PTL DEF Spec

(* The inductive invariant of grants, generations, claims under way,         *)
(* connections and revocations (attachments.rs, workspaces.rs, dispatch.rs). *)
THEOREM GrantInvHolds == Spec => []GrantInv
<1>1. Init => TypeOK /\ HeldInv BY PaneTypeInitial, HeldInitial
<1>2. TypeOK /\ HeldInv /\ [Next]_vars => TypeOK' /\ HeldInv'
  BY PaneTypeInductive, HeldInductive
<1>3. TypeOK /\ HeldInv => GrantInv BY AccountedIsGrant DEF HeldInv, GrantInv
<1> QED BY <1>1, <1>2, <1>3, PTL DEF Spec

(* Every grant on a listed Pane is one its client still answers for: its     *)
(* current attachment's, or covered by a release the client still owes.      *)
(* (WorkspaceHost::claim_pane, release_attachment, Attachments::released)    *)
THEOREM GrantsStayAccountedFor == Spec => []GrantIsAccountedFor
<1>1. GrantInv => GrantIsAccountedFor BY DEF GrantInv
<1> QED BY <1>1, GrantInvHolds, PTL

(* Once the service learned of a revocation the device holds no grant and no *)
(* reservation, and gets none again.  (WorkspaceHost::revoked)               *)
THEOREM RevokedStayBare == Spec => []RevokedHoldsNothing
<1>1. GrantInv => RevokedHoldsNothing BY DEF GrantInv
<1> QED BY <1>1, GrantInvHolds, PTL

(* No two channels observe the Pane.                                         *)
OneObserver ==
    \A c, e \in Connections : Observes(host, c) /\ Observes(host, e) => c = e

(* At most one channel of all connections observes the Pane, so the order in *)
(* which a tick publishes channels does not matter.  (Served::tick)          *)
THEOREM OneChannelObserves == Spec => []OneObserver
<1>1. GrantInv => OneObserver
  BY DEF GrantInv, LeasesAreOfTheirChannel, OneObserver, Observes, LeaseLive
<1> QED BY <1>1, GrantInvHolds, PTL

(* A running Session is never replaced, whatever claim arrives and whichever *)
(* Session a client believes it saw.  (CorePaneHost::select, take_over,      *)
(* WorkspaceHost::repair_directory)                                          *)
THEOREM SessionsStay == Spec => SessionsNeverReplaced
<1> DEFINE Replaces == Lives(host) /\ Lives(host') /\ host.pane.session # host'.pane.session
<1>1. ASSUME TypeOK, Next, Replaces PROVE host.pane.exit # "none"
  <2>1. ASSUME NEW c \in Connections, Claim(c) PROVE host.pane.exit # "none"
    BY <1>1, <2>1, ClaimStep DEF Kept
  <2>2. ASSUME NEW c \in Connections, Release(c) PROVE FALSE
    BY <1>1, <2>2, ReleaseStep
  <2>3. ASSUME NEW c \in Connections, OnChannel(c) PROVE FALSE
    BY <1>1, <2>3, ChannelStep DEF Kept
  <2>4. ASSUME NEW d \in Devices, Revoked(d) \/ Evict(d) PROVE FALSE
    <3>1. host' = release_control(host, d) BY <2>4 DEF Revoked, Evict
    <3> QED BY <1>1, <3>1, ReleaseKept DEF TypeOK
  <2>5. CASE /\ \A c \in Connections : ~Claim(c) /\ ~Release(c) /\ ~OnChannel(c)
             /\ \A d \in Devices : ~Revoked(d) /\ ~Evict(d)
    BY <1>1, <2>5, OtherStepsKeep DEF Kept
  <2> QED BY <2>1, <2>2, <2>3, <2>4, <2>5
<1>2. TypeOK /\ [Next]_vars => [Replaces => host.pane.exit # "none"]_vars BY <1>1
<1> QED BY <1>2, PaneTypeCorrect, PTL DEF Spec, SessionsNeverReplaced

(* A passive selection gives nobody control and starts nothing, whatever     *)
(* happens to the Session while it waits to be dispatched.                   *)
(* (WorkspaceHost::claim_pane, select)                                       *)
THEOREM PassiveStaysPassive == Spec => PassiveAcquiresNothing
<1> DEFINE Acquires == \A c \in Connections : \A m \in Received(c) :
             Serves(c) /\ m.kind = "observe" /\ Lives(host')
             => /\ Lives(host) /\ host.pane.session = host'.pane.session
                /\ host.pane.device = host'.pane.device
                /\ host.pane.gen = host'.pane.gen
<1>1. ASSUME TypeOK, Next PROVE Acquires
  <2> SUFFICES ASSUME NEW c \in Connections, NEW m \in Received(c),
                      Serves(c), m.kind = "observe", Lives(host')
               PROVE  Kept(host, host')
    BY DEF Kept
  <2>1. queue[c] # <<>> /\ \A k \in Received(c) : k = m BY DEF Received
  <2>2. Claim(c) \/ Release(c) \/ OnChannel(c) \/ disconnected(c)
    BY <1>1, <2>1, WhoDequeues DEF Serves
  <2>3. CASE Claim(c) BY <1>1, <2>1, <2>3, ClaimStep
  <2>4. CASE Release(c) BY <1>1, <2>1, <2>4, ReleaseStep
  <2>5. CASE OnChannel(c) BY <1>1, <2>1, <2>5, ChannelStep
  <2>6. CASE disconnected(c)
    <3>1. host' = Unlinked(host, c) BY <2>6 DEF disconnected
    <3> QED BY <1>1, <3>1, WorkKept DEF TypeOK
  <2> QED BY <2>2, <2>3, <2>4, <2>5, <2>6
<1>2. TypeOK /\ [Next]_vars => [Acquires]_vars BY <1>1
<1> QED BY <1>2, PaneTypeCorrect, PTL DEF Spec, PassiveAcquiresNothing

(* Control of a running Session leaves its client only because another       *)
(* client took it over, the client itself released it, or the client was     *)
(* revoked or evicted (docs/adr/0022): no late release takes a newer         *)
(* attachment's grant.                                                       *)
THEOREM ControlIsNotLost == Spec => ControlLeavesForAReason
<1> DEFINE Leaves(d) ==
             /\ Lives(host) /\ Lives(host') /\ host.pane.session = host'.pane.session
             /\ host.pane.device = d /\ host'.pane.device # d
           Asked(d) == \E c \in Connections : \E m \in Received(c) : Serves(c) /\
                 \/ m.kind = "takeover" /\ Owner(c) = host'.pane.device
                 \/ m.kind = "drop" /\ Owner(c) = d
                 \/ m.kind = "release" /\ Owner(c) = d /\ m.gen >= host.pane.gen
           Removed(d) ==
                 \/ revoked'[d] # revoked[d]
                 \/ "evict" \in Events
                    /\ \A c \in Connections : Owner(c) = d => ~Registered(c)
<1>1. ASSUME TypeOK, Next, NEW d \in Devices, Leaves(d) PROVE Asked(d) \/ Removed(d)
  <2>0. ~Kept(host, host') BY <1>1 DEF Kept
  <2>s. ASSUME NEW c \in Connections, Dispatches(c), boot' = boot PROVE Serves(c)
    BY <2>s, <1>1 DEF Dispatches, Serves, TypeOK
  <2>1. ASSUME NEW c \in Connections, Claim(c) PROVE Asked(d)
    <3>1. PICK m \in Received(c) :
             /\ Dispatches(c) /\ boot' = boot
             /\ \/ Kept(host, host')
                \/ /\ m.kind # "observe" /\ Lives(host)
                   /\ host'.pane.session = host.pane.session
                   /\ \/ host'.pane.device = host.pane.device
                      \/ host.pane.device = NoDevice
                      \/ m.kind = "takeover" /\ host'.pane.device = Owner(c)
                \/ /\ m.kind # "observe"
                   /\ Lives(host) => /\ host.pane.exit # "none"
                                     /\ host'.pane.session # host.pane.session
      BY <1>1, <2>1, ClaimStep
    <3>2. m.kind = "takeover" /\ host'.pane.device = Owner(c)
      BY <1>1, <2>0, <3>1, PaneControlAssumption
    <3> QED BY <2>s, <3>1, <3>2
  <2>2. ASSUME NEW c \in Connections, Release(c) PROVE Asked(d)
    <3>1. PICK m \in Received(c) :
             /\ Dispatches(c) /\ boot' = boot /\ m.kind = "release"
             /\ Lives(host') =>
                  /\ Lives(host) /\ host'.pane.session = host.pane.session
                  /\ \/ Kept(host, host')
                     \/ host.pane.device = Owner(c) /\ m.gen >= host.pane.gen
      BY <1>1, <2>2, ReleaseStep
    <3>2. Owner(c) = d /\ m.gen >= host.pane.gen BY <1>1, <2>0, <3>1
    <3> QED BY <2>s, <3>1, <3>2
  <2>3. ASSUME NEW c \in Connections, OnChannel(c) PROVE Asked(d)
    <3>1. PICK m \in Received(c) :
             /\ Dispatches(c) /\ boot' = boot /\ m.kind # "observe"
             /\ \/ Kept(host, host')
                \/ /\ m.kind = "drop" /\ Lives(host) /\ host.pane.device = Owner(c)
                   /\ host'.pane.session = host.pane.session
      BY <1>1, <2>3, ChannelStep
    <3>2. m.kind = "drop" /\ Owner(c) = d BY <1>1, <2>0, <3>1
    <3> QED BY <2>s, <3>1, <3>2
  <2>4. ASSUME NEW e \in Devices, Revoked(e) \/ Evict(e) PROVE Removed(d)
    <3>1. host' = release_control(host, e) BY <2>4 DEF Revoked, Evict
    <3>2. e = d BY <1>1, <2>0, <3>1, ReleaseKept DEF TypeOK
    <3>3. CASE Revoked(e)
      <4>1. revoked[d] = "goodbye" /\ revoked' = [revoked EXCEPT ![d] = "done"]
        BY <3>2, <3>3 DEF Revoked
      <4> QED BY <4>1, <1>1 DEF TypeOK
    <3>4. CASE Evict(e) BY <3>2, <3>4 DEF Evict
    <3> QED BY <2>4, <3>3, <3>4
  <2>5. CASE /\ \A c \in Connections : ~Claim(c) /\ ~Release(c) /\ ~OnChannel(c)
             /\ \A e \in Devices : ~Revoked(e) /\ ~Evict(e)
    BY <1>1, <2>0, <2>5, OtherStepsKeep
  <2> HIDE DEF Asked, Removed
  <2> QED BY <2>1, <2>2, <2>3, <2>4, <2>5
<1>2. TypeOK /\ [Next]_vars
        => [\A d \in Devices : Leaves(d) => Asked(d) \/ Removed(d)]_vars
  <2> HIDE DEF Leaves, Asked, Removed
  <2> QED BY <1>1
<1>3. [\A d \in Devices : Leaves(d) => Asked(d) \/ Removed(d)]_vars
        => [ \A d \in Devices :
               ( Lives(host) /\ Lives(host') /\ host.pane.session = host'.pane.session
                 /\ host.pane.device = d /\ host'.pane.device # d )
               => \/ \E c \in Connections : \E m \in Received(c) : Serves(c) /\
                      \/ m.kind = "takeover" /\ Owner(c) = host'.pane.device
                      \/ m.kind = "drop" /\ Owner(c) = d
                      \/ m.kind = "release" /\ Owner(c) = d /\ m.gen >= host.pane.gen
                  \/ revoked'[d] # revoked[d]
                  \/ "evict" \in Events
                     /\ \A c \in Connections : Owner(c) = d => ~Registered(c) ]_vars
  OBVIOUS
<1> QED BY <1>2, <1>3, PaneTypeCorrect, PTL DEF Spec, ControlLeavesForAReason
=============================================================================
