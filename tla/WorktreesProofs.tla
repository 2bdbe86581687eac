-------------------------- MODULE WorktreesProofs ---------------------------
(***************************************************************************)
(* Proofs about Worktrees: its type invariant, its safety invariants and   *)
(* its action properties, for any devices, edits, reviews and events.      *)
(***************************************************************************)
EXTENDS Worktrees, FiniteSetTheorems, TLAPS

-----------------------------------------------------------------------------
(* What the operators on the retained state change.                        *)

OutcomeRecord == [op: Operation, outcome: Outcome]

\* The parts of a state are what its type says.
LEMMA StateParts ==
    ASSUME NEW m \in State
    PROVE  /\ m.dir \in [Tabs -> {"none", "out", "in"}]
           /\ m.member \in SUBSET Nat /\ m.version \in Nat
           /\ m.records \in SUBSET OutcomeRecord
           /\ Open(m) \subseteq Tabs
  BY DEF State, OutcomeRecord, Open

\* finish_worktree and its callers replace the outcome of one operation.
LEMMA SettledParts ==
    ASSUME NEW m \in State, NEW o \in Operation, NEW x \in Outcome
    PROVE  /\ Settled(m, o, x) \in State
           /\ Settled(m, o, x).dir = m.dir /\ Open(Settled(m, o, x)) = Open(m)
           /\ Settled(m, o, x).records =
                (m.records \ {r \in m.records : r.op = o}) \cup {[op |-> o, outcome |-> x]}
<1> DEFINE R == (m.records \ {r \in m.records : r.op = o}) \cup {[op |-> o, outcome |-> x]}
<1>1. Settled(m, o, x) = [m EXCEPT !.records = R] BY DEF Settled, Recorded
<1>2. R \in SUBSET OutcomeRecord BY StateParts DEF OutcomeRecord
<1> HIDE DEF R
<1>3. /\ [m EXCEPT !.records = R] \in State /\ [m EXCEPT !.records = R].dir = m.dir
      /\ [m EXCEPT !.records = R].records = R
  BY <1>2 DEF State, OutcomeRecord
<1> QED BY <1>1, <1>3 DEF R, Open

\* add_worktree_tab changes no outcome and opens at most the next Tab.
LEMMA AddTabParts ==
    ASSUME NEW m \in State, born \in Nat, NEW directory \in {"out", "in"}, NEW belongs \in BOOLEAN
    PROVE  /\ AddTab(m, directory, belongs) \in State
           /\ AddTab(m, directory, belongs).records = m.records
           /\ Open(m) \subseteq Open(AddTab(m, directory, belongs))
           /\ Open(AddTab(m, directory, belongs)) \subseteq Open(m) \cup {born + 1}
<1> DEFINE D == [m.dir EXCEPT ![born + 1] = directory]
           M == m.member \cup IF belongs THEN {born + 1} ELSE {}
           q == AddTab(m, directory, belongs)
<1>1. q = [m EXCEPT !.dir = D, !.member = M] BY DEF AddTab
<1>2. /\ D \in [Tabs -> {"none", "out", "in"}] /\ M \in SUBSET Nat
      /\ \A t \in Tabs : m.dir[t] # "none" => D[t] # "none"
      /\ \A t \in Tabs : D[t] # "none" => m.dir[t] # "none" \/ t = born + 1
  <2>1. m.dir \in [Tabs -> {"none", "out", "in"}] /\ m.member \in SUBSET Nat BY StateParts
  <2>2. M \in SUBSET Nat BY <2>1
  <2>3. D = [t \in Tabs |-> IF t = born + 1 THEN directory ELSE m.dir[t]] BY <2>1
  <2> HIDE DEF D, M
  <2> QED BY <2>1, <2>2, <2>3
<1> HIDE DEF D, M, q
<1>3. q \in State /\ q.records = m.records /\ q.dir = D BY <1>1, <1>2 DEF State
<1>4. Open(m) \subseteq Open(q) /\ Open(q) \subseteq Open(m) \cup {born + 1}
  BY <1>2, <1>3 DEF Open
<1> QED BY <1>3, <1>4 DEF q

\* remove_pane changes no outcome and closes these Tabs.
LEMMA RemoveTabsParts ==
    ASSUME NEW m \in State, NEW tabs
    PROVE  /\ RemoveTabs(m, tabs) \in State
           /\ RemoveTabs(m, tabs).records = m.records
           /\ Open(RemoveTabs(m, tabs)) = Open(m) \ tabs
<1> DEFINE D == [t \in Tabs |-> IF t \in tabs THEN "none" ELSE m.dir[t]]
           q == RemoveTabs(m, tabs)
<1>1. q = [m EXCEPT !.dir = D, !.member = m.member \ tabs] BY DEF RemoveTabs
<1>2. /\ D \in [Tabs -> {"none", "out", "in"}] /\ m.member \ tabs \in SUBSET Nat
      /\ \A t \in Tabs : D[t] # "none" <=> (m.dir[t] # "none" /\ t \notin tabs)
  BY StateParts
<1> HIDE DEF D, q
<1>3. q \in State /\ q.records = m.records /\ q.dir = D BY <1>1, <1>2 DEF State
<1>4. Open(q) = Open(m) \ tabs BY <1>2, <1>3 DEF Open
<1> QED BY <1>3, <1>4 DEF q

\* What the terminals tell closes the Tabs whose shell exited, and no other.
LEMMA SynchronizedParts ==
    ASSUME NEW m \in State, live \in [Tabs -> Nat], place \in [Tabs -> {"out", "in"}]
    PROVE  /\ Synchronized(m) \in State
           /\ Synchronized(m).records = m.records
           /\ Open(Synchronized(m)) = Open(m) \ exited
<1> DEFINE D == [t \in Tabs |-> IF m.dir[t] = "none" \/ t \in exited THEN "none"
                                ELSE IF live[t] # 0 THEN place[t] ELSE m.dir[t]]
           q == Synchronized(m)
<1>1. q = [m EXCEPT !.dir = D, !.member = m.member \ exited] BY DEF Synchronized
<1>2. /\ D \in [Tabs -> {"none", "out", "in"}] /\ m.member \ exited \in SUBSET Nat
      /\ \A t \in Tabs : D[t] # "none" <=> (m.dir[t] # "none" /\ t \notin exited)
  BY StateParts
<1> HIDE DEF D, q
<1>3. q \in State /\ q.records = m.records /\ q.dir = D BY <1>1, <1>2 DEF State
<1>4. Open(q) = Open(m) \ exited BY <1>2, <1>3 DEF Open
<1> QED BY <1>3, <1>4 DEF q

\* forget drops outcomes of devices without Worktree work, and no Tab.
LEMMA ForgetParts ==
    ASSUME NEW m \in State, NEW devices
    PROVE  /\ Forget(m, devices) \in State
           /\ Forget(m, devices).dir = m.dir /\ Open(Forget(m, devices)) = Open(m)
           /\ Forget(m, devices).records =
                {r \in m.records : r.op.dev \notin devices \/ PendingOf(m, r.op.dev) # {}}
<1> DEFINE R == {r \in m.records : r.op.dev \notin devices \/ PendingOf(m, r.op.dev) # {}}
<1>1. Forget(m, devices) = [m EXCEPT !.records = R] BY DEF Forget
<1>2. R \in SUBSET OutcomeRecord BY StateParts
<1> HIDE DEF R
<1>3. /\ [m EXCEPT !.records = R] \in State /\ [m EXCEPT !.records = R].dir = m.dir
      /\ [m EXCEPT !.records = R].records = R
  BY <1>2 DEF State, OutcomeRecord
<1> QED BY <1>1, <1>3 DEF R, Open

\* A removal's plan changes no outcome, closes the reviewed Tabs and may open
\* the next one.
LEMMA ClosedParts ==
    ASSUME NEW m \in State, born \in Nat
    PROVE  /\ Closed(m) \in State /\ Closed(m).records = m.records
           /\ Open(Closed(m)) \subseteq (Open(m) \cup {born + 1}) \ Closing
           /\ Open(m) \ Closing \subseteq Open(Closed(m))
           /\ ~NeedsFallback(m) => Open(Closed(m)) = Open(m) \ Closing
<1> DEFINE q == IF NeedsFallback(m) THEN AddTab(m, "out", FALSE) ELSE m
<1>1. /\ q \in State /\ q.records = m.records /\ Open(m) \subseteq Open(q)
      /\ Open(q) \subseteq Open(m) \cup {born + 1} /\ (~NeedsFallback(m) => q = m)
  <2>1. CASE NeedsFallback(m) BY <2>1, AddTabParts
  <2>2. CASE ~NeedsFallback(m) BY <2>2
  <2> QED BY <2>1, <2>2
<1>2. Closed(m) = RemoveTabs(q, Closing) BY DEF Closed
<1> HIDE DEF q
<1> QED BY <1>1, <1>2, RemoveTabsParts

-----------------------------------------------------------------------------
(* Types.                                                                  *)

RetainedTyped == mem \in State /\ disk \in State /\ failed \in BOOLEAN
HostFits(h) == h \in HostState /\ (h.at = "next" => h.todo # <<>>)
HostTyped ==
    /\ HostFits(host) /\ worker \in WorkerState /\ waiting \in Seq(Job)
    /\ forgetting \in SUBSET Devices /\ boot \in Nat
ReviewsTyped ==
    /\ approvals \in [Devices -> Review \cup {None}]
    /\ reads \in [Devices -> Review \cup {None}]
    /\ review \in [Devices -> Review \cup {None}]
    /\ confirmed \subseteq Review
ShellsTyped ==
    /\ live \in [Tabs -> Nat] /\ place \in [Tabs -> {"out", "in"}]
    /\ exited \in SUBSET Tabs
GitTyped ==
    /\ git \in SUBSET [op: Operation, done: BOOLEAN, boot: Nat]
    /\ exists \in BOOLEAN /\ did \subseteq Operation /\ ran \subseteq Operation
ClientsTyped ==
    /\ op \in [Devices -> {None} \cup [op: Operation, answer: {"none", "accepted", "failed"}]]
    /\ asked \in [Devices -> {"no", "asked", "answered"}]
    /\ revoked \in SUBSET Devices
    /\ \A d \in Devices : asked[d] # "no" => op[d] # None /\ op[d].answer = "none"
CountTyped == born \in Nat /\ count \in [{"ops", "reviews", "events"} -> Nat]

Typed ==
    /\ RetainedTyped /\ HostTyped /\ ReviewsTyped /\ ShellsTyped
    /\ GitTyped /\ ClientsTyped /\ CountTyped

\* The type invariant, in groups of variables that change together, with a
\* waiting edit whenever one is to be settled next, and an unanswered operation
\* of every client that waits for a reply.
LEMMA TypeGroups == Typed => TypeOK
  BY DEF TypeOK, Typed, RetainedTyped, HostTyped, ReviewsTyped, ShellsTyped, GitTyped,
         ClientsTyped, CountTyped, HostFits

\* commit_retained and mutate commit the next state; it is on disk unless the
\* record is uncertain, and then either state is.
LEMMA CommitParts ==
    ASSUME NEW next, NEW uncertain, CommitFrom(next, uncertain), CountTyped
    PROVE  /\ mem' = next /\ disk' \in {disk, next} /\ failed' \in BOOLEAN
           /\ ~failed' => disk' = next
           /\ count' \in [{"ops", "reviews", "events"} -> Nat]
           /\ count'["ops"] = count["ops"] /\ count'["reviews"] = count["reviews"]
<1>1. mem' = next /\ disk' \in {disk, next} /\ failed' \in BOOLEAN /\ (~failed' => disk' = next)
  BY DEF CommitFrom
<1>2. count' = count \/ count' = [count EXCEPT !["events"] = @ + 1] BY DEF CommitFrom, Count
<1>3. /\ count' \in [{"ops", "reviews", "events"} -> Nat]
      /\ count'["ops"] = count["ops"] /\ count'["reviews"] = count["reviews"]
  BY <1>2 DEF CountTyped
<1> QED BY <1>1, <1>3

\* While the lock is held, the host's place, job and remaining jobs.
LEMMA HostParts ==
    ASSUME HostFits(host), host.at # "free"
    PROVE  /\ host.job \in Job /\ host.todo \in Seq(Job)
           /\ host.at = "closed" => host.op \in Operation
           /\ host.at # "closed" => \A s : [host EXCEPT !.at = s] =
                 [at |-> s, job |-> host.job, todo |-> host.todo]
  BY DEF HostState, HostFits

\* The host's places with the lock held.
LEMMA HostPlaces ==
    ASSUME NEW job \in Job, NEW todo \in Seq(Job),
           NEW s \in {"finish", "pending", "error", "next"}, s = "next" => todo # <<>>
    PROVE  HostFits([at |-> s, job |-> job, todo |-> todo])
  BY DEF HostState, HostFits

\* A finished or running thread works for an operation.
LEMMA WorkerParts ==
    ASSUME worker \in WorkerState, worker # None
    PROVE  /\ worker.op \in Operation
           /\ worker.kind \in {"preflight", "prepared", "writing", "running", "wrote"}
           /\ worker.kind = "preflight" =>
                /\ worker.approval \in Review \cup {None} /\ worker.boot \in Nat
                /\ worker.affected \in Affected /\ worker.sources \in Sources
           /\ worker.kind = "prepared" =>
                worker.ok \in BOOLEAN /\ worker.tabs \in Affected /\ worker.sources \in Sources
           /\ worker.kind = "wrote" => worker.ok \in BOOLEAN
  BY DEF WorkerState, None

\* None is no thread's state.
LEMMA WorkerNone == None \in WorkerState /\ None.kind = "none"
  BY DEF WorkerState, None

\* Reading the record back gives a state.
LEMMA RecoveredTyped ==
    ASSUME RetainedTyped PROVE Recovered \in State /\ Recovered \in {mem, disk}
  BY DEF RetainedTyped, Recovered

\* What forgetting revoked devices leaves is a state.
LEMMA ForgottenTyped ==
    ASSUME RetainedTyped
    PROVE  AfterForgetting \in State /\ Open(AfterForgetting) \in {Open(mem), Open(disk)}
  BY RecoveredTyped, ForgetParts DEF AfterForgetting, RetainedTyped

\* Ending the processes of deleted Panes keeps the shells' types.
LEMMA EndTyped ==
    ASSUME ShellsTyped, NEW m, NEW durable, EndDeleted(m, durable)
    PROVE  ShellsTyped'
  BY DEF ShellsTyped, EndDeleted

\* ready and finish_worktrees begin with typed state.
LEMMA EnterTyped ==
    ASSUME RetainedTyped, worker \in WorkerState, NEW job \in Job, NEW todo \in Seq(Job), Enter(job, todo)
    PROVE  RetainedTyped' /\ HostFits(host')
<1>1. Stage(job, worker) \in {"finish", "pending"} BY DEF Stage
<1> QED BY <1>1, RecoveredTyped, HostPlaces DEF Enter, RetainedTyped

\* What is affected by a removal, and where Panes are, as the threads get it.
LEMMA ShownTyped ==
    ASSUME NEW m \in State, ShellsTyped
    PROVE  AffectedTabs(m) \in Affected /\ SourcesOf(m) \in Sources
<1>1. \A t \in Open(m) : t \in Tabs /\ m.dir[t] \in {"out", "in"} BY StateParts DEF Open
<1>2. AffectedTabs(m) \in Affected BY <1>1 DEF AffectedTabs, Affected, ShellsTyped
<1>3. SourcesOf(m) \in Sources BY <1>1 DEF SourcesOf, Sources
<1> QED BY <1>2, <1>3

\* The requests and what the sync worker does keep the types.
LEMMA RequestsTyped ==
    ASSUME Typed,
           \/ Write \/ Tick \/ Stop \/ NextWaiting
           \/ \E d \in Devices, resolve \in BOOLEAN : Ask(d, resolve)
    PROVE  Typed'
<1> USE DEF Typed
<1>1. CASE Write
  <2>1. RetainedTyped' BY <1>1 DEF Write, RetainedTyped
  <2>2. CountTyped' BY <1>1 DEF Write, Count, CountTyped
  <2> QED BY <1>1, <2>1, <2>2
      DEF Write, server, shells, external, clients, ghosts, HostTyped, ReviewsTyped,
          ShellsTyped, GitTyped, ClientsTyped
<1>2. CASE Tick
  <2>1. [kind |-> "tick"] \in Job /\ <<>> \in Seq(Job) BY DEF Job
  <2>2. RetainedTyped' /\ HostFits(host')
    BY <1>2, <2>1, EnterTyped DEF Tick, HostTyped
  <2> QED BY <1>2, <2>2
      DEF Tick, shells, external, clients, ghosts, HostTyped, ReviewsTyped,
          ShellsTyped, GitTyped, ClientsTyped, CountTyped
<1>3. CASE Stop
  <2>1. [kind |-> "stop"] \in Job /\ <<>> \in Seq(Job) BY DEF Job
  <2>2. RetainedTyped' /\ HostFits(host')
    BY <1>3, <2>1, EnterTyped DEF Stop, HostTyped
  <2>3. CountTyped' BY <1>3 DEF Stop, Count, CountTyped
  <2>4. ClientsTyped' BY <1>3 DEF Stop, ClientsTyped
  <2>5. ReviewsTyped' BY <1>3 DEF Stop, ReviewsTyped, ghosts
  <2>6. HostTyped' BY <1>3, <2>1, <2>2 DEF Stop, HostTyped
  <2> QED BY <1>3, <2>2, <2>3, <2>4, <2>5, <2>6
      DEF Stop, shells, external, ghosts, ShellsTyped, GitTyped
<1>4. CASE NextWaiting
  <2>1. host.todo \in Seq(Job) /\ host.todo # <<>>
    BY <1>4, HostParts DEF NextWaiting, HostTyped, HostFits
  <2>3. Head(host.todo) \in Job /\ Tail(host.todo) \in Seq(Job) BY <2>1
  <2>2. RetainedTyped' /\ HostFits(host')
    BY <1>4, <2>3, EnterTyped DEF NextWaiting, HostTyped
  <2> QED BY <1>4, <2>2
      DEF NextWaiting, shells, external, clients, ghosts, HostTyped, ReviewsTyped,
          ShellsTyped, GitTyped, ClientsTyped, CountTyped
<1>5. ASSUME NEW d \in Devices, NEW resolve \in BOOLEAN, Ask(d, resolve) PROVE Typed'
  <2>1. [kind |-> "ask", dev |-> d, resolve |-> resolve] \in Job /\ <<>> \in Seq(Job) BY DEF Job
  <2>2. RetainedTyped' /\ HostFits(host')
    BY <1>5, <2>1, EnterTyped DEF Ask, HostTyped
  <2>3. ClientsTyped' BY <1>5 DEF Ask, ClientsTyped
  <2> QED BY <1>5, <2>2, <2>3
      DEF Ask, shells, external, ghosts, HostTyped, ReviewsTyped, ShellsTyped, GitTyped, CountTyped
<1> QED BY <1>1, <1>2, <1>3, <1>4, <1>5

\* finish_worktrees goes on after it joined a thread.
LEMMA JoinedTyped ==
    ASSUME HostTyped, host.at \in {"finish", "pending"}, Joined
    PROVE  HostFits(host')
<1>1. host.job \in Job /\ host.todo \in Seq(Job) BY HostParts DEF HostTyped
<1>2. \E s \in {"error", "pending"} : host' = [host EXCEPT !.at = s] BY DEF Joined, At
<1>3. \E s \in {"error", "pending"} : host' = [at |-> s, job |-> host.job, todo |-> host.todo]
  BY <1>2, HostParts DEF HostTyped
<1> QED BY <1>1, <1>3, HostPlaces

\* The end of a request frees the lock or goes on with a waiting edit.
LEMMA DoneTyped ==
    ASSUME HostTyped, Concluding, Done PROVE HostFits(host')
<1>1. host.at \in {"error", "pending"} BY DEF Concluding
<1>2. /\ host.job \in Job /\ host.todo \in Seq(Job)
      /\ [host EXCEPT !.at = "next"] = [at |-> "next", job |-> host.job, todo |-> host.todo]
  BY <1>1, HostParts DEF HostTyped
<1>3. CASE host.todo = <<>> BY <1>3 DEF Done, Free, HostFits, HostState
<1>4. CASE host.todo # <<>> BY <1>2, <1>4, HostPlaces DEF Done
<1> QED BY <1>3, <1>4

\* A commit keeps the types.
LEMMA CommitTyped ==
    ASSUME RetainedTyped, CountTyped, NEW next \in State, NEW uncertain, CommitFrom(next, uncertain)
    PROVE  RetainedTyped' /\ count' \in [{"ops", "reviews", "events"} -> Nat]
  BY CommitParts DEF RetainedTyped

\* Joining a thread keeps the types.
LEMMA JoinsTyped ==
    ASSUME Typed, JoinFailed \/ JoinOpen \/ JoinWrite \/ JoinChanged \/ JoinWrote
    PROVE  Typed'
<1> USE DEF Typed
<1>0. worker # None /\ worker \in WorkerState /\ worker.op \in Operation
  BY WorkerParts, WorkerNone
     DEF JoinFailed, JoinOpen, JoinWrite, JoinChanged, JoinWrote, Finished, HostTyped
<1>m. mem \in State /\ disk \in State /\ born \in Nat BY DEF RetainedTyped, CountTyped
<1>s. Synchronized(mem) \in State BY <1>m, SynchronizedParts DEF ShellsTyped
<1>o. "failed" \in Outcome /\ "accepted" \in Outcome /\ TRUE \in BOOLEAN /\ FALSE \in BOOLEAN
  BY DEF Outcome
<1>n. None \in WorkerState BY WorkerNone
<1>1. CASE JoinFailed
  <2>1. Settled(mem, worker.op, "failed") \in State BY <1>0, <1>m, <1>o, SettledParts
  <2>2. RetainedTyped' /\ CountTyped'
    BY <1>1, <2>1, CommitTyped DEF JoinFailed, CommitRetained, CountTyped
  <2>3. HostTyped' BY <1>1, <1>n, JoinedTyped DEF JoinFailed, HostTyped
  <2> QED BY <1>1, <2>2, <2>3
      DEF JoinFailed, shells, external, clients, ghosts, ReviewsTyped, ShellsTyped, GitTyped, ClientsTyped
<1>2. CASE JoinOpen
  <2> DEFINE m == Synchronized(mem)
             a == AddTab(m, "in", TRUE)
  <2>1. /\ Settled(m, worker.op, "failed") \in State
        /\ Settled(a, worker.op, "accepted") \in State
    BY <1>0, <1>s, <1>m, <1>o, SettledParts, AddTabParts
  <2> HIDE DEF m, a
  <2>2. RetainedTyped' /\ CountTyped'
    <3>1. \/ CommitFrom(Settled(a, worker.op, "accepted"), failed) /\ born' = born + 1
          \/ CommitFrom(Settled(m, worker.op, "failed"), failed) /\ born' = born
      BY <1>2 DEF JoinOpen, CommitRetained, m, a
    <3> QED BY <3>1, <2>1, CommitTyped DEF CountTyped
  <2>3. HostTyped' BY <1>2, <1>n, JoinedTyped DEF JoinOpen, HostTyped
  <2>4. ShellsTyped' BY <1>2, EndTyped DEF JoinOpen
  <2> QED BY <1>2, <2>2, <2>3, <2>4
      DEF JoinOpen, external, clients, ghosts, ReviewsTyped, GitTyped, ClientsTyped
<1>3. CASE JoinWrite
  <2> DEFINE m == Synchronized(mem)
  <2>1. Closed(m) \in State BY <1>s, <1>m, ClosedParts
  <2>2. RetainedTyped' /\ CountTyped'
    BY <1>3, <2>1, CommitTyped DEF JoinWrite, CommitRetained, CountTyped
  <2>3. HostTyped'
    <3>1. host.job \in Job /\ host.todo \in Seq(Job)
      BY <1>3, HostParts DEF HostTyped, JoinWrite
    <3>2. \/ host' = [at |-> "error", job |-> host.job, todo |-> host.todo]
          \/ host' = [at |-> "closed", job |-> host.job, todo |-> host.todo, op |-> worker.op]
      BY <1>3, HostParts DEF HostTyped, JoinWrite
    <3>3. HostFits(host') BY <3>1, <3>2, <1>0 DEF HostFits, HostState
    <3> QED BY <1>3, <1>n, <3>3 DEF JoinWrite, HostTyped
  <2>4. ShellsTyped' BY <1>3, EndTyped DEF JoinWrite
  <2> QED BY <1>3, <2>2, <2>3, <2>4
      DEF JoinWrite, external, clients, ghosts, ReviewsTyped, GitTyped, ClientsTyped
<1>4. CASE JoinChanged
  <2>1. Settled(Synchronized(mem), worker.op, "failed") \in State BY <1>0, <1>s, <1>o, SettledParts
  <2>2. RetainedTyped' /\ CountTyped'
    BY <1>4, <2>1, CommitTyped DEF JoinChanged, CommitRetained, CountTyped
  <2>3. HostTyped' BY <1>4, <1>n, JoinedTyped DEF JoinChanged, HostTyped
  <2>4. ShellsTyped' BY <1>4, EndTyped DEF JoinChanged
  <2> QED BY <1>4, <2>2, <2>3, <2>4
      DEF JoinChanged, external, clients, ghosts, ReviewsTyped, GitTyped, ClientsTyped
<1>5. CASE JoinWrote
  <2> DEFINE a == AddTab(mem, "in", TRUE)
  <2>1. /\ Settled(mem, worker.op, "failed") \in State /\ Settled(mem, worker.op, "accepted") \in State
        /\ Settled(a, worker.op, "accepted") \in State
    BY <1>0, <1>m, <1>o, SettledParts, AddTabParts
  <2> HIDE DEF a
  <2>2. RetainedTyped' /\ CountTyped'
    <3>1. \/ CommitFrom(Settled(a, worker.op, "accepted"), failed) /\ born' = born + 1
          \/ CommitFrom(Settled(mem, worker.op, "accepted"), failed) /\ born' = born
          \/ CommitFrom(Settled(mem, worker.op, "failed"), failed) /\ born' = born
      BY <1>5 DEF JoinWrote, CommitRetained, a
    <3> QED BY <3>1, <2>1, CommitTyped DEF CountTyped
  <2>3. HostTyped' BY <1>5, <1>n, JoinedTyped DEF JoinWrote, HostTyped
  <2> QED BY <1>5, <2>2, <2>3
      DEF JoinWrote, shells, external, clients, ghosts, ReviewsTyped, ShellsTyped, GitTyped, ClientsTyped
<1> QED BY <1>1, <1>2, <1>3, <1>4, <1>5

\* The rest of finish_worktrees and of a tick keeps the types.
LEMMA FinishTyped ==
    ASSUME Typed, EndReviewed \/ (\E r \in Pending(mem) : SettlePending(r)) \/ ConcludeTick
    PROVE  Typed'
<1> USE DEF Typed
<1>m. mem \in State /\ disk \in State /\ born \in Nat BY DEF RetainedTyped, CountTyped
<1>o. "failed" \in Outcome BY DEF Outcome
<1>1. CASE EndReviewed
  <2>1. Recovered \in State /\ Synchronized(Recovered) \in State
    BY RecoveredTyped, SynchronizedParts DEF ShellsTyped
  <2>2. RetainedTyped' BY <1>1, <2>1, <1>m DEF EndReviewed, RetainedTyped
  <2>3. CountTyped' BY <1>1 DEF EndReviewed, CountTyped, Count
  <2>4. ShellsTyped'
    <3>1. (\E m, durable : EndDeleted(m, durable)) \/ UNCHANGED shells BY <1>1 DEF EndReviewed
    <3> QED BY <3>1, EndTyped DEF shells, ShellsTyped
  <2>5. host.job \in Job /\ host.todo \in Seq(Job) /\ host.op \in Operation
    BY <1>1, HostParts DEF HostTyped, EndReviewed
  <2>6. worker' \in WorkerState
    BY <1>1, <2>5 DEF EndReviewed, HostTyped, WorkerState
  <2>7. HostFits(host')
    <3>1. \E s \in {"finish", "pending", "error"} :
             host' = [at |-> s, job |-> host.job, todo |-> host.todo]
      BY <1>1 DEF EndReviewed, Stage
    <3> QED BY <3>1, <2>5, HostPlaces
  <2> QED BY <1>1, <2>2, <2>3, <2>4, <2>6, <2>7
      DEF EndReviewed, external, clients, ghosts, HostTyped, ReviewsTyped, GitTyped, ClientsTyped
<1>2. ASSUME NEW r \in Pending(mem), SettlePending(r) PROVE Typed'
  <2>0. r.op \in Operation BY <1>m, StateParts DEF Pending, OutcomeRecord
  <2>1. Settled(mem, r.op, "failed") \in State BY <2>0, <1>m, <1>o, SettledParts
  <2>2. RetainedTyped' /\ CountTyped'
    <3>1. CASE CommitFrom(Settled(mem, r.op, "failed"), failed)
      BY <1>2, <3>1, <2>1, CommitTyped DEF SettlePending, CountTyped
    <3>2. CASE UNCHANGED <<retained, count>>
      BY <1>2, <3>2 DEF SettlePending, CountTyped, RetainedTyped, retained
    <3> QED BY <1>2, <3>1, <3>2 DEF SettlePending, CommitRetained
  <2>3. HostFits(host')
    <3>1. \E s \in {"error", "pending"} : host' = [host EXCEPT !.at = s]
      BY <1>2 DEF SettlePending, At
    <3>2. \E s \in {"error", "pending"} : host' = [at |-> s, job |-> host.job, todo |-> host.todo]
      BY <1>2, <3>1, HostParts DEF HostTyped, SettlePending
    <3>3. host.job \in Job /\ host.todo \in Seq(Job)
      BY <1>2, HostParts DEF HostTyped, SettlePending
    <3> QED BY <3>2, <3>3, HostPlaces
  <2> QED BY <1>2, <2>2, <2>3
      DEF SettlePending, shells, external, clients, ghosts, HostTyped, ReviewsTyped, ShellsTyped,
          GitTyped, ClientsTyped
<1>3. CASE ConcludeTick
  <2> DEFINE base == IF StillUncertain THEN disk ELSE AfterForgetting
  <2>1. base \in State BY <1>m, ForgottenTyped
  <2> HIDE DEF base
  <2>2. Synchronized(base) \in State BY <2>1, SynchronizedParts DEF ShellsTyped
  <2>3. RetainedTyped' BY <1>3, <2>2 DEF ConcludeTick, RetainedTyped, base
  <2>4. ShellsTyped' BY <1>3, EndTyped DEF ConcludeTick
  <2>5. StillForgetting \in SUBSET Devices BY DEF StillForgetting, HostTyped
  <2>6. HostFits(host') /\ waiting' \in Seq(Job)
    <3>1. host.job \in Job BY <1>3, HostParts DEF ConcludeTick, Concluding, HostTyped
    <3>2. CASE host' = Free /\ UNCHANGED waiting
      BY <3>2 DEF HostTyped, HostFits, HostState, Free
    <3>3. CASE waiting # <<>> /\ waiting' = <<>> /\ host' = [at |-> "next", job |-> host.job, todo |-> waiting]
      <4>1. waiting \in Seq(Job) /\ <<>> \in Seq(Job) BY DEF HostTyped
      <4>2. HostFits([at |-> "next", job |-> host.job, todo |-> waiting])
        BY <3>1, <3>3, <4>1, HostPlaces
      <4> QED BY <3>3, <4>1, <4>2
    <3> QED BY <1>3, <3>2, <3>3 DEF ConcludeTick
  <2> QED BY <1>3, <2>3, <2>4, <2>5, <2>6
      DEF ConcludeTick, external, clients, ghosts, HostTyped, ReviewsTyped, GitTyped, ClientsTyped, CountTyped
<1> QED BY <1>1, <1>2, <1>3

\* A client's edit, in hand, is an operation of it.  (It asked, and still waits.)
AskedTyped ==
    Asking => /\ host.job.dev \in Devices /\ op[host.job.dev] # None
              /\ op[host.job.dev].answer = "none"

\* Settling an edit keeps the types.
LEMMA EditsTyped ==
    ASSUME Typed, AskedTyped, AskRefused \/ AskRecorded \/ AskEdit \/ BeginWorktree
    PROVE  Typed'
<1> USE DEF Typed
<1>m. mem \in State /\ disk \in State /\ born \in Nat BY DEF RetainedTyped, CountTyped
<1>f. AfterForgetting \in State /\ StillForgetting \in SUBSET Devices /\ StillUncertain \in BOOLEAN
  BY ForgottenTyped DEF StillForgetting, HostTyped, StillUncertain, RetainedTyped
<1>j. /\ host.job.dev \in Devices /\ Asked \in Operation /\ Asking
      /\ op[host.job.dev] # None /\ op[host.job.dev].answer = "none"
  BY DEF AskedTyped, AskRefused, AskRecorded, AskEdit, BeginWorktree, New, ClientsTyped, Asked
<1>h. HostTyped /\ Concluding /\ host.job \in Job /\ host.at # "free"
  BY <1>j, HostParts DEF Asking, Concluding, HostTyped
<1>o. "failed" \in Outcome /\ "accepted" \in Outcome /\ "pending" \in Outcome BY DEF Outcome
<1>w. Append(waiting, host.job) \in Seq(Job) BY <1>h DEF HostTyped
<1>1. CASE AskRefused
  <2>1. HostTyped' BY <1>1, <1>f, <1>h, DoneTyped DEF AskRefused, Refused, HostTyped, RestOfAsk
  <2>2. ClientsTyped' BY <1>1, <1>j DEF AskRefused, Refused, RestOfAsk, ClientsTyped
  <2> QED BY <1>1, <1>f, <1>m, <2>1, <2>2
      DEF AskRefused, RestOfAsk, shells, external, ghosts, RetainedTyped, ReviewsTyped, ShellsTyped, GitTyped, CountTyped
<1>2. CASE AskRecorded
  <2>1. Done /\ waiting' \in {waiting, Append(waiting, host.job)} /\
        asked' \in {asked, [asked EXCEPT ![host.job.dev] = "answered"]}
    BY <1>2 DEF AskRecorded, Waits
  <2>2. HostTyped' BY <1>2, <2>1, <1>f, <1>h, <1>w, DoneTyped DEF AskRecorded, HostTyped, RestOfAsk
  <2>3. ClientsTyped' BY <1>2, <2>1, <1>j DEF AskRecorded, RestOfAsk, ClientsTyped
  <2> QED BY <1>2, <1>f, <1>m, <2>2, <2>3
      DEF AskRecorded, RestOfAsk, shells, external, ghosts, RetainedTyped, ReviewsTyped, ShellsTyped, GitTyped, CountTyped
<1>3. CASE AskEdit
  <2> DEFINE m == AfterForgetting
             a == AddTab(m, "out", FALSE)
             v == Settled(m, Asked, "accepted")
  <2>1. /\ Settled(a, Asked, "accepted") \in State /\ Settled(m, Asked, "failed") \in State
        /\ v \in State
    BY <1>f, <1>m, <1>j, <1>o, SettledParts, AddTabParts
  <2>2. [v EXCEPT !.version = @ + 1] \in State
    <3> HIDE DEF v
    <3> QED BY <2>1 DEF State
  <2>3. mem' \in {Settled(a, Asked, "accepted"), Settled(m, Asked, "failed"), [v EXCEPT !.version = @ + 1]}
    BY <1>3 DEF AskEdit
  <2> HIDE DEF m, a, v
  <2>4. RetainedTyped' BY <1>3, <2>1, <2>2, <2>3, <1>m, <1>f DEF AskEdit, RetainedTyped
  <2>5. CountTyped'
    <3>1. born' \in {born, born + 1} /\ count' = count BY <1>3 DEF AskEdit
    <3> QED BY <3>1 DEF CountTyped
  <2>6. HostTyped' BY <1>3, <1>f, <1>h, DoneTyped DEF AskEdit, HostTyped, RestOfAsk
  <2>7. ClientsTyped' BY <1>3, <1>j DEF AskEdit, RestOfAsk, ClientsTyped
  <2> QED BY <1>3, <2>4, <2>5, <2>6, <2>7
      DEF AskEdit, RestOfAsk, shells, external, ghosts, ReviewsTyped, ShellsTyped, GitTyped
<1>4. CASE BeginWorktree
  <2>1. Settled(AfterForgetting, Asked, "pending") \in State BY <1>f, <1>j, <1>o, SettledParts
  <2>2. RetainedTyped' /\ CountTyped'
    BY <1>4, <2>1, CommitTyped DEF BeginWorktree, CountTyped
  <2>3. ClientsTyped' BY <1>4, <1>j DEF BeginWorktree, Refused, RestOfAsk, ClientsTyped
  <2>4. HostFits(host') BY <1>4, <1>h, DoneTyped DEF BeginWorktree, Refused, Waits
  <2>5. worker' \in WorkerState
    <3> DEFINE v == IF Asked.kind = "remove" /\ approvals[Asked.dev] # None
                              /\ approvals[Asked.dev].conf = Asked.conf
                           THEN approvals[Asked.dev] ELSE None
    <3>1. v \in Review \cup {None} BY <1>j DEF ReviewsTyped, Operation
    <3>2. AffectedTabs(AfterForgetting) \in Affected /\ SourcesOf(AfterForgetting) \in Sources
      BY <1>f, ShownTyped
    <3>3. CASE worker' = worker BY <3>3 DEF HostTyped
    <3>4. CASE worker' = [kind |-> "preflight", op |-> Asked, approval |-> v, boot |-> boot,
                          affected |-> AffectedTabs(AfterForgetting),
                          sources |-> SourcesOf(AfterForgetting)]
      <4> HIDE DEF v
      <4> QED BY <3>1, <3>2, <3>4, <1>j DEF HostTyped, WorkerState
    <3> QED BY <1>4, <3>3, <3>4 DEF BeginWorktree
  <2>6. HostTyped' BY <1>4, <1>f, <1>w, <2>4, <2>5 DEF BeginWorktree, Waits, HostTyped, RestOfAsk
  <2> QED BY <1>4, <2>2, <2>3, <2>6
      DEF BeginWorktree, RestOfAsk, shells, external, ghosts, ReviewsTyped, ShellsTyped, GitTyped
<1> QED BY <1>1, <1>2, <1>3, <1>4

\* retain, when a client has one waiting edit at most: the others stay, in their
\* order.
LEMMA WithoutParts ==
    ASSUME NEW jobs \in Seq(Job), NEW d
    PROVE  /\ Without(jobs, d) \in Seq(Job)
           /\ \/ Without(jobs, d) = jobs /\ \A i \in DOMAIN jobs : jobs[i].dev # d
              \/ \E k \in DOMAIN jobs :
                    /\ jobs[k].dev = d
                    /\ Len(Without(jobs, d)) = Len(jobs) - 1
                    /\ \A i \in 1..(Len(jobs) - 1) :
                          Without(jobs, d)[i] = IF i < k THEN jobs[i] ELSE jobs[i + 1]
<1> DEFINE his == {i \in DOMAIN jobs : jobs[i].dev = d}
<1>1. CASE his = {} BY <1>1 DEF Without
<1>2. CASE his # {}
  <2> DEFINE k == CHOOSE i \in his : TRUE
             w == Without(jobs, d)
             a == SubSeq(jobs, 1, k - 1)
             b == SubSeq(jobs, k + 1, Len(jobs))
  <2>1. k \in his BY <1>2
  <2>2. w = a \o b BY <1>2 DEF Without, RemoveAt
  <2>3. k \in 1..Len(jobs) /\ jobs[k].dev = d /\ Len(jobs) \in Nat BY <2>1
  <2> HIDE DEF k, w
  <2>4. /\ a \in Seq(Job) /\ Len(a) = k - 1 /\ \A i \in 1..(k - 1) : a[i] = jobs[i]
    BY <2>3
  <2>5. /\ b \in Seq(Job) /\ Len(b) = Len(jobs) - k
        /\ \A i \in 1..(Len(jobs) - k) : b[i] = jobs[k + i]
    BY <2>3
  <2> HIDE DEF a, b
  <2>6. w \in Seq(Job) /\ Len(w) = Len(jobs) - 1 BY <2>2, <2>3, <2>4, <2>5
  <2>7. ASSUME NEW i \in 1..(Len(jobs) - 1)
        PROVE  w[i] = IF i < k THEN jobs[i] ELSE jobs[i + 1]
    <3>1. CASE i < k BY <3>1, <2>2, <2>3, <2>4, <2>5
    <3>2. CASE i >= k
      <4>0. i \in 1..(Len(a) + Len(b)) /\ i > Len(a) /\ ~(i <= Len(a))
        BY <3>2, <2>3, <2>4, <2>5
      <4>4. Len(a) \in Nat /\ Len(b) \in Nat /\ i \in Nat BY <2>4, <2>5
      <4>5. i \in (Len(a) + 1)..(Len(a) + Len(b)) BY <4>0, <4>4
      <4>3. (a \o b)[i] = b[i - Len(a)] BY <4>0, <4>5, <2>4, <2>5
      <4>1. w[i] = b[i - (k - 1)] BY <4>3, <2>2, <2>4
      <4>2. i - (k - 1) \in 1..(Len(jobs) - k) /\ k + (i - (k - 1)) = i + 1 BY <3>2, <2>3
      <4> QED BY <3>2, <4>1, <4>2, <2>3, <2>5
    <3> QED BY <3>1, <3>2, <2>3
  <2> QED BY <2>3, <2>6, <2>7 DEF w
<1> QED BY <1>1, <1>2

\* Threads, Git and removal checks keep the types.
LEMMA ThreadsTyped ==
    ASSUME Typed,
           \/ \E ok \in BOOLEAN : Preflight(ok)
           \/ GitStarts
           \/ \E c \in git : GitActs(c) \/ \E ok \in BOOLEAN : GitExits(c, ok)
           \/ \E d \in Devices : BeginRead(d) \/ ReadSettles(d)
    PROVE  Typed'
<1> USE DEF Typed
<1>w. worker \in WorkerState BY DEF HostTyped
<1>1. ASSUME NEW ok \in BOOLEAN, Preflight(ok) PROVE Typed'
  <2>1. /\ worker # None /\ worker.op \in Operation /\ worker.sources \in Sources
        /\ worker.approval \in Review \cup {None}
    BY <1>1, <1>w, WorkerParts, WorkerNone DEF Preflight
  <2>2. (IF ok /\ worker.op.kind = "remove" THEN worker.approval.tabs ELSE {}) \in Affected
    <3>1. CASE ok /\ worker.op.kind = "remove"
      <4>1. worker.approval # None BY <1>1, <3>1 DEF Preflight, Passes
      <4> QED BY <3>1, <4>1, <2>1 DEF Review
    <3>2. CASE ~(ok /\ worker.op.kind = "remove") BY <3>2 DEF Affected
    <3> QED BY <3>1, <3>2
  <2>3. worker' \in WorkerState BY <1>1, <2>1, <2>2 DEF Preflight, WorkerState
  <2> QED BY <1>1, <2>3
      DEF Preflight, retained, shells, external, clients, ghosts, RetainedTyped, HostTyped, ReviewsTyped,
          ShellsTyped, GitTyped, ClientsTyped, CountTyped
<1>2. CASE GitStarts
  <2>1. worker.op \in Operation BY <1>2, <1>w, WorkerParts, WorkerNone DEF GitStarts
  <2>2. worker' \in WorkerState BY <1>2, <2>1 DEF GitStarts, WorkerState
  <2>4. [op |-> worker.op, done |-> FALSE, boot |-> boot] \in [op: Operation, done: BOOLEAN, boot: Nat]
    BY <2>1 DEF HostTyped
  <2>3. GitTyped' BY <1>2, <2>1, <2>4 DEF GitStarts, GitTyped
  <2> QED BY <1>2, <2>2, <2>3
      DEF GitStarts, retained, shells, clients, RetainedTyped, HostTyped, ReviewsTyped,
          ShellsTyped, ClientsTyped, CountTyped
<1>3. ASSUME NEW c \in git, GitActs(c) PROVE Typed'
  <2>1. c \in [op: Operation, done: BOOLEAN, boot: Nat] BY DEF GitTyped
  <2>2. [c EXCEPT !.done = TRUE] \in [op: Operation, done: BOOLEAN, boot: Nat] BY <2>1
  <2>3. GitTyped' BY <1>3, <2>1, <2>2 DEF GitActs, GitTyped
  <2> QED BY <1>3, <2>3
      DEF GitActs, retained, server, shells, clients, RetainedTyped, HostTyped, ReviewsTyped,
          ShellsTyped, ClientsTyped, CountTyped
<1>4. ASSUME NEW c \in git, NEW ok \in BOOLEAN, GitExits(c, ok) PROVE Typed'
  <2>1. worker' \in WorkerState
    <3>1. CASE worker' = worker BY <3>1, <1>w
    <3>2. CASE worker.kind = "running" /\ worker' = [kind |-> "wrote", op |-> worker.op, ok |-> ok]
      <4>1. worker.op \in Operation BY <3>2, <1>w, WorkerParts, WorkerNone
      <4> QED BY <3>2, <4>1 DEF WorkerState
    <3> QED BY <1>4, <3>1, <3>2 DEF GitExits
  <2>2. GitTyped' BY <1>4 DEF GitExits, GitTyped, ghosts
  <2> QED BY <1>4, <2>1, <2>2
      DEF GitExits, retained, shells, clients, ghosts, RetainedTyped, HostTyped, ReviewsTyped,
          ShellsTyped, ClientsTyped, CountTyped
<1>5. ASSUME NEW d \in Devices, BeginRead(d) PROVE Typed'
  <2> DEFINE v == [conf |-> count["reviews"] + 1, boot |-> boot, tabs |-> AffectedTabs(mem)]
  <2>1. AffectedTabs(mem) \in Affected BY ShownTyped DEF RetainedTyped
  <2>2. count["reviews"] + 1 \in 1..MaxReviews
    BY <1>5, WorktreesAssumption DEF BeginRead, CountTyped
  <2>3. v \in Review BY <2>1, <2>2 DEF Review, HostTyped
  <2>4. reads' = [reads EXCEPT ![d] = v] BY <1>5 DEF BeginRead
  <2> HIDE DEF v
  <2>5. ReviewsTyped' BY <1>5, <2>3, <2>4 DEF BeginRead, ReviewsTyped, clients, ghosts
  <2>6. CountTyped' BY <1>5 DEF BeginRead, CountTyped, Count
  <2> QED BY <1>5, <2>5, <2>6
      DEF BeginRead, retained, shells, external, clients, ghosts, RetainedTyped, HostTyped,
          ShellsTyped, GitTyped, ClientsTyped
<1>6. ASSUME NEW d \in Devices, ReadSettles(d) PROVE Typed'
  <2>1. ReviewsTyped' BY <1>6 DEF ReadSettles, ReviewsTyped, ghosts
  <2> QED BY <1>6, <2>1
      DEF ReadSettles, retained, shells, external, ghosts, RetainedTyped, HostTyped,
          ShellsTyped, GitTyped, ClientsTyped, CountTyped
<1> QED BY <1>1, <1>2, <1>3, <1>4, <1>5, <1>6

\* Shells keep the types.
LEMMA ShellStepsTyped ==
    ASSUME Typed, \E t \in Tabs : Cd(t) \/ Exit(t) \/ StartShell(t)
    PROVE  Typed'
<1> USE DEF Typed
<1>0. PICK t \in Tabs : Cd(t) \/ Exit(t) \/ StartShell(t) OBVIOUS
<1>1. CASE Cd(t)
  <2>1. ShellsTyped' BY <1>1 DEF Cd, ShellsTyped
  <2>2. CountTyped' BY <1>1 DEF Cd, Count, CountTyped
  <2> QED BY <1>1, <2>1, <2>2
      DEF Cd, retained, server, external, clients, ghosts, RetainedTyped, HostTyped, ReviewsTyped,
          GitTyped, ClientsTyped
<1>2. CASE Exit(t)
  <2>1. ShellsTyped' BY <1>2 DEF Exit, ShellsTyped
  <2>2. CountTyped' BY <1>2 DEF Exit, Count, CountTyped
  <2> QED BY <1>2, <2>1, <2>2
      DEF Exit, retained, server, external, clients, ghosts, RetainedTyped, HostTyped, ReviewsTyped,
          GitTyped, ClientsTyped
<1>3. CASE StartShell(t)
  <2>0. mem.dir[t] \in {"out", "in"} /\ count["events"] + 2 \in Nat
    BY <1>3, StateParts DEF StartShell, Open, RetainedTyped, CountTyped
  <2>1. ShellsTyped' BY <1>3, <2>0 DEF StartShell, ShellsTyped
  <2>2. CountTyped' BY <1>3 DEF StartShell, Count, CountTyped
  <2> QED BY <1>3, <2>1, <2>2
      DEF StartShell, retained, server, external, clients, ghosts, RetainedTyped, HostTyped, ReviewsTyped,
          GitTyped, ClientsTyped
<1> QED BY <1>0, <1>1, <1>2, <1>3

\* Clients and revocation keep the types.
LEMMA ClientStepsTyped ==
    ASSUME Typed, NEW d \in Devices,
           (\E kind \in Kinds : Begin(d, kind)) \/ Deliver(d) \/ Acknowledge(d) \/ Revoke(d)
    PROVE  Typed'
<1> USE DEF Typed
<1>1. ASSUME NEW kind \in Kinds, Begin(d, kind) PROVE Typed'
  <2> DEFINE o == [dev |-> d, seq |-> count["ops"] + 1, kind |-> kind,
                   conf |-> IF kind = "remove" THEN review[d].conf ELSE 0,
                   version |-> IF kind = "location" THEN disk.version ELSE 0]
  <2>1. count["ops"] + 1 \in 1..MaxOps BY <1>1, WorktreesAssumption DEF Begin, CountTyped
  <2>2. (IF kind = "remove" THEN review[d].conf ELSE 0) \in 0..MaxReviews
    <3>1. CASE kind = "remove"
      <4>1. review[d] \in Review BY <1>1, <3>1 DEF Begin, ReviewsTyped
      <4> QED BY <3>1, <4>1, WorktreesAssumption DEF Review
    <3>2. CASE kind # "remove" BY <3>2, WorktreesAssumption
    <3> QED BY <3>1, <3>2
  <2>3. (IF kind = "location" THEN disk.version ELSE 0) \in Nat BY StateParts DEF RetainedTyped
  <2>4. kind \in {"open", "create", "remove", "location", "edit"} BY WorktreesAssumption
  <2>5. o \in Operation BY <2>1, <2>2, <2>3, <2>4 DEF Operation
  <2>6. op' = [op EXCEPT ![d] = [op |-> o, answer |-> "none"]] BY <1>1 DEF Begin
  <2>7. \A v \in confirmed' : v \in confirmed \/ (v = review[d] /\ review[d] # None)
    BY <1>1 DEF Begin
  <2> HIDE DEF o
  <2>8. ClientsTyped' BY <1>1, <2>5, <2>6 DEF Begin, ClientsTyped
  <2>9. ReviewsTyped' BY <1>1, <2>7 DEF Begin, ReviewsTyped, server
  <2>10. CountTyped' BY <1>1 DEF Begin, Count, CountTyped
  <2> QED BY <1>1, <2>8, <2>9, <2>10
      DEF Begin, retained, server, shells, external, RetainedTyped, HostTyped, ShellsTyped, GitTyped
<1>2. CASE Deliver(d)
  <2>1. ClientsTyped'
    <3>1. asked' = [asked EXCEPT ![d] = "no"] /\ revoked' = revoked BY <1>2 DEF Deliver
    <3>2. op' = op \/ \E x \in {"accepted", "failed"} : op' = [op EXCEPT ![d].answer = x]
      BY <1>2, StateParts DEF Deliver, Recorded, RetainedTyped, OutcomeRecord, Outcome
    <3>3. op' \in [Devices -> {None} \cup [op: Operation, answer: {"none", "accepted", "failed"}]]
      <4>1. CASE op' = op BY <4>1 DEF ClientsTyped
      <4>2. ASSUME NEW x \in {"accepted", "failed"}, op' = [op EXCEPT ![d].answer = x], op[d] # None
            PROVE  op' \in [Devices -> {None} \cup [op: Operation, answer: {"none", "accepted", "failed"}]]
        BY <4>2 DEF ClientsTyped
      <4>3. op[d] # None BY <1>2 DEF Deliver, ClientsTyped
      <4> QED BY <3>2, <4>1, <4>2, <4>3
    <3>4. \A e \in Devices : e # d => op'[e] = op[e] BY <3>2 DEF ClientsTyped
    <3> QED BY <3>1, <3>3, <3>4 DEF ClientsTyped
  <2> QED BY <1>2, <2>1
      DEF Deliver, retained, server, shells, external, ghosts, RetainedTyped, HostTyped, ReviewsTyped,
          ShellsTyped, GitTyped, CountTyped
<1>3. CASE Acknowledge(d)
  <2> DEFINE R == {r \in Recovered.records : r.op.dev # d \/ r.op.seq > op[d].op.seq}
  <2>1. Recovered \in State /\ R \in SUBSET OutcomeRecord BY RecoveredTyped, StateParts
  <2>2. mem' = [Recovered EXCEPT !.records = R] BY <1>3 DEF Acknowledge
  <2> HIDE DEF R
  <2>3. mem' \in State BY <2>1, <2>2 DEF State, OutcomeRecord
  <2>4. RetainedTyped' BY <1>3, <2>3 DEF Acknowledge, RetainedTyped
  <2>5. ClientsTyped' BY <1>3 DEF Acknowledge, ClientsTyped
  <2> QED BY <1>3, <2>4, <2>5
      DEF Acknowledge, server, shells, external, ghosts, HostTyped, ReviewsTyped,
          ShellsTyped, GitTyped, CountTyped
<1>4. CASE Revoke(d)
  <2>1. Forget(Recovered, {d}) \in State BY RecoveredTyped, ForgetParts
  <2>2. RetainedTyped' BY <1>4, <2>1 DEF Revoke, RetainedTyped
  <2>3. ClientsTyped' BY <1>4 DEF Revoke, ClientsTyped
  <2>4. ReviewsTyped' BY <1>4 DEF Revoke, ReviewsTyped, ghosts
  <2>5. waiting' \in Seq(Job) BY <1>4, WithoutParts DEF Revoke, HostTyped
  <2>6. HostTyped' BY <1>4, <2>5 DEF Revoke, HostTyped
  <2> QED BY <1>4, <2>2, <2>3, <2>4, <2>6
      DEF Revoke, shells, external, ghosts, ShellsTyped, GitTyped, CountTyped
<1> QED BY <1>1, <1>2, <1>3, <1>4

\* A new server's state has the types.
LEMMA RebootTyped ==
    ASSUME Typed, NEW record \in State, Reboot(record),
           count' \in [{"ops", "reviews", "events"} -> Nat]
    PROVE  Typed'
<1> USE DEF Typed
<1> DEFINE first == IF Open(record) = {} THEN AddTab(record, "out", FALSE) ELSE record
<1>1. first \in State BY AddTabParts DEF CountTyped
<1> HIDE DEF first
<1>2. Forget(first, revoked) \in State BY <1>1, ForgetParts
<1>3. RetainedTyped' BY <1>1, <1>2 DEF Reboot, RetainedTyped, first
<1>4. HostTyped'
  <2>1. HostFits(host') BY DEF Reboot, Free, HostFits, HostState
  <2>2. worker' \in WorkerState /\ boot' \in Nat /\ waiting' \in Seq(Job)
    BY WorkerNone DEF Reboot, HostTyped
  <2>3. forgetting' \in SUBSET Devices BY DEF Reboot, ClientsTyped
  <2> QED BY <2>1, <2>2, <2>3 DEF HostTyped
<1>5. ReviewsTyped' BY DEF Reboot, ReviewsTyped, ghosts
<1>6. ShellsTyped' BY DEF Reboot, ShellsTyped
<1>7. GitTyped' BY DEF Reboot, GitTyped, external, ghosts
<1>8. ClientsTyped' BY DEF Reboot, ClientsTyped
<1>9. CountTyped' BY DEF Reboot, CountTyped
<1> QED BY <1>3, <1>4, <1>5, <1>6, <1>7, <1>8, <1>9

\* Every step keeps the types.
LEMMA TypedInductive ==
    ASSUME Typed, AskedTyped, [Next]_vars
    PROVE  Typed'
<1>1. CASE UNCHANGED vars
  BY <1>1 DEF vars, retained, server, shells, external, clients, ghosts, Typed, RetainedTyped,
     HostTyped, ReviewsTyped, ShellsTyped, GitTyped, ClientsTyped, CountTyped
<1>2. CASE Crash
  <2>1. count' \in [{"ops", "reviews", "events"} -> Nat]
    BY <1>2 DEF Crash, Count, Typed, CountTyped
  <2> QED BY <1>2, <2>1, RebootTyped DEF Crash, Typed, RetainedTyped
<1>3. CASE ConcludeStop
  <2> DEFINE record == IF host.at = "pending" /\ ~StillUncertain THEN AfterForgetting ELSE disk
  <2>1. record \in State BY ForgottenTyped DEF Typed, RetainedTyped
  <2>2. Reboot(record) /\ count' = count BY <1>3 DEF ConcludeStop
  <2> HIDE DEF record
  <2> QED BY <2>1, <2>2, RebootTyped DEF Typed, CountTyped
<1>4. CASE HostStep /\ ~ConcludeStop
  BY <1>4, RequestsTyped, JoinsTyped, FinishTyped, EditsTyped DEF HostStep
<1>5. CASE \E d \in Devices : (\E kind \in Kinds : Begin(d, kind)) \/ Deliver(d) \/ Acknowledge(d) \/ Revoke(d)
  BY <1>5, ClientStepsTyped
<1> QED BY <1>1, <1>2, <1>3, <1>4, <1>5, RequestsTyped, ThreadsTyped, ShellStepsTyped DEF Next

-----------------------------------------------------------------------------
(* Edits in hand, about to be settled, and waiting.                        *)

\* The places with a request in hand.
Held == {"finish", "pending", "error", "closed"}

\* The same as Asks, of these answers and operations.
AskedBy(job, replies, ops) ==
    /\ job.kind = "ask" /\ replies[job.dev] = "asked"
    /\ ops[job.dev] # None /\ ops[job.dev].answer = "none"

\* A job that asks names a device.
LEMMA JobParts ==
    ASSUME NEW job \in Job, job.kind = "ask"
    PROVE  job.dev \in Devices /\ job.resolve \in BOOLEAN
  BY DEF Job

\* The jobs there are.
LEMMA JobsTyped ==
    ASSUME HostTyped
    PROVE  /\ \A job \in InHand : job \in Job /\ job.kind = "ask"
           /\ Todo \in Seq(Job) /\ waiting \in Seq(Job)
           /\ host.at \in {"free", "next"} \cup Held
           /\ host.at = "free" => host = Free
  BY HostParts DEF HostTyped, HostFits, HostState, InHand, Todo, Held, Free

\* A step that keeps the jobs, and what the clients that asked wait for.
LEMMA JobsKept ==
    ASSUME HostTyped, JobsAreAsked, UNCHANGED waiting,
           \/ host' = host
           \/ /\ host.at \in Held /\ host'.at \in Held
              /\ host'.job = host.job /\ host'.todo = host.todo,
           \A d \in Devices : asked[d] = "asked" => asked'[d] = "asked" /\ op'[d] = op[d]
    PROVE  JobsAreAsked'
<1>1. InHand' = InHand /\ Todo' = Todo /\ (host'.at = "next" => host'.todo # <<>>)
  BY DEF InHand, Todo, Held, JobsAreAsked
<1>2. \A job \in Job : Asks(job) => Asks(job)' BY JobParts DEF Asks
<1>3. /\ \A job \in InHand : job \in Job
      /\ \A i \in DOMAIN Todo : Todo[i] \in Job
      /\ \A i \in DOMAIN waiting : waiting[i] \in Job
  BY JobsTyped
<1> QED BY <1>1, <1>2, <1>3 DEF JobsAreAsked

\* A request that takes the lock.
LEMMA JobsEnter ==
    ASSUME HostTyped, JobsAreAsked, NEW job \in Job, NEW todo \in Seq(Job), Enter(job, todo)
    PROVE  /\ host'.at \in {"finish", "pending"}
           /\ InHand' = (IF job.kind = "ask" THEN {job} ELSE {}) /\ Todo' = todo
  BY DEF Enter, Stage, InHand, Todo

\* The requests keep the jobs in order.
LEMMA RequestJobs ==
    ASSUME Typed, JobsAreAsked,
           \/ Tick \/ Stop \/ NextWaiting
           \/ \E d \in Devices, resolve \in BOOLEAN : Ask(d, resolve)
    PROVE  JobsAreAsked'
<1> USE DEF Typed
<1>t. /\ Todo \in Seq(Job) /\ waiting \in Seq(Job)
      /\ (host.at = "free" => Todo = <<>> /\ InHand = {})
  BY JobsTyped DEF Todo, InHand
<1>e. <<>> \in Seq(Job) /\ DOMAIN <<>> = {} OBVIOUS
<1>1. CASE Tick
  <2>1. [kind |-> "tick"] \in Job /\ [kind |-> "tick"].kind # "ask" BY DEF Job
  <2>2. InHand' = {} /\ Todo' = <<>> /\ host'.at # "next"
    BY <1>1, <1>e, <2>1, JobsEnter DEF Tick
  <2>3. UNCHANGED <<waiting, asked, op>> BY <1>1 DEF Tick, clients
  <2> QED BY <1>e, <2>2, <2>3 DEF JobsAreAsked, Asks
<1>2. CASE Stop
  <2>1. [kind |-> "stop"] \in Job /\ [kind |-> "stop"].kind # "ask" BY DEF Job
  <2>2. InHand' = {} /\ Todo' = <<>> /\ host'.at # "next"
    BY <1>2, <1>e, <2>1, JobsEnter DEF Stop
  <2>3. waiting' = <<>> BY <1>2 DEF Stop
  <2> QED BY <1>e, <2>2, <2>3 DEF JobsAreAsked
<1>3. CASE NextWaiting
  <2>0. host.at = "next" /\ Todo = host.todo /\ Todo # <<>> /\ InHand = {}
    BY <1>3 DEF NextWaiting, Todo, InHand, JobsAreAsked
  <2> DEFINE j == Head(Todo)
             n == Tail(Todo)
  <2>1. /\ j = Todo[1] /\ 1 \in DOMAIN Todo /\ n \in Seq(Job) /\ j \in Job
        /\ \A i \in DOMAIN n : i + 1 \in DOMAIN Todo /\ n[i] = Todo[i + 1] /\ i + 1 # 1 /\ i \in Nat
    BY <1>t, <2>0
  <2>2. Enter(j, n) /\ UNCHANGED <<waiting, asked, op>> BY <1>3, <2>0 DEF NextWaiting, clients
  <2> HIDE DEF j, n
  <2>3. j.kind = "ask" /\ Asks(j) BY <2>1 DEF JobsAreAsked, Asks
  <2>4. InHand' = {j} /\ Todo' = n /\ host'.at # "next" BY <2>1, <2>2, <2>3, JobsEnter
  <2>5. \A job : Asks(job) => AskedBy(job, asked', op') BY <2>2 DEF Asks, AskedBy
  <2>6. \A i \in DOMAIN n : AskedBy(n[i], asked', op') /\ n[i].dev # j.dev
    BY <2>1, <2>5 DEF JobsAreAsked
  <2>10. \A i \in DOMAIN waiting : AskedBy(waiting[i], asked', op') BY <2>5 DEF JobsAreAsked
  <2>11. AskedBy(j, asked', op') BY <2>3, <2>5
  <2>7. \A i, k \in DOMAIN n : n[i].dev = n[k].dev => i = k
    <3> SUFFICES ASSUME NEW i \in DOMAIN n, NEW k \in DOMAIN n, n[i].dev = n[k].dev PROVE i = k
      OBVIOUS
    <3>1. i + 1 = k + 1 BY <2>1 DEF JobsAreAsked
    <3> QED BY <3>1, <2>1
  <2>8. \A i \in DOMAIN n, k \in DOMAIN waiting : n[i].dev # waiting[k].dev
    BY <2>1 DEF JobsAreAsked
  <2>9. \A k \in DOMAIN waiting : waiting[k].dev # j.dev BY <2>1 DEF JobsAreAsked
  <2>12. /\ waiting' = waiting
         /\ \A i, k \in DOMAIN waiting : waiting[i].dev = waiting[k].dev => i = k
    BY <2>2 DEF JobsAreAsked
  <2> QED BY <2>4, <2>6, <2>7, <2>8, <2>9, <2>10, <2>11, <2>12 DEF JobsAreAsked, Asks, AskedBy
<1>4. ASSUME NEW d \in Devices, NEW resolve \in BOOLEAN, Ask(d, resolve) PROVE JobsAreAsked'
  <2> DEFINE j == [kind |-> "ask", dev |-> d, resolve |-> resolve]
  <2>1. j \in Job /\ j.kind = "ask" /\ j.dev = d BY DEF Job
  <2>2. /\ Enter(j, <<>>) /\ UNCHANGED <<waiting, op>> /\ asked' = [asked EXCEPT ![d] = "asked"]
        /\ asked[d] = "no" /\ op[d] # None /\ op[d].answer = "none"
    BY <1>4 DEF Ask
  <2> HIDE DEF j
  <2>3. InHand' = {j} /\ Todo' = <<>> /\ host'.at # "next" BY <2>1, <2>2, <1>e, JobsEnter
  <2>4. \A job \in Job : Asks(job) => Asks(job)' /\ job.dev # d
    BY <2>2, JobParts DEF Asks, ClientsTyped
  <2>5. Asks(j)' BY <2>1, <2>2 DEF Asks, ClientsTyped
  <2>6. \A i \in DOMAIN waiting : waiting[i] \in Job BY <1>t
  <2> QED BY <1>e, <2>1, <2>2, <2>3, <2>4, <2>5, <2>6 DEF JobsAreAsked
<1> QED BY <1>1, <1>2, <1>3, <1>4

\* When a request is over its job was answered, or joins the ones that wait.
LEMMA DoneJobs ==
    ASSUME Typed, JobsAreAsked, Asking, Done, UNCHANGED op,
           \/ waiting' = waiting /\ \E x : asked' = [asked EXCEPT ![host.job.dev] = x]
           \/ waiting' = Append(waiting, host.job) /\ asked' = asked
    PROVE  JobsAreAsked'
<1> USE DEF Typed
<1>0. host.at \in {"error", "pending"} /\ host.job.kind = "ask" BY DEF Asking, Concluding
<1>1. InHand = {host.job} /\ Todo = host.todo BY <1>0 DEF InHand, Todo
<1>2. InHand' = {} /\ Todo' = Todo /\ (host'.at = "next" => host'.todo # <<>>)
  <2>1. CASE host.todo = <<>> BY <2>1, <1>1 DEF Done, Free, InHand, Todo
  <2>2. CASE host.todo # <<>>
    <3>1. host' = [at |-> "next", job |-> host.job, todo |-> host.todo]
      BY <2>2, <1>0, HostParts DEF Done, HostTyped
    <3> QED BY <3>1, <2>2, <1>1 DEF InHand, Todo
  <2> QED BY <2>1, <2>2
<1>3. /\ host.job \in Job /\ host.job.dev \in Devices /\ Asks(host.job)
      /\ Todo \in Seq(Job) /\ waiting \in Seq(Job)
  BY <1>0, <1>1, JobsTyped, JobParts DEF JobsAreAsked
<1>4. \A job \in Job : Asks(job) /\ job.dev # host.job.dev => AskedBy(job, asked', op')
  BY <1>3, JobParts DEF Asks, ClientsTyped, AskedBy
<1>5. \A i \in DOMAIN Todo : AskedBy(Todo[i], asked', op') BY <1>1, <1>3, <1>4 DEF JobsAreAsked
<1>8. \A i, k \in DOMAIN Todo : Todo[i].dev = Todo[k].dev => i = k BY DEF JobsAreAsked
<1>6. CASE waiting' = waiting
  <2>1. \A i \in DOMAIN waiting : AskedBy(waiting[i], asked', op')
    BY <1>1, <1>3, <1>4 DEF JobsAreAsked
  <2>2. /\ \A i, k \in DOMAIN waiting : waiting[i].dev = waiting[k].dev => i = k
        /\ \A i \in DOMAIN Todo, k \in DOMAIN waiting : Todo[i].dev # waiting[k].dev
    BY DEF JobsAreAsked
  <2> QED BY <1>2, <1>5, <1>6, <1>8, <2>1, <2>2 DEF JobsAreAsked, Asks, AskedBy
<1>7. CASE waiting' = Append(waiting, host.job) /\ asked' = asked
  <2>1. \A job : Asks(job) => AskedBy(job, asked', op') BY <1>7 DEF Asks, AskedBy
  <2>2. \A i \in DOMAIN waiting' :
           \/ i \in DOMAIN waiting /\ waiting'[i] = waiting[i]
           \/ i = Len(waiting) + 1 /\ waiting'[i] = host.job
    BY <1>3, <1>7
  <2>3. \A i \in DOMAIN waiting' : AskedBy(waiting'[i], asked', op')
    BY <1>3, <2>1, <2>2 DEF JobsAreAsked
  <2>4. \A i \in DOMAIN waiting : waiting[i].dev # host.job.dev BY <1>1 DEF JobsAreAsked
  <2>5. \A i, k \in DOMAIN waiting' : waiting'[i].dev = waiting'[k].dev => i = k
    BY <2>2, <2>4 DEF JobsAreAsked
  <2>6. \A i \in DOMAIN Todo, k \in DOMAIN waiting' : Todo[i].dev # waiting'[k].dev
    BY <1>1, <2>2 DEF JobsAreAsked
  <2> QED BY <1>2, <1>5, <1>8, <2>3, <2>5, <2>6 DEF JobsAreAsked, Asks, AskedBy
<1> QED BY <1>6, <1>7

\* A tick that ends hands the waiting edits over, or leaves them waiting.
LEMMA TickJobs ==
    ASSUME Typed, JobsAreAsked, ConcludeTick PROVE JobsAreAsked'
<1>1. UNCHANGED <<asked, op>> BY DEF ConcludeTick, clients
<1>e. DOMAIN <<>> = {} OBVIOUS
<1>2. CASE host' = Free /\ waiting' = waiting
  <2>1. InHand' = {} /\ Todo' = <<>> /\ host'.at # "next" BY <1>2 DEF InHand, Todo, Free
  <2> QED BY <1>1, <1>2, <1>e, <2>1 DEF JobsAreAsked, Asks
<1>3. CASE waiting # <<>> /\ waiting' = <<>> /\ host' = [at |-> "next", job |-> host.job, todo |-> waiting]
  <2>1. InHand' = {} /\ Todo' = waiting /\ host'.todo # <<>> BY <1>3 DEF InHand, Todo
  <2> QED BY <1>1, <1>3, <1>e, <2>1 DEF JobsAreAsked, Asks
<1> QED BY <1>2, <1>3 DEF ConcludeTick

\* A revoked device's waiting edit goes, the others stay.
LEMMA RevokeJobs ==
    ASSUME Typed, JobsAreAsked, NEW d \in Devices, Revoke(d) PROVE JobsAreAsked'
<1> USE DEF Typed
<1>e. DOMAIN <<>> = {} OBVIOUS
<1>1. /\ host = Free /\ host' = host /\ waiting' = Without(waiting, d)
      /\ op' = [op EXCEPT ![d] = None] /\ asked' = [asked EXCEPT ![d] = "no"]
  BY DEF Revoke
<1>2. InHand' = {} /\ Todo' = <<>> /\ host'.at # "next" BY <1>1 DEF InHand, Todo, Free
<1>3. waiting \in Seq(Job) /\ waiting' \in Seq(Job) BY <1>1, WithoutParts DEF HostTyped
<1>4. \A job \in Job : Asks(job) /\ job.dev # d => AskedBy(job, asked', op')
  BY <1>1, JobParts DEF Asks, ClientsTyped, AskedBy
<1>5. CASE waiting' = waiting /\ \A i \in DOMAIN waiting : waiting[i].dev # d
  <2>1. \A i \in DOMAIN waiting : AskedBy(waiting[i], asked', op')
    BY <1>3, <1>4, <1>5 DEF JobsAreAsked
  <2> QED BY <1>2, <1>5, <1>e, <2>1 DEF JobsAreAsked, Asks, AskedBy
<1>6. ASSUME NEW k \in DOMAIN waiting, waiting[k].dev = d, Len(waiting') = Len(waiting) - 1,
             \A i \in 1..(Len(waiting) - 1) :
                waiting'[i] = IF i < k THEN waiting[i] ELSE waiting[i + 1]
      PROVE  JobsAreAsked'
  <2> DEFINE from(i) == IF i < k THEN i ELSE i + 1
  <2>1. \A i \in DOMAIN waiting' :
           i \in Nat /\ from(i) \in DOMAIN waiting /\ from(i) # k /\ waiting'[i] = waiting[from(i)]
    <3>1. Len(waiting) \in Nat /\ DOMAIN waiting = 1..Len(waiting) /\ DOMAIN waiting' = 1..(Len(waiting) - 1)
      BY <1>3, <1>6
    <3> QED BY <3>1, <1>6
  <2>2. \A i, j \in DOMAIN waiting' : from(i) = from(j) => i = j BY <2>1, <1>3
  <2> HIDE DEF from
  <2>3. \A i \in DOMAIN waiting' : waiting'[i].dev # d /\ AskedBy(waiting'[i], asked', op')
    BY <1>3, <1>4, <1>6, <2>1 DEF JobsAreAsked
  <2>4. \A i, j \in DOMAIN waiting' : waiting'[i].dev = waiting'[j].dev => i = j
    BY <2>1, <2>2 DEF JobsAreAsked
  <2> QED BY <1>2, <1>e, <2>3, <2>4 DEF JobsAreAsked, Asks, AskedBy
<1> QED BY <1>1, <1>3, <1>5, <1>6, WithoutParts

\* Every step keeps the jobs in order.
LEMMA JobsInductive ==
    ASSUME Typed, JobsAreAsked, [Next]_vars PROVE JobsAreAsked'
<1> USE DEF Typed
<1>a. \A d \in Devices : asked[d] \in {"no", "asked", "answered"} BY DEF ClientsTyped
<1>1. CASE UNCHANGED <<host, waiting, asked, op>> BY <1>1, JobsKept
<1>2. CASE JoinFailed \/ JoinOpen \/ JoinWrite \/ JoinChanged \/ JoinWrote
  <2>1. host.at = "finish" /\ UNCHANGED <<waiting, asked, op>>
    BY <1>2 DEF JoinFailed, JoinOpen, JoinWrite, JoinChanged, JoinWrote, clients
  <2>2. /\ host'.at \in Held /\ host'.job = host.job /\ host'.todo = host.todo
    <3>1. \A s : [host EXCEPT !.at = s] = [at |-> s, job |-> host.job, todo |-> host.todo]
      BY <2>1, HostParts DEF HostTyped
    <3>2. \/ \E s \in {"error", "pending"} : host' = [host EXCEPT !.at = s]
          \/ host' = [at |-> "closed", job |-> host.job, todo |-> host.todo, op |-> worker.op]
      BY <1>2 DEF JoinFailed, JoinOpen, JoinWrite, JoinChanged, JoinWrote, Joined, At
    <3>3. CASE \E s \in {"error", "pending"} : host' = [host EXCEPT !.at = s]
      <4>1. PICK s \in {"error", "pending"} : host' = [host EXCEPT !.at = s] BY <3>3
      <4>2. host' = [at |-> s, job |-> host.job, todo |-> host.todo] BY <3>1, <4>1
      <4> QED BY <4>2 DEF Held
    <3>4. CASE host' = [at |-> "closed", job |-> host.job, todo |-> host.todo, op |-> worker.op]
      BY <3>4 DEF Held
    <3> QED BY <3>2, <3>3, <3>4
  <2> QED BY <2>1, <2>2, JobsKept DEF Held
<1>3. CASE EndReviewed
  <2>1. host.at = "closed" /\ UNCHANGED <<waiting, asked, op>> BY <1>3 DEF EndReviewed, clients
  <2>2. host'.at \in Held /\ host'.job = host.job /\ host'.todo = host.todo
    BY <1>3 DEF EndReviewed, Stage, Held
  <2> QED BY <2>1, <2>2, JobsKept DEF Held
<1>4. ASSUME NEW r \in Pending(mem), SettlePending(r) PROVE JobsAreAsked'
  <2>1. host.at = "pending" /\ UNCHANGED <<waiting, asked, op>> BY <1>4 DEF SettlePending, clients
  <2>2. \E s \in {"error", "pending"} : host' = [at |-> s, job |-> host.job, todo |-> host.todo]
    BY <1>4, <2>1, HostParts DEF SettlePending, At, HostTyped
  <2> QED BY <2>1, <2>2, JobsKept DEF Held
<1>5. CASE AskRefused \/ AskRecorded \/ AskEdit \/ BeginWorktree
  <2>1. Asking /\ Done /\ UNCHANGED op
    BY <1>5 DEF AskRefused, AskRecorded, AskEdit, BeginWorktree, New, Refused, Waits
  <2>2. \/ waiting' = waiting /\ \E x : asked' = [asked EXCEPT ![host.job.dev] = x]
        \/ waiting' = Append(waiting, host.job) /\ asked' = asked
    BY <1>5 DEF AskRefused, AskRecorded, AskEdit, BeginWorktree, Refused, Waits
  <2> QED BY <2>1, <2>2, DoneJobs
<1>6. ASSUME NEW record, Reboot(record) PROVE JobsAreAsked'
  <2>1. InHand' = {} /\ Todo' = <<>> /\ host'.at # "next" /\ waiting' = <<>>
    BY <1>6 DEF Reboot, InHand, Todo, Free
  <2>e. DOMAIN <<>> = {} OBVIOUS
  <2> QED BY <2>1, <2>e DEF JobsAreAsked
<1>7. ASSUME NEW d \in Devices, NEW kind \in Kinds, Begin(d, kind) PROVE JobsAreAsked'
  <2>1. UNCHANGED <<host, waiting, asked>> /\ op[d] = None
        /\ \A e \in Devices : e # d => op'[e] = op[e]
    BY <1>7 DEF Begin, server, ClientsTyped
  <2> QED BY <2>1, JobsKept DEF ClientsTyped
<1>8. ASSUME NEW d \in Devices, Deliver(d) PROVE JobsAreAsked'
  <2>1. UNCHANGED <<host, waiting>> /\ asked[d] = "answered" BY <1>8 DEF Deliver, server
  <2>2. \A e \in Devices : e # d => op'[e] = op[e] /\ asked'[e] = asked[e]
    BY <1>8 DEF Deliver, ClientsTyped
  <2> QED BY <2>1, <2>2, JobsKept
<1>9. ASSUME NEW d \in Devices, Acknowledge(d) PROVE JobsAreAsked'
  <2>1. UNCHANGED <<host, waiting, asked>> /\ op[d].answer # "none"
        /\ \A e \in Devices : e # d => op'[e] = op[e]
    BY <1>9 DEF Acknowledge, server, ClientsTyped
  <2> QED BY <2>1, JobsKept DEF ClientsTyped
<1>10. CASE Write \/ GitStarts \/ (\E ok \in BOOLEAN : Preflight(ok))
            \/ (\E c \in git : GitActs(c) \/ \E ok \in BOOLEAN : GitExits(c, ok))
  BY <1>10, <1>1 DEF Write, GitStarts, Preflight, GitActs, GitExits, server, clients
<1>11. CASE (\E d \in Devices : BeginRead(d) \/ ReadSettles(d))
            \/ (\E t \in Tabs : Cd(t) \/ Exit(t) \/ StartShell(t))
  BY <1>11, <1>1 DEF BeginRead, ReadSettles, Cd, Exit, StartShell, server, clients
<1>12. CASE UNCHANGED vars BY <1>1, <1>12 DEF vars, server, clients
<1>13. CASE Crash \/ ConcludeStop BY <1>6, <1>13 DEF Crash, ConcludeStop
<1>14. CASE HostStep
  BY <1>2, <1>3, <1>4, <1>5, <1>13, <1>14, RequestJobs, TickJobs DEF HostStep
<1> QED BY <1>7, <1>8, <1>9, <1>10, <1>11, <1>12, <1>13, <1>14, RequestJobs, RevokeJobs DEF Next

\* The edit in hand is its client's, which was told nothing yet.
LEMMA InHandIsAsked == ASSUME Typed, JobsAreAsked PROVE AskedTyped
<1> SUFFICES ASSUME Asking
             PROVE  /\ host.job.dev \in Devices /\ op[host.job.dev] # None
                    /\ op[host.job.dev].answer = "none"
  BY DEF AskedTyped
<1>1. host.at \in {"error", "pending"} /\ host.job.kind = "ask" BY DEF Asking, Concluding
<1>2. InHand = {host.job} BY <1>1 DEF InHand
<1>3. host.job \in Job BY <1>1, HostParts DEF Typed, HostTyped
<1> QED BY <1>1, <1>2, <1>3, JobParts DEF JobsAreAsked, Asks

-----------------------------------------------------------------------------
(* Threads, Git children and revoked devices.                              *)

\* Every step keeps a thread alone with its own Git child.
LEMMA OneWriterInductive ==
    ASSUME Typed, OneWriter, [Next]_vars PROVE OneWriter'
<1> USE DEF Typed
<1>w. worker \in WorkerState BY DEF HostTyped
<1>1. CASE UNCHANGED <<worker, git, boot, host, mem, disk, failed>> BY <1>1 DEF OneWriter
<1>2. CASE UNCHANGED <<worker, git, boot>> /\ host.at # "closed" /\ host'.at # "closed"
  BY <1>2 DEF OneWriter
<1>3. CASE worker' = None /\ host'.at # "closed" BY <1>3 DEF OneWriter
<1>4. CASE JoinFailed \/ JoinOpen \/ JoinChanged \/ JoinWrote
  <2>1. host.at = "finish" /\ worker' = None /\ Joined
    BY <1>4 DEF JoinFailed, JoinOpen, JoinChanged, JoinWrote
  <2>2. \E s \in {"error", "pending"} : host' = [at |-> s, job |-> host.job, todo |-> host.todo]
    BY <2>1, HostParts DEF Joined, At, HostTyped
  <2> QED BY <1>3, <2>1, <2>2
<1>5. CASE JoinWrite
  <2>1. worker.kind = "prepared" /\ worker # None /\ worker' = None /\ git' = git
    BY <1>5, WorkerNone DEF JoinWrite, external
  <2>2. git = {} BY <2>1 DEF OneWriter
  <2>3. \/ host' = [host EXCEPT !.at = "error"]
        \/ ~failed' /\ host' = [at |-> "closed", job |-> host.job, todo |-> host.todo, op |-> worker.op]
    BY <1>5 DEF JoinWrite
  <2>4. mem' = Closed(Synchronized(mem)) /\ (~failed' => disk' = Closed(Synchronized(mem)))
    BY <1>5, CommitParts DEF JoinWrite, CommitRetained
  <2>5. host.at = "finish" BY <1>5 DEF JoinWrite
  <2>6. [host EXCEPT !.at = "error"] = [at |-> "error", job |-> host.job, todo |-> host.todo]
    BY <2>5, HostParts DEF HostTyped
  <2>7. CASE host' = [host EXCEPT !.at = "error"] BY <1>3, <2>1, <2>6, <2>7
  <2>8. CASE ~failed' BY <2>1, <2>2, <2>4, <2>8 DEF OneWriter
  <2> QED BY <2>3, <2>7, <2>8
<1>6. CASE EndReviewed
  <2>1. git' = git /\ git = {} /\ host'.at # "closed"
    BY <1>6 DEF EndReviewed, OneWriter, external, Stage
  <2> QED BY <2>1 DEF OneWriter
<1>7. ASSUME NEW r \in Pending(mem), SettlePending(r) PROVE OneWriter'
  <2>1. host.at = "pending" /\ UNCHANGED <<worker, git, boot>> BY <1>7 DEF SettlePending, external
  <2>2. \E s \in {"error", "pending"} : host' = [at |-> s, job |-> host.job, todo |-> host.todo]
    BY <1>7, <2>1, HostParts DEF SettlePending, At, HostTyped
  <2> QED BY <1>2, <2>1, <2>2
<1>8. CASE Asking /\ Done /\ UNCHANGED <<git, boot>> /\ (worker' = worker \/ git = {})
  <2>1. host.at \in {"error", "pending"} BY <1>8 DEF Asking, Concluding
  <2>2. host' = Free \/ host' = [at |-> "next", job |-> host.job, todo |-> host.todo]
    BY <1>8, <2>1, HostParts DEF Done, HostTyped
  <2>3. host'.at # "closed" BY <2>2 DEF Free
  <2> QED BY <1>2, <1>8, <2>1, <2>3 DEF OneWriter
<1>9. CASE AskRefused \/ AskRecorded \/ AskEdit \/ BeginWorktree
  <2>1. Asking /\ Done /\ UNCHANGED <<git, boot>>
    BY <1>9 DEF AskRefused, AskRecorded, AskEdit, BeginWorktree, New, Refused, Waits, RestOfAsk, external
  <2>2. worker' = worker \/ git = {}
    BY <1>9 DEF AskRefused, AskRecorded, AskEdit, BeginWorktree, LockHeld
  <2> QED BY <1>8, <2>1, <2>2
<1>10. CASE ConcludeTick
  <2>1. UNCHANGED <<worker, git, boot>> /\ host.at # "closed" /\ host'.at # "closed"
    BY <1>10 DEF ConcludeTick, Concluding, external, Free
  <2> QED BY <1>2, <2>1
<1>11. CASE Tick \/ Stop \/ NextWaiting \/ (\E d \in Devices, resolve \in BOOLEAN : Ask(d, resolve))
  <2>1. UNCHANGED <<worker, git, boot>> /\ host.at # "closed"
    <3>1. CASE Tick BY <3>1 DEF Tick, external, Free
    <3>2. CASE Stop BY <3>2 DEF Stop, external, Free
    <3>3. CASE NextWaiting BY <3>3 DEF NextWaiting, external
    <3>4. CASE \E d \in Devices, resolve \in BOOLEAN : Ask(d, resolve)
      BY <3>4 DEF Ask, external, Free
    <3> QED BY <1>11, <3>1, <3>2, <3>3, <3>4
  <2>2. host'.at # "closed" BY <1>11 DEF Tick, Stop, NextWaiting, Ask, Enter, Stage
  <2> QED BY <1>2, <2>1, <2>2
<1>12. CASE Crash \/ ConcludeStop
  <2>1. \E record : Reboot(record) BY <1>12 DEF Crash, ConcludeStop
  <2>2. worker' = None /\ host' = Free BY <2>1 DEF Reboot
  <2> QED BY <1>3, <2>2 DEF Free
<1>13. CASE Write
  <2>1. UNCHANGED <<worker, git, boot, host, mem>> /\ mem # disk BY <1>13 DEF Write, server, external
  <2> QED BY <2>1 DEF OneWriter
<1>14. CASE GitStarts
  <2>1. /\ worker.kind = "writing" /\ worker # None /\ git' = git \cup {[op |-> worker.op, done |-> FALSE, boot |-> boot]}
        /\ worker' = [kind |-> "running", op |-> worker.op] /\ UNCHANGED <<host, boot>>
    BY <1>14, WorkerNone DEF GitStarts
  <2>2. git = {} /\ host.at # "closed" BY <2>1 DEF OneWriter
  <2> QED BY <2>1, <2>2 DEF OneWriter
<1>15. ASSUME NEW ok \in BOOLEAN, Preflight(ok) PROVE OneWriter'
  <2>1. worker.kind = "preflight" /\ worker # None /\ UNCHANGED <<host, git>>
    BY <1>15, WorkerNone DEF Preflight, external
  <2>2. git = {} /\ host.at # "closed" BY <2>1 DEF OneWriter
  <2> QED BY <2>1, <2>2 DEF OneWriter
<1>16. ASSUME NEW c \in git, GitActs(c) PROVE OneWriter'
  <2>1. /\ UNCHANGED <<worker, boot, host>>
        /\ git' = (git \ {c}) \cup {[c EXCEPT !.done = TRUE]}
    BY <1>16 DEF GitActs, server
  <2>2. [c EXCEPT !.done = TRUE].op = c.op /\ [c EXCEPT !.done = TRUE].boot = c.boot BY DEF GitTyped
  <2>3. host.at # "closed" BY DEF OneWriter
  <2> QED BY <2>1, <2>2, <2>3 DEF OneWriter
<1>17. ASSUME NEW c \in git, NEW ok \in BOOLEAN, GitExits(c, ok) PROVE OneWriter'
  <2>1. UNCHANGED <<host, boot>> /\ git' = git \ {c} BY <1>17 DEF GitExits
  <2>2. host.at # "closed" BY DEF OneWriter
  <2>3. CASE worker' = worker BY <2>1, <2>2, <2>3 DEF OneWriter
  <2>4. CASE worker.kind = "running"
    <3>1. git \ {c} = {} BY <2>4, WorkerNone DEF OneWriter
    <3> QED BY <2>1, <2>2, <3>1 DEF OneWriter
  <2> QED BY <1>17, <2>3, <2>4 DEF GitExits
<1>18. CASE \E d \in Devices : BeginRead(d) \/ ReadSettles(d) \/ (\E kind \in Kinds : Begin(d, kind)) \/ Deliver(d)
  BY <1>1, <1>18 DEF BeginRead, ReadSettles, Begin, Deliver, retained, server, external
<1>19. CASE \E d \in Devices : Acknowledge(d) \/ Revoke(d)
  <2>1. UNCHANGED <<worker, git, boot, host>> /\ host = Free
    BY <1>19 DEF Acknowledge, Revoke, server, external
  <2> QED BY <1>2, <2>1 DEF Free
<1>20. CASE \E t \in Tabs : Cd(t) \/ Exit(t) \/ StartShell(t)
  BY <1>1, <1>20 DEF Cd, Exit, StartShell, retained, server, external
<1>21. CASE UNCHANGED vars BY <1>1, <1>21 DEF vars, retained, server, external
<1>22. CASE HostStep
  BY <1>4, <1>5, <1>6, <1>7, <1>9, <1>10, <1>11, <1>12, <1>22 DEF HostStep
<1> QED BY <1>11, <1>12, <1>13, <1>14, <1>15, <1>16, <1>17, <1>18, <1>19, <1>20, <1>21, <1>22 DEF Next

\* Every step keeps revoked devices without operations.
LEMMA RevokedInductive ==
    ASSUME Typed, RevokedIsGone, [Next]_vars PROVE RevokedIsGone'
<1> USE DEF Typed
<1>1. CASE forgetting' \subseteq forgetting /\ UNCHANGED <<revoked, op>>
  BY <1>1 DEF RevokedIsGone
<1>s. StillForgetting \subseteq forgetting BY DEF StillForgetting
<1>2. CASE AskRefused \/ AskRecorded \/ AskEdit \/ BeginWorktree \/ ConcludeTick
  <2>1. forgetting' = StillForgetting /\ UNCHANGED <<revoked, op>>
    BY <1>2 DEF AskRefused, AskRecorded, AskEdit, BeginWorktree, ConcludeTick, RestOfAsk, clients
  <2> QED BY <1>1, <1>s, <2>1
<1>3. CASE JoinFailed \/ JoinOpen \/ JoinWrite \/ JoinChanged \/ JoinWrote \/ EndReviewed
           \/ (\E r \in Pending(mem) : SettlePending(r))
  BY <1>1, <1>3 DEF JoinFailed, JoinOpen, JoinWrite, JoinChanged, JoinWrote, EndReviewed,
                    SettlePending, clients
<1>4. CASE Tick \/ Stop \/ NextWaiting \/ (\E d \in Devices, resolve \in BOOLEAN : Ask(d, resolve))
  BY <1>1, <1>4 DEF Tick, Stop, NextWaiting, Ask, clients
<1>5. ASSUME NEW record, Reboot(record) PROVE RevokedIsGone'
  <2>1. forgetting' \subseteq revoked /\ UNCHANGED <<revoked, op>> BY <1>5 DEF Reboot
  <2> QED BY <2>1 DEF RevokedIsGone
<1>6. CASE Write \/ GitStarts \/ (\E ok \in BOOLEAN : Preflight(ok))
           \/ (\E c \in git : GitActs(c) \/ \E ok \in BOOLEAN : GitExits(c, ok))
  BY <1>6, <1>1 DEF Write, GitStarts, Preflight, GitActs, GitExits, server, clients
<1>7. CASE (\E d \in Devices : BeginRead(d) \/ ReadSettles(d))
           \/ (\E t \in Tabs : Cd(t) \/ Exit(t) \/ StartShell(t))
  BY <1>7, <1>1 DEF BeginRead, ReadSettles, Cd, Exit, StartShell, server, clients
<1>8. ASSUME NEW d \in Devices, NEW kind \in Kinds, Begin(d, kind) PROVE RevokedIsGone'
  <2>1. UNCHANGED <<forgetting, revoked>> /\ d \notin revoked /\ \A e \in Devices : e # d => op'[e] = op[e]
    BY <1>8 DEF Begin, server, ClientsTyped
  <2> QED BY <2>1 DEF RevokedIsGone, ClientsTyped
<1>9. ASSUME NEW d \in Devices, Deliver(d) PROVE RevokedIsGone'
  <2>1. UNCHANGED <<forgetting, revoked>> /\ op[d] # None /\ \A e \in Devices : e # d => op'[e] = op[e]
    BY <1>9 DEF Deliver, server, ClientsTyped
  <2> QED BY <2>1 DEF RevokedIsGone, ClientsTyped
<1>10. ASSUME NEW d \in Devices, Acknowledge(d) PROVE RevokedIsGone'
  <2>1. UNCHANGED <<forgetting, revoked>> /\ op' = [op EXCEPT ![d] = None]
    BY <1>10 DEF Acknowledge, server
  <2> QED BY <2>1 DEF RevokedIsGone, ClientsTyped
<1>11. ASSUME NEW d \in Devices, Revoke(d) PROVE RevokedIsGone'
  <2>1. forgetting' \subseteq forgetting \cup {d} /\ revoked' = revoked \cup {d} /\ op' = [op EXCEPT ![d] = None]
    BY <1>11 DEF Revoke
  <2> QED BY <2>1 DEF RevokedIsGone, ClientsTyped
<1>12. CASE UNCHANGED vars BY <1>1, <1>12 DEF vars, server, clients
<1>13. CASE Crash \/ ConcludeStop BY <1>5, <1>13 DEF Crash, ConcludeStop
<1>14. CASE HostStep BY <1>2, <1>3, <1>4, <1>13, <1>14 DEF HostStep
<1> QED BY <1>4, <1>6, <1>7, <1>8, <1>9, <1>10, <1>11, <1>12, <1>13, <1>14 DEF Next

\* What Git and its thread report done is what Git did.
ReportsAreTrue ==
    /\ \A c \in git : c.done => c.op \in did
    /\ worker.kind = "wrote" => (worker.ok => worker.op \in did)

\* Every step keeps these reports true, and Git undoes nothing.
LEMMA ReportsInductive ==
    ASSUME Typed, OneWriter, ReportsAreTrue, [Next]_vars PROVE ReportsAreTrue' /\ did \subseteq did'
<1> USE DEF Typed
<1>n. None.kind # "wrote" BY WorkerNone
<1>1. CASE UNCHANGED <<git, did>> /\ (worker' = worker \/ worker'.kind # "wrote")
  BY <1>1 DEF ReportsAreTrue
<1>2. CASE AskRefused \/ AskRecorded \/ AskEdit \/ BeginWorktree \/ ConcludeTick
  <2>1. CASE AskRefused \/ AskRecorded \/ AskEdit
    BY <1>1, <2>1 DEF AskRefused, AskRecorded, AskEdit, RestOfAsk, external, ghosts
  <2>2. CASE BeginWorktree
    <3>1. UNCHANGED <<git, did>> BY <2>2 DEF BeginWorktree, RestOfAsk, external, ghosts
    <3>2. worker' = worker \/ worker'.kind # "wrote" BY <2>2 DEF BeginWorktree
    <3> QED BY <1>1, <3>1, <3>2
  <2>3. CASE ConcludeTick BY <1>1, <2>3 DEF ConcludeTick, external, ghosts
  <2> QED BY <1>2, <2>1, <2>2, <2>3
<1>3. CASE JoinFailed \/ JoinOpen \/ JoinWrite \/ JoinChanged \/ JoinWrote
  <2>1. UNCHANGED <<git, did>> /\ worker' = None
    BY <1>3 DEF JoinFailed, JoinOpen, JoinWrite, JoinChanged, JoinWrote, external, ghosts
  <2> QED BY <1>1, <1>n, <2>1
<1>4. CASE EndReviewed \/ (\E r \in Pending(mem) : SettlePending(r)) \/ Write
  <2>1. UNCHANGED <<git, did>> /\ (worker' = worker \/ worker'.kind # "wrote")
    BY <1>4 DEF EndReviewed, SettlePending, Write, server, external, ghosts
  <2> QED BY <1>1, <2>1
<1>5. CASE Tick \/ Stop \/ NextWaiting \/ (\E d \in Devices, resolve \in BOOLEAN : Ask(d, resolve))
  BY <1>1, <1>5 DEF Tick, Stop, NextWaiting, Ask, external, ghosts
<1>6. ASSUME NEW record, Reboot(record) PROVE ReportsAreTrue' /\ did \subseteq did'
  <2>1. UNCHANGED <<git, did>> /\ worker' = None BY <1>6 DEF Reboot, external, ghosts
  <2> QED BY <1>1, <1>n, <2>1
<1>7. CASE GitStarts
  <2>1. /\ git' = git \cup {[op |-> worker.op, done |-> FALSE, boot |-> boot]} /\ did' = did
        /\ worker'.kind = "running"
    BY <1>7 DEF GitStarts
  <2> QED BY <2>1 DEF ReportsAreTrue
<1>8. ASSUME NEW ok \in BOOLEAN, Preflight(ok) PROVE ReportsAreTrue' /\ did \subseteq did'
  BY <1>1, <1>8 DEF Preflight, external, ghosts
<1>9. ASSUME NEW c \in git, GitActs(c) PROVE ReportsAreTrue' /\ did \subseteq did'
  <2>1. /\ git' = (git \ {c}) \cup {[c EXCEPT !.done = TRUE]} /\ did' = did \cup {c.op}
        /\ worker' = worker
    BY <1>9 DEF GitActs, server
  <2>2. [c EXCEPT !.done = TRUE].op = c.op BY DEF GitTyped
  <2> QED BY <2>1, <2>2 DEF ReportsAreTrue
<1>10. ASSUME NEW c \in git, NEW ok \in BOOLEAN, GitExits(c, ok)
       PROVE  ReportsAreTrue' /\ did \subseteq did'
  <2>1. git' = git \ {c} /\ did' = did BY <1>10 DEF GitExits, ghosts
  <2>2. CASE worker' = worker BY <2>1, <2>2 DEF ReportsAreTrue
  <2>3. CASE worker.kind = "running" /\ worker' = [kind |-> "wrote", op |-> worker.op, ok |-> ok]
    <3>1. c.op = worker.op BY <2>3, WorkerNone DEF OneWriter
    <3>2. ok => c.op \in did BY <1>10 DEF GitExits, ReportsAreTrue
    <3> QED BY <2>1, <2>3, <3>1, <3>2 DEF ReportsAreTrue
  <2> QED BY <1>10, <2>2, <2>3 DEF GitExits
<1>11. CASE \E d \in Devices : \/ BeginRead(d) \/ ReadSettles(d) \/ (\E kind \in Kinds : Begin(d, kind))
                               \/ Deliver(d) \/ Acknowledge(d) \/ Revoke(d)
  BY <1>1, <1>11 DEF BeginRead, ReadSettles, Begin, Deliver, Acknowledge, Revoke, server, external, ghosts
<1>12. CASE \E t \in Tabs : Cd(t) \/ Exit(t) \/ StartShell(t)
  BY <1>1, <1>12 DEF Cd, Exit, StartShell, server, external, ghosts
<1>13. CASE UNCHANGED vars BY <1>1, <1>13 DEF vars, server, external, ghosts
<1>14. CASE Crash \/ ConcludeStop BY <1>6, <1>14 DEF Crash, ConcludeStop
<1>15. CASE HostStep BY <1>2, <1>3, <1>4, <1>5, <1>14, <1>15 DEF HostStep
<1> QED BY <1>4, <1>5, <1>7, <1>8, <1>9, <1>10, <1>11, <1>12, <1>13, <1>14, <1>15 DEF Next

-----------------------------------------------------------------------------
(* The outcomes a state records.                                           *)

\* The outcomes R are in order when the clients have the operations ops, the
\* devices gone are revoked, Git was started for the operations started and
\* did the ones in carried, work is worked for and n sequences are given out.
Good(R, ops, gone, started, carried, work, n) ==
    /\ \A p, q \in R : p.op = q.op => p = q
    /\ \A r \in R : r.outcome = "pending" =>
          \/ r.op.dev \in gone
          \/ /\ ops[r.op.dev] # None /\ ops[r.op.dev].op = r.op
             /\ ops[r.op.dev].answer = "none"
    /\ \A o \in work : [op |-> o, outcome |-> "pending"] \in R
    /\ \A d \in Devices :
          ops[d] # None /\ ops[d].op \in started => \E r \in R : r.op = ops[d].op
    /\ \A r \in R : r.outcome = "accepted" /\ r.op.kind \in {"create", "remove"} =>
          r.op \in carried
    /\ \A r \in R : r.op.seq <= n

\* The outcomes R are not behind the outcomes S of an earlier commit.
Ahead(R, S, ops) ==
    /\ \A r \in R, q \in S : r.outcome = "pending" /\ q.op = r.op => q = r
    /\ \A q \in S : ops[q.op.dev] # None /\ ops[q.op.dev].op = q.op =>
          \E r \in R : r.op = q.op

Settling(R, o, x) == (R \ {r \in R : r.op = o}) \cup {[op |-> o, outcome |-> x]}

\* Outcomes stay in order when Git does more and less is worked for.
LEMMA GoodKept ==
    ASSUME NEW R, NEW ops, NEW gone, NEW started, NEW carried, NEW work, NEW n,
           NEW more, NEW less, carried \subseteq more, less \subseteq work,
           Good(R, ops, gone, started, carried, work, n)
    PROVE  Good(R, ops, gone, started, more, less, n)
  BY DEF Good

\* Outcomes in order are not behind themselves.
LEMMA SelfAhead ==
    ASSUME NEW R, NEW ops, NEW gone, NEW started, NEW carried, NEW work, NEW n,
           Good(R, ops, gone, started, carried, work, n)
    PROVE  Ahead(R, R, ops)
  BY DEF Good, Ahead

\* Settling an operation that nothing works for any more keeps the order.
LEMMA SettleGood ==
    ASSUME NEW R, NEW ops, NEW gone, NEW started, NEW carried, NEW work, NEW n,
           Good(R, ops, gone, started, carried, work, n),
           NEW o, NEW x \in {"accepted", "failed"}, o.seq <= n,
           x = "accepted" /\ o.kind \in {"create", "remove"} => o \in carried
    PROVE  /\ Good(Settling(R, o, x), ops, gone, started, carried, {}, n)
           /\ \A S : Ahead(R, S, ops) => Ahead(Settling(R, o, x), S, ops)
<1> DEFINE e == [op |-> o, outcome |-> x]
           T == Settling(R, o, x)
<1>1. /\ e.op = o /\ e.outcome = x /\ x # "pending" /\ e \in T
      /\ \A r \in T : (r \in R /\ r.op # o) \/ r = e
      /\ \A r \in R : r.op # o => r \in T
  BY DEF Settling
<1> HIDE DEF e, T
<1>2. \A p, q \in T : p.op = q.op => p = q BY <1>1 DEF Good
<1>3. \A r \in T : r.outcome = "pending" => r \in R BY <1>1
<1>4. \A r \in R : \E q \in T : q.op = r.op BY <1>1
<1>5. Good(T, ops, gone, started, carried, {}, n)
  <2>1. \A d \in Devices : ops[d] # None /\ ops[d].op \in started => \E r \in T : r.op = ops[d].op
    BY <1>4 DEF Good
  <2>2. \A r \in T : r.outcome = "accepted" /\ r.op.kind \in {"create", "remove"} => r.op \in carried
    BY <1>1 DEF Good
  <2>3. \A r \in T : r.op.seq <= n BY <1>1 DEF Good
  <2>4. \A r \in T : r.outcome = "pending" =>
          \/ r.op.dev \in gone
          \/ ops[r.op.dev] # None /\ ops[r.op.dev].op = r.op /\ ops[r.op.dev].answer = "none"
    BY <1>3 DEF Good
  <2> QED BY <1>2, <2>1, <2>2, <2>3, <2>4 DEF Good
<1>6. ASSUME NEW S, Ahead(R, S, ops) PROVE Ahead(T, S, ops)
  BY <1>3, <1>4, <1>6 DEF Ahead
<1> QED BY <1>5, <1>6 DEF T

\* begin_worktree records a new operation of a client while nothing is Pending.
LEMMA BeginGood ==
    ASSUME NEW R, NEW ops, NEW gone, NEW started, NEW carried, NEW work, NEW n,
           Good(R, ops, gone, started, carried, work, n),
           NEW o, o.seq <= n, ops[o.dev] # None, ops[o.dev].op = o, ops[o.dev].answer = "none",
           \A r \in R : r.op # o, \A r \in R : r.outcome # "pending"
    PROVE  /\ Good(Settling(R, o, "pending"), ops, gone, started, carried, {o}, n)
           /\ \A S : Ahead(R, S, ops) => Ahead(Settling(R, o, "pending"), S, ops)
<1> DEFINE e == [op |-> o, outcome |-> "pending"]
           T == Settling(R, o, "pending")
<1>1. /\ e.op = o /\ e.outcome = "pending" /\ e \in T
      /\ \A r \in T : r \in R \/ r = e
      /\ R \subseteq T
  BY DEF Settling
<1> HIDE DEF T
<1>2. \A p, q \in T : p.op = q.op => p = q BY <1>1 DEF Good
<1>3. \A r \in T : r.outcome = "pending" => r = e BY <1>1
<1>5. Good(T, ops, gone, started, carried, {o}, n)
  <2>1. \A d \in Devices : ops[d] # None /\ ops[d].op \in started => \E r \in T : r.op = ops[d].op
    BY <1>1 DEF Good
  <2>2. \A r \in T : r.outcome = "accepted" /\ r.op.kind \in {"create", "remove"} => r.op \in carried
    BY <1>1 DEF Good
  <2>3. \A r \in T : r.op.seq <= n BY <1>1 DEF Good
  <2>4. \A r \in T : r.outcome = "pending" =>
          \/ r.op.dev \in gone
          \/ ops[r.op.dev] # None /\ ops[r.op.dev].op = r.op /\ ops[r.op.dev].answer = "none"
    BY <1>1, <1>3
  <2> QED BY <1>1, <1>2, <2>1, <2>2, <2>3, <2>4 DEF Good
<1>6. ASSUME NEW S, Ahead(R, S, ops) PROVE Ahead(T, S, ops)
  <2>1. \A q \in S : q.op # o BY <1>6 DEF Ahead
  <2> QED BY <1>1, <1>3, <1>6, <2>1 DEF Ahead
<1> QED BY <1>5, <1>6 DEF T

Forgetting(R, devices) ==
    {r \in R : \/ r.op.dev \notin devices
               \/ \E p \in R : p.outcome = "pending" /\ p.op.dev = r.op.dev}

\* Forgetting revoked devices, which have no operations, keeps the order.
LEMMA ForgetGood ==
    ASSUME NEW R, NEW ops, NEW gone, NEW started, NEW carried, NEW work, NEW n,
           Good(R, ops, gone, started, carried, work, n),
           NEW devices \in SUBSET gone, \A d \in gone : ops[d] = None,
           \A d \in Devices : ops[d] # None => ops[d].op.dev = d
    PROVE  /\ Good(Forgetting(R, devices), ops, gone, started, carried, work, n)
           /\ \A S : Ahead(R, S, ops) => Ahead(Forgetting(R, devices), S, ops)
<1> DEFINE T == Forgetting(R, devices)
<1>1. /\ T \subseteq R
      /\ \A r \in R : r.op.dev \notin devices => r \in T
      /\ \A r \in R : r.outcome = "pending" => r \in T
  BY DEF Forgetting
<1> HIDE DEF T
<1>2. \A o \in work : [op |-> o, outcome |-> "pending"] \in T BY <1>1 DEF Good
<1>3. \A d \in Devices : ops[d] # None /\ ops[d].op \in started => \E r \in T : r.op = ops[d].op
  <2> SUFFICES ASSUME NEW d \in Devices, ops[d] # None, ops[d].op \in started
               PROVE  \E r \in T : r.op = ops[d].op
    OBVIOUS
  <2>1. PICK r \in R : r.op = ops[d].op BY DEF Good
  <2>2. r.op.dev = d /\ d \notin devices BY <2>1
  <2> QED BY <1>1, <2>1, <2>2
<1>4. Good(T, ops, gone, started, carried, work, n) BY <1>1, <1>2, <1>3 DEF Good
<1>5. ASSUME NEW S, Ahead(R, S, ops) PROVE Ahead(T, S, ops)
  <2>1. ASSUME NEW q \in S, ops[q.op.dev] # None, ops[q.op.dev].op = q.op
        PROVE  \E r \in T : r.op = q.op
    <3>1. PICK r \in R : r.op = q.op BY <1>5, <2>1 DEF Ahead
    <3>2. r.op.dev \notin devices BY <2>1, <3>1
    <3> QED BY <1>1, <3>1, <3>2
  <2> QED BY <1>1, <1>5, <2>1 DEF Ahead
<1> QED BY <1>4, <1>5 DEF T

Books ==
    /\ Good(mem.records, op, revoked, ran, did, AtWork, count["ops"])
    /\ Good(disk.records, op, revoked, ran, did, AtWork, count["ops"])
    /\ Ahead(mem.records, disk.records, op)

\* Each client's operation is its own and has a sequence that was given out;
\* so has every operation Git was started for.
OwnOps ==
    /\ \A d \in Devices : op[d] # None => op[d].op.dev = d /\ op[d].op.seq <= count["ops"]
    /\ \A o \in ran : o.seq <= count["ops"]

\* What is still checked, or about to be written, was not started.
NotStarted ==
    /\ worker.kind \in {"preflight", "prepared", "writing"} => worker.op \notin ran
    /\ host.at = "closed" => host.op \notin ran

\* finish_worktrees goes on to its end.
LEMMA JoinedPlace ==
    ASSUME HostTyped, host.at \in {"finish", "pending"}, Joined
    PROVE  host'.at \in {"error", "pending"}
<1>1. \E s \in {"error", "pending"} : host' = [host EXCEPT !.at = s] BY DEF Joined, At
<1>2. \E s \in {"error", "pending"} : host' = [at |-> s, job |-> host.job, todo |-> host.todo]
  BY <1>1, HostParts DEF HostTyped
<1> QED BY <1>2

\* A request that is over frees the lock or goes on with a waiting edit.
LEMMA DonePlace ==
    ASSUME HostTyped, Concluding, Done PROVE host.at # "closed" /\ host'.at \in {"free", "next"}
<1>1. host.at \in {"error", "pending"} BY DEF Concluding
<1>2. [host EXCEPT !.at = "next"] = [at |-> "next", job |-> host.job, todo |-> host.todo]
  BY <1>1, HostParts DEF HostTyped
<1> QED BY <1>1, <1>2 DEF Done, Free

\* Nothing more is worked for when the thread, the Git children and the place of
\* the host stay.
LEMMA WorkKept ==
    ASSUME UNCHANGED <<worker, git>>, host'.at # "closed" \/ host' = host
    PROVE  AtWork' \subseteq AtWork
  BY DEF AtWork

\* Nothing is worked for once a finished thread is joined.
LEMMA WorkJoined ==
    ASSUME OneWriter, worker # None, worker.kind # "running", worker' = None, git' = git,
           host'.at # "closed"
    PROVE  AtWork' = {}
<1>1. git = {} BY DEF OneWriter
<1> QED BY <1>1 DEF AtWork

\* Reading the record back, and forgetting revoked devices, keeps the outcomes
\* in order.
LEMMA ForgottenBooks ==
    ASSUME Typed, Books, OwnOps, RevokedIsGone
    PROVE  LET F == AfterForgetting.records IN
           /\ Good(F, op, revoked, ran, did, AtWork, count["ops"])
           /\ Ahead(F, disk.records, op)
<1> USE DEF Typed
<1>1. CASE ~Forgets BY <1>1 DEF AfterForgetting, Books
<1>2. CASE Forgets
  <2> DEFINE R == Recovered.records
  <2>1. /\ Good(R, op, revoked, ran, did, AtWork, count["ops"])
        /\ Ahead(R, disk.records, op)
    BY SelfAhead DEF Recovered, Books
  <2>2. AfterForgetting.records = Forgetting(R, forgetting)
    BY <1>2, RecoveredTyped, ForgetParts DEF AfterForgetting, Forgetting, PendingOf, Pending
  <2> HIDE DEF R
  <2> QED BY <2>1, <2>2, ForgetGood DEF RevokedIsGone, OwnOps
<1> QED BY <1>1, <1>2

\* The outcomes are in order after a step that keeps or settles outcomes of the
\* operations clients have.
LEMMA BooksStep ==
    ASSUME UNCHANGED <<op, revoked, ran>>, count'["ops"] = count["ops"], did \subseteq did',
           Good(disk.records, op, revoked, ran, did, AtWork, count["ops"]), AtWork' \subseteq AtWork,
           Good(mem'.records, op, revoked, ran, did, AtWork', count["ops"]),
           Ahead(mem'.records, disk.records, op),
           disk'.records \in {disk.records, mem'.records}
    PROVE  Books'
<1>1. Good(disk.records, op, revoked, ran, did', AtWork', count["ops"]) BY GoodKept
<1>2. Good(mem'.records, op, revoked, ran, did', AtWork', count["ops"]) BY GoodKept
<1>3. Ahead(mem'.records, disk'.records, op) BY <1>2, SelfAhead
<1> QED BY <1>1, <1>2, <1>3 DEF Books

\* Joining a finished thread settles its operation, whatever else it does to the
\* Tabs.
LEMMA SettleStep ==
    ASSUME Typed, Books, OwnOps, NEW o \in Operation, NEW m \in State, m.records = mem.records,
           NEW x \in {"accepted", "failed"},
           [op |-> o, outcome |-> "pending"] \in mem.records,
           x = "accepted" /\ o.kind \in {"create", "remove"} => o \in did,
           CommitRetained(Settled(m, o, x)), AtWork' = {},
           UNCHANGED <<op, revoked, ran, did>>
    PROVE  Books'
<1> DEFINE T == Settling(mem.records, o, x)
<1>1. o.seq <= count["ops"]
  <2>1. [op |-> o, outcome |-> "pending"].op = o OBVIOUS
  <2> QED BY <2>1 DEF Books, Good
<1>2. /\ Good(T, op, revoked, ran, did, {}, count["ops"]) /\ Ahead(T, disk.records, op)
  BY <1>1, SettleGood DEF Books
<1>3. Settled(m, o, x).records = T BY SettledParts DEF Settling, Outcome
<1>4. /\ mem'.records = T /\ disk'.records \in {disk.records, T} /\ count'["ops"] = count["ops"]
  BY <1>3, CommitParts DEF CommitRetained, Typed
<1> HIDE DEF T
<1> QED BY <1>2, <1>4, BooksStep DEF Books

\* Joining a thread keeps the outcomes in order.
LEMMA JoinsBooks ==
    ASSUME Typed, Books, OwnOps, OneWriter, ReportsAreTrue,
           JoinFailed \/ JoinOpen \/ JoinWrite \/ JoinChanged \/ JoinWrote
    PROVE  Books'
<1> USE DEF Typed
<1>w. worker \in WorkerState BY DEF HostTyped
<1>m. mem \in State /\ disk \in State /\ born \in Nat BY DEF RetainedTyped, CountTyped
<1>s. Synchronized(mem) \in State /\ Synchronized(mem).records = mem.records
  BY <1>m, SynchronizedParts DEF ShellsTyped
<1>0. /\ host.at = "finish" /\ worker # None /\ worker.op \in Operation /\ worker.kind # "running"
      /\ worker' = None /\ git' = git
  BY <1>w, WorkerParts, WorkerNone
     DEF JoinFailed, JoinOpen, JoinWrite, JoinChanged, JoinWrote, Finished, external
<1>p. [op |-> worker.op, outcome |-> "pending"] \in mem.records
  BY <1>0 DEF Books, Good, AtWork
<1>u. UNCHANGED <<op, revoked, ran, did>>
  BY DEF JoinFailed, JoinOpen, JoinWrite, JoinChanged, JoinWrote, clients, ghosts
<1>1. CASE JoinFailed \/ JoinOpen \/ JoinChanged \/ JoinWrote
  <2>1. Joined BY <1>1 DEF JoinFailed, JoinOpen, JoinChanged, JoinWrote
  <2>2. AtWork' = {} BY <1>0, <2>1, JoinedPlace, WorkJoined
  <2>3. CASE JoinFailed \/ JoinChanged
    <3>1. CommitRetained(Settled(mem, worker.op, "failed")) \/
          CommitRetained(Settled(Synchronized(mem), worker.op, "failed"))
      BY <2>3 DEF JoinFailed, JoinChanged
    <3> QED BY <3>1, <2>2, <1>0, <1>p, <1>u, <1>m, <1>s, SettleStep
  <2>4. CASE JoinOpen
    <3> DEFINE m == Synchronized(mem)
               a == AddTab(m, "in", TRUE)
    <3>1. \/ CommitRetained(Settled(a, worker.op, "accepted"))
          \/ CommitRetained(Settled(m, worker.op, "failed"))
      BY <2>4 DEF JoinOpen
    <3>2. a \in State /\ a.records = mem.records BY <1>s, <1>m, AddTabParts
    <3>3. worker.op.kind = "open" BY <2>4 DEF JoinOpen
    <3>4. m \in State /\ m.records = mem.records BY <1>s
    <3> HIDE DEF a, m
    <3>5. CASE CommitRetained(Settled(a, worker.op, "accepted"))
      BY <3>2, <3>3, <3>5, <2>2, <1>0, <1>p, <1>u, SettleStep
    <3>6. CASE CommitRetained(Settled(m, worker.op, "failed"))
      BY <3>4, <3>6, <2>2, <1>0, <1>p, <1>u, SettleStep
    <3> QED BY <3>1, <3>5, <3>6
  <2>5. CASE JoinWrote
    <3> DEFINE a == AddTab(mem, "in", TRUE)
    <3>1. \/ CommitRetained(Settled(a, worker.op, "accepted"))
          \/ CommitRetained(Settled(mem, worker.op, "accepted"))
          \/ CommitRetained(Settled(mem, worker.op, "failed"))
      BY <2>5 DEF JoinWrote
    <3>2. a \in State /\ a.records = mem.records BY <1>m, AddTabParts
    <3>3. worker.op \in did BY <2>5 DEF JoinWrote, ReportsAreTrue
    <3> HIDE DEF a
    <3>5. CASE CommitRetained(Settled(a, worker.op, "accepted"))
      BY <3>2, <3>3, <3>5, <2>2, <1>0, <1>p, <1>u, SettleStep
    <3>6. CASE CommitRetained(Settled(mem, worker.op, "failed")) \/
               CommitRetained(Settled(mem, worker.op, "accepted"))
      BY <3>3, <3>6, <2>2, <1>0, <1>p, <1>u, <1>m, SettleStep
    <3> QED BY <3>1, <3>5, <3>6
  <2> QED BY <1>1, <2>3, <2>4, <2>5
<1>2. CASE JoinWrite
  <2>1. Closed(Synchronized(mem)).records = mem.records BY <1>s, <1>m, ClosedParts
  <2>2. /\ mem'.records = mem.records /\ disk'.records \in {disk.records, mem.records}
        /\ count'["ops"] = count["ops"]
    BY <1>2, <2>1, CommitParts DEF JoinWrite, CommitRetained
  <2>3. host'.at = "error" \/ (host'.at = "closed" /\ host'.op = worker.op)
    BY <1>2, <1>0, HostParts DEF JoinWrite, HostTyped
  <2>4. AtWork' \subseteq AtWork BY <1>0, <2>3 DEF AtWork
  <2>5. Good(mem'.records, op, revoked, ran, did, AtWork', count["ops"])
    BY <2>2, <2>4, GoodKept DEF Books
  <2> QED BY <2>2, <2>4, <2>5, <1>u, BooksStep DEF Books
<1> QED BY <1>1, <1>2

\* So does the rest of finish_worktrees.
LEMMA FinishBooks ==
    ASSUME Typed, Books, OwnOps, OneWriter, RevokedIsGone,
           EndReviewed \/ (\E r \in Pending(mem) : SettlePending(r)) \/ ConcludeTick
    PROVE  Books'
<1> USE DEF Typed
<1>m. mem \in State /\ disk \in State /\ born \in Nat BY DEF RetainedTyped, CountTyped
<1>1. CASE EndReviewed
  <2>1. mem = disk /\ ~failed /\ host.at = "closed" BY <1>1 DEF EndReviewed, OneWriter
  <2>2. Synchronized(mem).records = mem.records BY <1>m, SynchronizedParts DEF ShellsTyped
  <2>3. mem'.records = mem.records /\ disk' = disk
    BY <1>1, <2>1, <2>2 DEF EndReviewed, Recovered
  <2>4. /\ worker' = worker \/ worker' = [kind |-> "writing", op |-> host.op]
        /\ git' = git /\ host'.at # "closed"
    BY <1>1 DEF EndReviewed, external, Stage
  <2>5. AtWork' \subseteq AtWork BY <2>1, <2>4 DEF AtWork
  <2>6. Good(mem'.records, op, revoked, ran, did, AtWork', count["ops"])
    BY <2>3, <2>5, GoodKept DEF Books
  <2>7. UNCHANGED <<op, revoked, ran, did>> /\ count'["ops"] = count["ops"]
    BY <1>1 DEF EndReviewed, clients, ghosts, Count, CountTyped
  <2> QED BY <2>3, <2>5, <2>6, <2>7, BooksStep DEF Books
<1>2. ASSUME NEW r \in Pending(mem), SettlePending(r) PROVE Books'
  <2>1. /\ host.at = "pending" /\ worker = None /\ UNCHANGED <<worker, git, op, revoked, ran, did>>
    BY <1>2 DEF SettlePending, external, clients, ghosts
  <2>2. host'.at \in {"error", "pending"}
    <3>1. \E s \in {"error", "pending"} : host' = [host EXCEPT !.at = s] BY <1>2 DEF SettlePending, At
    <3>2. \E s \in {"error", "pending"} : host' = [at |-> s, job |-> host.job, todo |-> host.todo]
      BY <2>1, <3>1, HostParts DEF HostTyped
    <3> QED BY <3>2
  <2>3. CASE UNCHANGED <<retained, count>>
    <3>1. AtWork' \subseteq AtWork BY <2>1, <2>2, WorkKept
    <3>2. UNCHANGED <<mem, disk, count>> BY <2>3 DEF retained
    <3>3. Good(mem.records, op, revoked, ran, did, AtWork', count["ops"]) BY <3>1, GoodKept DEF Books
    <3> QED BY <2>1, <3>1, <3>2, <3>3, BooksStep DEF Books
  <2>4. CASE git = {} /\ CommitRetained(Settled(mem, r.op, "failed"))
    <3>1. AtWork' = {} BY <2>1, <2>2, <2>4 DEF AtWork
    <3>2. r \in OutcomeRecord /\ r.outcome = "pending" /\ r \in mem.records
      BY <1>m, StateParts DEF Pending
    <3>3. r.op \in Operation /\ [op |-> r.op, outcome |-> "pending"] = r BY <3>2 DEF OutcomeRecord
    <3> QED BY <2>1, <2>4, <3>1, <3>2, <3>3, <1>m, SettleStep
  <2> QED BY <1>2, <2>3, <2>4 DEF SettlePending, LockHeld
<1>3. CASE ConcludeTick
  <2> DEFINE base == IF StillUncertain THEN disk ELSE AfterForgetting
  <2>1. /\ base \in State /\ Good(base.records, op, revoked, ran, did, AtWork, count["ops"])
        /\ Ahead(base.records, disk.records, op)
    BY <1>m, ForgottenTyped, ForgottenBooks, SelfAhead DEF Books
  <2>2. mem' = Synchronized(base) /\ disk' = disk /\ UNCHANGED <<worker, git, op, revoked, ran, did, count>>
    BY <1>3 DEF ConcludeTick, external, clients, ghosts
  <2> HIDE DEF base
  <2>3. mem'.records = base.records BY <2>1, <2>2, SynchronizedParts DEF ShellsTyped
  <2>4. host'.at # "closed" BY <1>3 DEF ConcludeTick, Free
  <2>5. AtWork' \subseteq AtWork BY <2>2, <2>4, WorkKept
  <2>6. Good(mem'.records, op, revoked, ran, did, AtWork', count["ops"])
    BY <2>1, <2>3, <2>5, GoodKept
  <2> QED BY <2>1, <2>2, <2>3, <2>5, <2>6, BooksStep DEF Books
<1> QED BY <1>1, <1>2, <1>3

\* A client's edit, in hand: its operation, and the place of the host.
LEMMA AskingParts ==
    ASSUME Typed, OwnOps, AskedTyped, Asking
    PROVE  /\ host.job.dev \in Devices /\ Asked \in Operation /\ Asked.seq <= count["ops"]
           /\ op[Asked.dev] # None /\ op[Asked.dev].op = Asked /\ op[Asked.dev].answer = "none"
           /\ Asked.dev = host.job.dev /\ HostTyped /\ Concluding
  BY DEF AskedTyped, Typed, ClientsTyped, OwnOps, Asked, Asking

\* Nothing is worked for while nothing is Pending.
LEMMA IdleWhenSettled ==
    ASSUME NEW R, NEW ops, NEW gone, NEW started, NEW carried, NEW n,
           Good(R, ops, gone, started, carried, AtWork, n), \A r \in R : r.outcome # "pending"
    PROVE  AtWork = {} /\ git = {} /\ worker = None
<1>1. AtWork = {}
  <2> SUFFICES ASSUME NEW o \in AtWork PROVE FALSE OBVIOUS
  <2>1. [op |-> o, outcome |-> "pending"] \in R BY DEF Good
  <2>2. [op |-> o, outcome |-> "pending"].outcome = "pending" OBVIOUS
  <2> QED BY <2>1, <2>2
<1>2. worker = None BY <1>1 DEF AtWork
<1>3. \A c \in git : c.op \in AtWork BY DEF AtWork
<1> QED BY <1>1, <1>2, <1>3

\* Settling an edit keeps the outcomes in order.
LEMMA EditsBooks ==
    ASSUME Typed, AskedTyped, Books, OwnOps, RevokedIsGone,
           AskRefused \/ AskRecorded \/ AskEdit \/ BeginWorktree
    PROVE  Books'
<1> USE DEF Typed
<1> DEFINE F == AfterForgetting.records
<1>m. AfterForgetting \in State /\ born \in Nat BY ForgottenTyped DEF CountTyped
<1>g. Good(F, op, revoked, ran, did, AtWork, count["ops"]) /\ Ahead(F, disk.records, op)
  BY ForgottenBooks
<1>u. UNCHANGED <<git, op, revoked, ran, did>> /\ Asking /\ Done
  BY DEF AskRefused, AskRecorded, AskEdit, BeginWorktree, New, Refused, Waits, RestOfAsk, external, ghosts
<1>h. host'.at # "closed" BY <1>u, AskingParts, DonePlace
<1>1. CASE AskRefused \/ AskRecorded
  <2>1. UNCHANGED <<worker, disk, count>> /\ mem' = AfterForgetting
    BY <1>1 DEF AskRefused, AskRecorded
  <2>2. AtWork' \subseteq AtWork BY <1>u, <1>h, <2>1, WorkKept
  <2>3. Good(mem'.records, op, revoked, ran, did, AtWork', count["ops"])
    BY <1>g, <2>1, <2>2, GoodKept
  <2> QED BY <1>g, <1>u, <2>1, <2>2, <2>3, BooksStep DEF Books
<1>2. CASE AskEdit
  <2>0. UNCHANGED <<worker, disk, count>> /\ New(AfterForgetting) /\ Asked.kind \notin {"create", "remove"}
    BY <1>2 DEF AskEdit
  <2>1. AtWork' = {}
    <3>1. AtWork = {} BY <2>0, <1>g, IdleWhenSettled DEF New, Pending
    <3>2. AtWork' \subseteq AtWork BY <1>u, <1>h, <2>0, WorkKept
    <3> QED BY <3>1, <3>2
  <2>2. \E x \in {"accepted", "failed"} : mem'.records = Settling(F, Asked, x)
    <3> DEFINE m == AfterForgetting
               a == AddTab(m, "out", FALSE)
               v == Settled(m, Asked, "accepted")
    <3>1. a \in State /\ a.records = F BY <1>m, AddTabParts
    <3>2. v \in State /\ v.records = Settling(F, Asked, "accepted")
      BY <1>u, <1>m, AskingParts, SettledParts DEF Settling, Outcome
    <3>3. Settled(m, Asked, "failed").records = Settling(F, Asked, "failed")
      BY <1>u, <1>m, AskingParts, SettledParts DEF Settling, Outcome
    <3>4. Settled(a, Asked, "accepted").records = Settling(F, Asked, "accepted")
      BY <1>u, <3>1, AskingParts, SettledParts DEF Settling, Outcome
    <3>5. mem' \in {Settled(a, Asked, "accepted"), Settled(m, Asked, "failed"), [v EXCEPT !.version = @ + 1]}
      BY <1>2 DEF AskEdit
    <3> HIDE DEF m, a, v, F
    <3>6. [v EXCEPT !.version = @ + 1].records = v.records BY <3>2 DEF State
    <3> QED BY <3>2, <3>3, <3>4, <3>5, <3>6
  <2>3. PICK x \in {"accepted", "failed"} : mem'.records = Settling(F, Asked, x) BY <2>2
  <2>4. Good(mem'.records, op, revoked, ran, did, {}, count["ops"]) /\ Ahead(mem'.records, disk.records, op)
    <3> HIDE DEF F
    <3> QED BY <1>g, <1>u, <2>0, <2>3, AskingParts, SettleGood
  <2> QED BY <1>u, <2>0, <2>1, <2>4, BooksStep DEF Books
<1>3. CASE BeginWorktree
  <2> DEFINE T == Settling(F, Asked, "pending")
  <2>0. New(AfterForgetting) /\ CommitFrom(Settled(AfterForgetting, Asked, "pending"), StillUncertain)
    BY <1>3 DEF BeginWorktree
  <2>1. Settled(AfterForgetting, Asked, "pending").records = T
    BY <1>u, <1>m, AskingParts, SettledParts DEF Settling, Outcome
  <2>2. (\A r \in F : r.op # Asked) /\ (\A r \in F : r.outcome # "pending")
    BY <2>0 DEF New, Recorded, Pending
  <2>3. AtWork = {} /\ git = {} /\ worker = None BY <1>g, <2>2, IdleWhenSettled
  <2> HIDE DEF F
  <2>4. Good(T, op, revoked, ran, did, {Asked}, count["ops"]) /\ Ahead(T, disk.records, op)
    BY <1>g, <1>u, <2>2, AskingParts, BeginGood
  <2>5. /\ mem'.records = T /\ disk'.records \in {disk.records, T} /\ (~failed' => disk'.records = T)
        /\ count'["ops"] = count["ops"]
    BY <2>0, <2>1, CommitParts
  <2>6. CASE failed'
    <3>1. worker' = None BY <1>3, <2>3, <2>6 DEF BeginWorktree
    <3>2. AtWork' = {} BY <1>u, <1>h, <2>3, <3>1 DEF AtWork
    <3>3. Good(T, op, revoked, ran, did, {}, count["ops"]) BY <2>4, GoodKept
    <3> HIDE DEF T
    <3> QED BY <1>u, <2>3, <2>4, <2>5, <3>2, <3>3, BooksStep DEF Books
  <2>7. CASE ~failed'
    <3>1. worker'.op = Asked BY <1>3, <2>7 DEF BeginWorktree
    <3>2. AtWork' \subseteq {Asked} BY <1>u, <1>h, <2>3, <3>1 DEF AtWork
    <3>3. Good(T, op, revoked, ran, did, AtWork', count["ops"]) BY <2>4, <3>2, GoodKept
    <3>4. Ahead(T, T, op) BY <2>4, SelfAhead
    <3> HIDE DEF T
    <3> QED BY <1>u, <2>5, <2>7, <3>3, <3>4 DEF Books
  <2> QED BY <2>6, <2>7
<1> QED BY <1>1, <1>2, <1>3

\* Requests, and what the sync worker writes.
LEMMA RequestsBooks ==
    ASSUME Typed, Books, OwnOps,
           \/ Write \/ Tick \/ Stop \/ NextWaiting
           \/ \E d \in Devices, resolve \in BOOLEAN : Ask(d, resolve)
    PROVE  Books'
<1> USE DEF Typed
<1>1. CASE Write
  <2>1. UNCHANGED <<mem, worker, git, host, op, revoked, ran, did>> /\ disk' \in {disk, mem}
    BY <1>1 DEF Write, server, external, clients, ghosts
  <2>2. count'["ops"] = count["ops"] BY <1>1 DEF Write, Count, CountTyped
  <2>3. AtWork' = AtWork BY <2>1 DEF AtWork
  <2> QED BY <2>1, <2>2, <2>3, BooksStep DEF Books
<1>2. CASE \E job, todo : Enter(job, todo) /\ UNCHANGED <<worker, git, op, revoked, ran, did>>
             /\ count'["ops"] = count["ops"]
  <2>1. mem' \in {mem, disk} /\ disk' = disk /\ host'.at # "closed"
    BY <1>2 DEF Enter, Recovered, Stage
  <2>2. AtWork' \subseteq AtWork BY <1>2, <2>1, WorkKept
  <2>3. Good(mem'.records, op, revoked, ran, did, AtWork', count["ops"])
    BY <2>1, <2>2, GoodKept DEF Books
  <2>4. Ahead(mem'.records, disk.records, op) BY <2>1, SelfAhead DEF Books
  <2> QED BY <1>2, <2>1, <2>2, <2>3, <2>4, BooksStep DEF Books
<1>3. CASE Tick BY <1>2, <1>3 DEF Tick, external, clients, ghosts
<1>4. CASE Stop
  <2>1. count'["ops"] = count["ops"] BY <1>4 DEF Stop, Count, CountTyped
  <2> QED BY <1>2, <1>4, <2>1 DEF Stop, external, ghosts
<1>5. CASE NextWaiting BY <1>2, <1>5 DEF NextWaiting, external, clients, ghosts
<1>6. CASE \E d \in Devices, resolve \in BOOLEAN : Ask(d, resolve)
  BY <1>2, <1>6 DEF Ask, external, ghosts
<1> QED BY <1>1, <1>3, <1>4, <1>5, <1>6

\* Threads, Git, removal checks and shells record nothing.
LEMMA ThreadsBooks ==
    ASSUME Typed, Books, OneWriter,
           \/ \E ok \in BOOLEAN : Preflight(ok)
           \/ GitStarts
           \/ \E c \in git : GitActs(c) \/ \E ok \in BOOLEAN : GitExits(c, ok)
           \/ \E d \in Devices : BeginRead(d) \/ ReadSettles(d)
           \/ \E t \in Tabs : Cd(t) \/ Exit(t) \/ StartShell(t)
           \/ UNCHANGED vars
    PROVE  Books'
<1> USE DEF Typed
<1>1. ASSUME UNCHANGED <<mem, disk, op, revoked, ran>>, did \subseteq did', AtWork' \subseteq AtWork,
             count'["ops"] = count["ops"]
      PROVE  Books'
  <2>1. Good(mem.records, op, revoked, ran, did, AtWork', count["ops"]) BY <1>1, GoodKept DEF Books
  <2> QED BY <1>1, <2>1, BooksStep DEF Books
<1>2. ASSUME NEW ok \in BOOLEAN, Preflight(ok) PROVE Books'
  <2>1. /\ UNCHANGED <<mem, disk, op, revoked, ran, did, git, host, count>>
        /\ worker'.op = worker.op /\ worker # None
    BY <1>2, WorkerNone DEF Preflight, retained, clients, ghosts, external
  <2>2. AtWork' \subseteq AtWork BY <2>1 DEF AtWork
  <2> QED BY <1>1, <2>1, <2>2
<1>3. CASE GitStarts
  <2>1. /\ UNCHANGED <<mem, disk, op, revoked, did, host, count>>
        /\ worker'.op = worker.op /\ worker # None /\ ran' = ran \cup {worker.op}
        /\ git' = git \cup {[op |-> worker.op, done |-> FALSE, boot |-> boot]}
    BY <1>3, WorkerNone DEF GitStarts, retained, clients, ghosts
  <2>2. AtWork' \subseteq AtWork BY <2>1 DEF AtWork
  <2>3. worker.op \in AtWork BY <2>1 DEF AtWork
  <2>4. ASSUME NEW R, Good(R, op, revoked, ran, did, AtWork, count["ops"])
        PROVE  Good(R, op, revoked, ran', did, AtWork', count["ops"])
    <3>1. Good(R, op, revoked, ran, did, AtWork', count["ops"]) BY <2>2, <2>4, GoodKept
    <3>2. \E r \in R : r.op = worker.op
      <4>1. [op |-> worker.op, outcome |-> "pending"] \in R BY <2>3, <2>4 DEF Good
      <4> QED BY <4>1
    <3> QED BY <3>1, <3>2, <2>1 DEF Good
  <2> QED BY <2>1, <2>4 DEF Books
<1>4. ASSUME NEW c \in git, GitActs(c) PROVE Books'
  <2>1. /\ UNCHANGED <<mem, disk, op, revoked, ran, worker, host, count>> /\ did \subseteq did'
        /\ git' = (git \ {c}) \cup {[c EXCEPT !.done = TRUE]}
    BY <1>4 DEF GitActs, retained, server, clients
  <2>2. [c EXCEPT !.done = TRUE].op = c.op BY DEF GitTyped
  <2>3. AtWork' \subseteq AtWork BY <2>1, <2>2 DEF AtWork
  <2> QED BY <1>1, <2>1, <2>3
<1>5. ASSUME NEW c \in git, NEW ok \in BOOLEAN, GitExits(c, ok) PROVE Books'
  <2>1. /\ UNCHANGED <<mem, disk, op, revoked, ran, did, host, count>> /\ git' = git \ {c}
        /\ worker' = worker \/ (worker.kind = "running" /\ worker'.op = worker.op)
    BY <1>5 DEF GitExits, retained, clients, ghosts
  <2>2. AtWork' \subseteq AtWork
    <3>1. worker.kind = "running" => worker # None BY WorkerNone
    <3> QED BY <2>1, <3>1 DEF AtWork
  <2> QED BY <1>1, <2>1, <2>2
<1>6. CASE \E d \in Devices : BeginRead(d) \/ ReadSettles(d)
  <2>1. UNCHANGED <<mem, disk, op, revoked, ran, did, worker, git, host>>
    BY <1>6 DEF BeginRead, ReadSettles, retained, clients, ghosts, external
  <2>2. count'["ops"] = count["ops"] BY <1>6 DEF BeginRead, ReadSettles, Count, CountTyped
  <2> QED BY <1>1, <2>1, <2>2, WorkKept
<1>7. CASE \E t \in Tabs : Cd(t) \/ Exit(t) \/ StartShell(t)
  <2>1. UNCHANGED <<mem, disk, op, revoked, ran, did, worker, git, host>>
    BY <1>7 DEF Cd, Exit, StartShell, retained, server, clients, ghosts, external
  <2>2. count'["ops"] = count["ops"] BY <1>7 DEF Cd, Exit, StartShell, Count, CountTyped
  <2> QED BY <1>1, <2>1, <2>2, WorkKept
<1>8. CASE UNCHANGED vars
  <2>1. UNCHANGED <<mem, disk, op, revoked, ran, did, worker, git, host, count>>
    BY <1>8 DEF vars, retained, server, clients, ghosts, external
  <2> QED BY <1>1, <2>1, WorkKept
<1> QED BY <1>2, <1>3, <1>4, <1>5, <1>6, <1>7, <1>8

\* A new operation has no outcome.
LEMMA BeginBooks ==
    ASSUME Typed, Books, OwnOps, NEW d \in Devices, NEW kind \in Kinds, Begin(d, kind)
    PROVE  Books'
<1> USE DEF Typed
<1> DEFINE n == count["ops"]
<1>1. /\ UNCHANGED <<mem, disk, revoked, ran, did, worker, git, host>> /\ count'["ops"] = n + 1
      /\ d \notin revoked /\ op[d] = None /\ op'[d].op.seq = n + 1 /\ n \in Nat
      /\ \A e \in Devices : e # d => op'[e] = op[e]
  BY DEF Begin, Count, CountTyped, ClientsTyped, retained, server, external
<1>2. AtWork' \subseteq AtWork BY <1>1, WorkKept
<1>t. \A r \in mem.records \cup disk.records : r.op \in Operation /\ r.op.dev \in Devices /\ r.op.seq \in Nat
  <2>1. \A r \in mem.records \cup disk.records : r \in OutcomeRecord BY StateParts DEF RetainedTyped
  <2> QED BY <2>1, WorktreesAssumption DEF OutcomeRecord, Operation
<1>r. \A o \in ran : o.seq \in Nat BY WorktreesAssumption DEF GitTyped, Operation
<1> HIDE DEF n
<1>3. ASSUME NEW R, R \subseteq mem.records \cup disk.records, Good(R, op, revoked, ran, did, AtWork, n)
      PROVE  Good(R, op', revoked, ran, did, AtWork', n + 1)
  <2>1. \A r \in R : r.outcome = "pending" =>
          \/ r.op.dev \in revoked
          \/ op'[r.op.dev] # None /\ op'[r.op.dev].op = r.op /\ op'[r.op.dev].answer = "none"
    BY <1>1, <1>3, <1>t DEF Good
  <2>2. op'[d].op \notin ran BY <1>1, <1>r DEF OwnOps, n
  <2>3. \A e \in Devices : op'[e] # None /\ op'[e].op \in ran => \E r \in R : r.op = op'[e].op
    BY <1>1, <1>3, <2>2 DEF Good
  <2>4. \A r \in R : r.op.seq <= n + 1
    <3>1. \A r \in R : r.op.seq \in Nat /\ r.op.seq <= n BY <1>3, <1>t DEF Good
    <3> QED BY <3>1, <1>1
  <2> QED BY <1>2, <1>3, <2>1, <2>3, <2>4 DEF Good
<1>4. Ahead(mem.records, disk.records, op')
  <2>1. ASSUME NEW q \in disk.records, op'[q.op.dev] # None, op'[q.op.dev].op = q.op
        PROVE  \E r \in mem.records : r.op = q.op
    <3>1. q.op.dev \in Devices /\ q.op.seq \in Nat /\ q.op.seq <= n BY <1>t DEF Books, Good, n
    <3>2. q.op.dev # d BY <1>1, <2>1, <3>1
    <3> QED BY <1>1, <2>1, <3>1, <3>2 DEF Books, Ahead
  <2> QED BY <2>1 DEF Books, Ahead
<1> QED BY <1>1, <1>3, <1>4 DEF Books, n

\* What a client is told is no longer Pending.
LEMMA DeliverBooks ==
    ASSUME Typed, Books, OwnOps, NEW d \in Devices, Deliver(d)
    PROVE  Books'
<1> USE DEF Typed
<1>1. UNCHANGED <<mem, disk, revoked, ran, did, worker, git, host, count>>
  BY DEF Deliver, retained, server, external, ghosts
<1>2. AtWork' = AtWork BY <1>1 DEF AtWork
<1>3. CASE op' = op BY <1>1, <1>2, <1>3 DEF Books
<1>4. ASSUME NEW r \in disk.records, r.op = op[d].op, r.outcome # "pending",
             op' = [op EXCEPT ![d].answer = r.outcome]
      PROVE  Books'
  <2>0. op[d] # None BY DEF Deliver, ClientsTyped
  <2>9. op' = [op EXCEPT ![d] = [op[d] EXCEPT !.answer = r.outcome]] BY <1>4
  <2>8. [op[d] EXCEPT !.answer = r.outcome].op = op[d].op BY <2>0 DEF ClientsTyped
  <2>7. r.outcome \in {"accepted", "failed"}
    BY <1>4, StateParts DEF RetainedTyped, OutcomeRecord, Outcome
  <2>6. [op[d] EXCEPT !.answer = r.outcome] # None
    <3>1. [op[d] EXCEPT !.answer = r.outcome] \in [op: Operation, answer: {"none", "accepted", "failed"}]
      BY <2>0, <2>7 DEF ClientsTyped
    <3> QED BY <3>1 DEF None
  <2>1. /\ op'[d] # None /\ op'[d].op = op[d].op /\ \A e \in Devices : e # d => op'[e] = op[e]
    BY <2>6, <2>8, <2>9 DEF ClientsTyped
  <2>2. \A e \in Devices : (op'[e] # None <=> op[e] # None) /\ op'[e].op = op[e].op
    BY <2>0, <2>1
  <2>t. \A q \in mem.records \cup disk.records : q.op.dev \in Devices
    <3>1. \A q \in mem.records \cup disk.records : q \in OutcomeRecord BY StateParts DEF RetainedTyped
    <3> QED BY <3>1 DEF OutcomeRecord, Operation
  <2>3. \A q \in mem.records \cup disk.records : q.outcome = "pending" => q.op # op[d].op
    <3>1. \A q \in mem.records : q.outcome = "pending" => q.op # op[d].op BY <1>4 DEF Books, Ahead
    <3>2. \A q \in disk.records : q.outcome = "pending" => q.op # op[d].op BY <1>4 DEF Books, Good
    <3> QED BY <3>1, <3>2
  <2>4. ASSUME NEW R, R \subseteq mem.records \cup disk.records,
               Good(R, op, revoked, ran, did, AtWork, count["ops"])
        PROVE  Good(R, op', revoked, ran, did, AtWork, count["ops"])
    <3>1. \A q \in R : q.outcome = "pending" =>
          \/ q.op.dev \in revoked
          \/ op'[q.op.dev] # None /\ op'[q.op.dev].op = q.op /\ op'[q.op.dev].answer = "none"
      <4> SUFFICES ASSUME NEW q \in R, q.outcome = "pending", q.op.dev \notin revoked
                   PROVE  op'[q.op.dev] # None /\ op'[q.op.dev].op = q.op /\ op'[q.op.dev].answer = "none"
        OBVIOUS
      <4>1. op[q.op.dev] # None /\ op[q.op.dev].op = q.op /\ op[q.op.dev].answer = "none"
        BY <2>4 DEF Good
      <4>2. q.op.dev # d BY <2>3, <2>4, <4>1
      <4> QED BY <4>1, <4>2, <2>1, <2>4, <2>t
    <3>2. \A e \in Devices : op'[e] # None /\ op'[e].op \in ran => \E q \in R : q.op = op'[e].op
      BY <2>2, <2>4 DEF Good
    <3> QED BY <3>1, <3>2, <2>4 DEF Good
  <2>5. Ahead(mem.records, disk.records, op') BY <2>2, <2>t DEF Books, Ahead
  <2> QED BY <1>1, <1>2, <2>4, <2>5 DEF Books
<1> QED BY <1>3, <1>4 DEF Deliver, Recorded

\* From the outcomes R to the part T of them: the device d has no operation any
\* more, and loses no Pending one; either it had none, or it is revoked.
Retires(R, T, ops, next, gone, more, d) ==
    /\ T \subseteq R /\ gone \subseteq more /\ d \in Devices
    /\ \A r \in R : r.op.dev \in Devices
    /\ \A r \in R : (r.op.dev # d \/ r.outcome = "pending") => r \in T
    /\ (\A r \in R : r.op.dev = d => r.outcome # "pending") \/ d \in more
    /\ next[d] = None /\ \A e \in Devices : e # d => next[e] = ops[e]
    /\ \A e \in Devices : ops[e] # None => ops[e].op.dev = e

\* Outcomes that are acknowledged, or whose device is revoked, leave the others
\* in order.
LEMMA RetireGood ==
    ASSUME NEW R, NEW T, NEW ops, NEW next, NEW gone, NEW more, NEW started,
           NEW carried, NEW work, NEW n, NEW d,
           Good(R, ops, gone, started, carried, work, n), Retires(R, T, ops, next, gone, more, d)
    PROVE  /\ Good(T, next, more, started, carried, work, n)
           /\ \A S : Ahead(R, S, ops) /\ (\A q \in S : q.op.dev \in Devices) => Ahead(T, S, next)
<1> USE DEF Retires
<1>1. \A r \in T : r.outcome = "pending" =>
          \/ r.op.dev \in more
          \/ next[r.op.dev] # None /\ next[r.op.dev].op = r.op /\ next[r.op.dev].answer = "none"
  BY DEF Good
<1>2. ASSUME NEW e \in Devices, next[e] # None, next[e].op \in started
      PROVE  \E r \in T : r.op = next[e].op
  <2>1. e # d /\ next[e] = ops[e] BY <1>2
  <2>2. PICK r \in R : r.op = ops[e].op BY <1>2, <2>1 DEF Good
  <2>3. r.op.dev # d BY <1>2, <2>1, <2>2
  <2> QED BY <2>1, <2>2, <2>3
<1>3. ASSUME NEW o \in work PROVE [op |-> o, outcome |-> "pending"] \in T
  <2>1. [op |-> o, outcome |-> "pending"] \in R /\ [op |-> o, outcome |-> "pending"].outcome = "pending"
    BY DEF Good
  <2> QED BY <2>1
<1>4. Good(T, next, more, started, carried, work, n) BY <1>1, <1>2, <1>3 DEF Good
<1>5. ASSUME NEW S, Ahead(R, S, ops), \A q \in S : q.op.dev \in Devices PROVE Ahead(T, S, next)
  <2>1. ASSUME NEW q \in S, next[q.op.dev] # None, next[q.op.dev].op = q.op
        PROVE  \E r \in T : r.op = q.op
    <3>1. q.op.dev \in Devices /\ q.op.dev # d BY <1>5, <2>1
    <3>2. PICK r \in R : r.op = q.op BY <1>5, <2>1, <3>1 DEF Ahead
    <3> QED BY <3>1, <3>2
  <2> QED BY <1>5, <2>1 DEF Ahead
<1> QED BY <1>4, <1>5

\* Acknowledging keeps the outcomes in order, on disk too.
LEMMA AcknowledgeBooks ==
    ASSUME Typed, Books, OwnOps, RevokedIsGone, NEW d \in Devices, Acknowledge(d)
    PROVE  Books'
<1> USE DEF Typed
<1> DEFINE R == Recovered.records
           T == {r \in R : r.op.dev # d \/ r.op.seq > op[d].op.seq}
<1>1. /\ UNCHANGED <<disk, revoked, ran, did, worker, git, host, count>>
      /\ op[d] # None /\ op[d].answer # "none" /\ d \notin revoked
      /\ op'[d] = None /\ \A e \in Devices : e # d => op'[e] = op[e]
  BY DEF Acknowledge, server, external, ghosts, ClientsTyped, RevokedIsGone
<1>2. AtWork' = AtWork BY <1>1 DEF AtWork
<1>3. mem'.records = T
  <2>1. mem' = [Recovered EXCEPT !.records = T] BY DEF Acknowledge
  <2>2. Recovered \in State BY RecoveredTyped
  <2> HIDE DEF T
  <2> QED BY <2>1, <2>2 DEF State
<1>t. \A q \in mem.records \cup disk.records : q.op.dev \in Devices
  <2>1. \A q \in mem.records \cup disk.records : q \in OutcomeRecord BY StateParts DEF RetainedTyped
  <2> QED BY <2>1 DEF OutcomeRecord, Operation
<1>4. /\ Good(R, op, revoked, ran, did, AtWork, count["ops"]) /\ Ahead(R, disk.records, op)
      /\ R \subseteq mem.records \cup disk.records
  BY SelfAhead DEF Recovered, Books
<1>5. ASSUME NEW Q, Q \subseteq mem.records \cup disk.records,
             Good(Q, op, revoked, ran, did, AtWork, count["ops"])
      PROVE  \A r \in Q : r.op.dev = d => r.outcome # "pending"
  BY <1>1, <1>5 DEF Good
<1>o. \A e \in Devices : op[e] # None => op[e].op.dev = e BY DEF OwnOps
<1> HIDE DEF R
<1>6. T \subseteq R /\ (\A r \in R : r.op.dev # d \/ r.outcome = "pending" => r \in T)
      /\ (\A r \in R : r.op.dev \in Devices)
  BY <1>4, <1>5, <1>t
<1> HIDE DEF T
<1>7. Good(T, op', revoked, ran, did, AtWork, count["ops"]) /\ Ahead(T, disk.records, op')
  <2>1. \A r \in R : r.op.dev = d => r.outcome # "pending" BY <1>4, <1>5
  <2>2. /\ Good(T, op', revoked, ran, did, AtWork, count["ops"])
        /\ \A S : Ahead(R, S, op) /\ (\A q \in S : q.op.dev \in Devices) => Ahead(T, S, op')
    <3>1. Retires(R, T, op, op', revoked, revoked, d) BY <1>1, <1>6, <1>o, <2>1 DEF Retires
    <3> QED BY <1>4, <3>1, RetireGood
  <2> QED BY <1>4, <1>t, <2>2
<1>8. Good(disk.records, op', revoked, ran, did, AtWork, count["ops"])
  <2> DEFINE D == disk.records
  <2>1. Good(D, op, revoked, ran, did, AtWork, count["ops"]) /\ D \subseteq mem.records \cup disk.records
    BY DEF Books
  <2>2. (\A r \in D : r.op.dev \in Devices) /\ (\A r \in D : r.op.dev = d => r.outcome # "pending")
    BY <2>1, <1>5, <1>t
  <2> HIDE DEF D
  <2>3. Good(D, op', revoked, ran, did, AtWork, count["ops"])
    <3>1. Retires(D, D, op, op', revoked, revoked, d) BY <1>1, <1>o, <2>2 DEF Retires
    <3> QED BY <2>1, <3>1, RetireGood
  <2> QED BY <2>3 DEF D
<1> QED BY <1>1, <1>2, <1>3, <1>7, <1>8 DEF Books

\* Revoking a device keeps the outcomes in order.
LEMMA RevokeBooks ==
    ASSUME Typed, Books, OwnOps, RevokedIsGone, NEW d \in Devices, Revoke(d)
    PROVE  Books'
<1> USE DEF Typed
<1> DEFINE R == Recovered.records
           T == Forgetting(R, {d})
           D == disk.records
<1>1. /\ UNCHANGED <<disk, ran, did, worker, git, host, count>> /\ revoked' = revoked \cup {d}
      /\ op'[d] = None /\ \A e \in Devices : e # d => op'[e] = op[e]
  BY DEF Revoke, external, ghosts, ClientsTyped
<1>2. AtWork' = AtWork BY <1>1 DEF AtWork
<1>3. mem'.records = T
  BY RecoveredTyped, ForgetParts DEF Revoke, Forgetting, PendingOf, Pending
<1>t. \A q \in mem.records \cup disk.records : q.op.dev \in Devices
  <2>1. \A q \in mem.records \cup disk.records : q \in OutcomeRecord BY StateParts DEF RetainedTyped
  <2> QED BY <2>1 DEF OutcomeRecord, Operation
<1>4. /\ Good(R, op, revoked, ran, did, AtWork, count["ops"]) /\ Ahead(R, D, op)
      /\ \A r \in R : r.op.dev \in Devices
  BY <1>t, SelfAhead DEF Recovered, Books
<1>5. Good(D, op, revoked, ran, did, AtWork, count["ops"]) /\ \A r \in D : r.op.dev \in Devices
  BY <1>t DEF Books
<1>o. \A e \in Devices : op[e] # None => op[e].op.dev = e BY DEF OwnOps
<1>6. T \subseteq R /\ (\A r \in R : r.op.dev # d \/ r.outcome = "pending" => r \in T)
  BY DEF Forgetting
<1>b. d \in revoked' /\ revoked \subseteq revoked' BY <1>1
<1> HIDE DEF R, T, D
<1>7. Good(T, op', revoked', ran, did, AtWork, count["ops"]) /\ Ahead(T, D, op')
  <2>1. /\ Good(T, op', revoked', ran, did, AtWork, count["ops"])
        /\ \A S : Ahead(R, S, op) /\ (\A q \in S : q.op.dev \in Devices) => Ahead(T, S, op')
    <3>1. Retires(R, T, op, op', revoked, revoked', d) BY <1>1, <1>4, <1>6, <1>o, <1>b DEF Retires
    <3> QED BY <1>4, <3>1, RetireGood
  <2> QED BY <1>4, <1>5, <2>1
<1>8. Good(D, op', revoked', ran, did, AtWork, count["ops"])
  <2>1. Retires(D, D, op, op', revoked, revoked', d) BY <1>1, <1>5, <1>o, <1>b DEF Retires
  <2> QED BY <1>5, <2>1, RetireGood
<1> QED BY <1>1, <1>2, <1>3, <1>7, <1>8 DEF Books, D

\* The next server finds the outcomes in order.
LEMMA RebootBooks ==
    ASSUME Typed, Books, OwnOps, RevokedIsGone, Crash \/ ConcludeStop
    PROVE  Books'
<1> USE DEF Typed
<1>0. PICK record \in {disk, AfterForgetting} : Reboot(record) BY DEF Crash, ConcludeStop
<1>1. /\ record \in State
      /\ Good(record.records, op, revoked, ran, did, AtWork, count["ops"])
  BY <1>0, ForgottenTyped, ForgottenBooks DEF RetainedTyped, Books
<1> DEFINE first == IF Open(record) = {} THEN AddTab(record, "out", FALSE) ELSE record
           D == record.records
           T == Forgetting(D, revoked)
<1>2. first \in State /\ first.records = D BY <1>1, AddTabParts DEF CountTyped
<1>3. disk' = first /\ mem' = Forget(first, revoked) BY <1>0 DEF Reboot
<1>4. /\ UNCHANGED <<op, revoked, ran, did, git>> /\ worker' = None /\ host' = Free
      /\ count'["ops"] = count["ops"]
  <2>1. UNCHANGED <<op, revoked, ran, did, git>> /\ worker' = None /\ host' = Free
    BY <1>0 DEF Reboot, external, ghosts
  <2>2. count'["ops"] = count["ops"] BY DEF Crash, ConcludeStop, Count, CountTyped
  <2> QED BY <2>1, <2>2
<1> HIDE DEF first
<1>5. disk'.records = D /\ mem'.records = T
  BY <1>2, <1>3, ForgetParts DEF Forgetting, PendingOf, Pending
<1>6. AtWork' \subseteq AtWork BY <1>4 DEF AtWork, Free
<1>7. Good(D, op, revoked, ran, did, AtWork', count["ops"]) BY <1>1, <1>6, GoodKept
<1>o. \A e \in Devices : op[e] # None => op[e].op.dev = e BY DEF OwnOps
<1>8. Ahead(D, D, op) BY <1>1, SelfAhead
<1> HIDE DEF D
<1>9. Good(T, op, revoked, ran, did, AtWork', count["ops"]) /\ Ahead(T, D, op)
  BY <1>7, <1>8, <1>o, ForgetGood DEF RevokedIsGone
<1> QED BY <1>4, <1>5, <1>7, <1>9 DEF Books

\* Every step keeps the outcomes in order.
LEMMA BooksInductive ==
    ASSUME Typed, AskedTyped, Books, OwnOps, OneWriter, ReportsAreTrue, RevokedIsGone, [Next]_vars
    PROVE  Books'
<1>1. CASE HostStep
  BY <1>1, JoinsBooks, FinishBooks, EditsBooks, RequestsBooks, RebootBooks DEF HostStep
<1>2. CASE Write \/ Tick \/ Stop \/ \E d \in Devices, resolve \in BOOLEAN : Ask(d, resolve)
  BY <1>2, RequestsBooks
<1>3. CASE Crash BY <1>3, RebootBooks
<1>4. CASE \E d \in Devices : \/ \E kind \in Kinds : Begin(d, kind)
                              \/ Deliver(d) \/ Acknowledge(d) \/ Revoke(d)
  BY <1>4, BeginBooks, DeliverBooks, AcknowledgeBooks, RevokeBooks
<1> QED BY <1>1, <1>2, <1>3, <1>4, ThreadsBooks DEF Next

\* Every step keeps operations their clients' own, with sequences given out.
LEMMA OwnOpsInductive ==
    ASSUME Typed, Books, OwnOps, [Next]_vars PROVE OwnOps'
<1> USE DEF Typed
<1>n. count["ops"] \in Nat BY DEF CountTyped
<1>1. CASE UNCHANGED <<op, ran>> /\ count'["ops"] = count["ops"] BY <1>1 DEF OwnOps
<1>2. CASE JoinFailed \/ JoinOpen \/ JoinWrite \/ JoinChanged \/ JoinWrote
  <2>1. UNCHANGED <<op, ran>> /\ \E next : CommitFrom(next, failed)
    BY <1>2 DEF JoinFailed, JoinOpen, JoinWrite, JoinChanged, JoinWrote, clients, ghosts, CommitRetained
  <2> QED BY <1>1, <2>1, CommitParts
<1>3. ASSUME NEW r \in Pending(mem), SettlePending(r) PROVE OwnOps'
  <2>1. UNCHANGED <<op, ran>> /\ (count' = count \/ \E next : CommitFrom(next, failed))
    BY <1>3 DEF SettlePending, clients, ghosts, CommitRetained
  <2> QED BY <1>1, <2>1, CommitParts
<1>4. CASE BeginWorktree
  <2>1. UNCHANGED <<op, ran>> /\ \E next, uncertain : CommitFrom(next, uncertain)
    BY <1>4 DEF BeginWorktree, RestOfAsk, ghosts
  <2> QED BY <1>1, <2>1, CommitParts
<1>5. CASE AskRefused \/ AskRecorded \/ AskEdit \/ ConcludeTick
  BY <1>1, <1>5 DEF AskRefused, AskRecorded, AskEdit, ConcludeTick, RestOfAsk, clients, ghosts
<1>6. CASE EndReviewed \/ Write \/ Stop
  <2>1. UNCHANGED <<op, ran>> BY <1>6 DEF EndReviewed, Write, Stop, clients, ghosts
  <2>2. count'["ops"] = count["ops"] BY <1>6 DEF EndReviewed, Write, Stop, Count, CountTyped
  <2> QED BY <1>1, <2>1, <2>2
<1>7. CASE Tick \/ NextWaiting \/ (\E d \in Devices, resolve \in BOOLEAN : Ask(d, resolve))
  BY <1>1, <1>7 DEF Tick, NextWaiting, Ask, clients, ghosts
<1>8. CASE Crash \/ ConcludeStop
  <2>1. UNCHANGED <<op, ran>> BY <1>8 DEF Crash, ConcludeStop, Reboot, ghosts
  <2>2. count'["ops"] = count["ops"] BY <1>8 DEF Crash, ConcludeStop, Count, CountTyped
  <2> QED BY <1>1, <2>1, <2>2
<1>9. CASE GitStarts
  <2>1. UNCHANGED <<op, count>> /\ ran' = ran \cup {worker.op} /\ worker # None
    BY <1>9, WorkerNone DEF GitStarts, clients
  <2>2. [op |-> worker.op, outcome |-> "pending"] \in mem.records BY <2>1 DEF Books, Good, AtWork
  <2>3. worker.op.seq <= count["ops"]
    <3>1. [op |-> worker.op, outcome |-> "pending"].op = worker.op OBVIOUS
    <3> QED BY <2>2, <3>1 DEF Books, Good
  <2> QED BY <2>1, <2>3 DEF OwnOps
<1>10. CASE (\E ok \in BOOLEAN : Preflight(ok))
            \/ (\E c \in git : GitActs(c) \/ \E ok \in BOOLEAN : GitExits(c, ok))
            \/ (\E d \in Devices : ReadSettles(d))
  BY <1>1, <1>10 DEF Preflight, GitActs, GitExits, ReadSettles, clients, ghosts
<1>11. CASE (\E d \in Devices : BeginRead(d)) \/ (\E t \in Tabs : Cd(t) \/ Exit(t) \/ StartShell(t))
  <2>1. UNCHANGED <<op, ran>> BY <1>11 DEF BeginRead, Cd, Exit, StartShell, clients, ghosts
  <2>2. count'["ops"] = count["ops"] BY <1>11 DEF BeginRead, Cd, Exit, StartShell, Count, CountTyped
  <2> QED BY <1>1, <2>1, <2>2
<1>12. ASSUME NEW d \in Devices, NEW kind \in Kinds, Begin(d, kind) PROVE OwnOps'
  <2>1. /\ ran' = ran /\ count'["ops"] = count["ops"] + 1
        /\ op'[d].op.dev = d /\ op'[d].op.seq = count["ops"] + 1
        /\ \A e \in Devices : e # d => op'[e] = op[e]
    BY <1>12 DEF Begin, Count, CountTyped, ClientsTyped
  <2>2. \A o \in ran : o.seq \in Nat BY WorktreesAssumption DEF GitTyped, Operation
  <2>3. \A e \in Devices : op[e] # None => op[e].op.seq \in Nat
    BY WorktreesAssumption DEF ClientsTyped, Operation
  <2> QED BY <1>n, <2>1, <2>2, <2>3 DEF OwnOps
<1>13. ASSUME NEW d \in Devices, Deliver(d) PROVE OwnOps'
  <2>1. UNCHANGED <<ran, count>> BY <1>13 DEF Deliver, ghosts
  <2>2. CASE op' = op BY <1>1, <2>1, <2>2
  <2>3. ASSUME NEW x, op' = [op EXCEPT ![d].answer = x] PROVE OwnOps'
    <3>0. op[d] # None BY <1>13 DEF Deliver, ClientsTyped
    <3>1. op' = [op EXCEPT ![d] = [op[d] EXCEPT !.answer = x]] BY <2>3
    <3>2. [op[d] EXCEPT !.answer = x].op = op[d].op BY <3>0 DEF ClientsTyped
    <3>3. op'[d].op = op[d].op /\ \A e \in Devices : e # d => op'[e] = op[e]
      BY <3>1, <3>2 DEF ClientsTyped
    <3> QED BY <2>1, <3>0, <3>3 DEF OwnOps
  <2> QED BY <1>13, <2>2, <2>3 DEF Deliver
<1>14. CASE \E d \in Devices : Acknowledge(d) \/ Revoke(d)
  <2>1. PICK d \in Devices : op' = [op EXCEPT ![d] = None] /\ UNCHANGED <<ran, count>>
    BY <1>14 DEF Acknowledge, Revoke, ghosts
  <2> QED BY <2>1 DEF OwnOps, ClientsTyped
<1>15. CASE UNCHANGED vars BY <1>1, <1>15 DEF vars, clients, ghosts
<1>16. CASE HostStep BY <1>2, <1>3, <1>4, <1>5, <1>6, <1>7, <1>8, <1>16 DEF HostStep
<1> QED BY <1>6, <1>7, <1>8, <1>9, <1>10, <1>11, <1>12, <1>13, <1>14, <1>15, <1>16 DEF Next

\* Every step keeps an operation that is still checked unstarted.
LEMMA NotStartedInductive ==
    ASSUME Typed, AskedTyped, Books, OwnOps, OneWriter, RevokedIsGone, NotStarted, [Next]_vars
    PROVE  NotStarted'
<1> USE DEF Typed
<1>k. None.kind = "none" BY WorkerNone
<1>1. CASE UNCHANGED <<ran, worker>> /\ (host' = host \/ host'.at # "closed") BY <1>1 DEF NotStarted
<1>2. CASE worker' = None /\ host'.at # "closed" BY <1>k, <1>2 DEF NotStarted
<1>3. CASE JoinFailed \/ JoinOpen \/ JoinChanged \/ JoinWrote
  <2>1. host.at = "finish" /\ worker' = None /\ Joined
    BY <1>3 DEF JoinFailed, JoinOpen, JoinChanged, JoinWrote
  <2> QED BY <1>2, <2>1, JoinedPlace
<1>4. CASE JoinWrite
  <2>1. /\ worker.kind = "prepared" /\ worker' = None /\ ran' = ran /\ host.at = "finish"
        /\ \/ host' = [host EXCEPT !.at = "error"]
           \/ host' = [at |-> "closed", job |-> host.job, todo |-> host.todo, op |-> worker.op]
    BY <1>4 DEF JoinWrite, ghosts
  <2>3. [host EXCEPT !.at = "error"] = [at |-> "error", job |-> host.job, todo |-> host.todo]
    BY <2>1, HostParts DEF HostTyped
  <2>2. host'.at = "error" \/ host'.op = worker.op BY <2>1, <2>3
  <2>4. (host'.at = "closed" => host'.op \notin ran') BY <2>1, <2>2 DEF NotStarted
  <2> QED BY <1>k, <2>1, <2>4 DEF NotStarted
<1>5. CASE EndReviewed
  <2>1. /\ host.at = "closed" /\ ran' = ran /\ host'.at # "closed"
        /\ worker' = worker \/ worker' = [kind |-> "writing", op |-> host.op]
    BY <1>5 DEF EndReviewed, ghosts, Stage
  <2> QED BY <2>1 DEF NotStarted
<1>6. ASSUME NEW r \in Pending(mem), SettlePending(r) PROVE NotStarted'
  <2>1. host.at = "pending" /\ UNCHANGED <<ran, worker>> BY <1>6 DEF SettlePending, ghosts
  <2>2. \E s \in {"error", "pending"} : host' = [at |-> s, job |-> host.job, todo |-> host.todo]
    BY <1>6, <2>1, HostParts DEF SettlePending, At, HostTyped
  <2> QED BY <1>1, <2>1, <2>2
<1>7. CASE AskRefused \/ AskRecorded \/ AskEdit \/ BeginWorktree
  <2>1. Asking /\ Done /\ ran' = ran
    BY <1>7 DEF AskRefused, AskRecorded, AskEdit, BeginWorktree, New, Refused, Waits, RestOfAsk, ghosts
  <2>2. host'.at # "closed" BY <2>1, AskingParts, DonePlace
  <2>3. CASE worker' = worker BY <1>1, <2>1, <2>2, <2>3
  <2>4. CASE BeginWorktree /\ worker'.op = Asked
    <3>1. Recorded(AfterForgetting, Asked) = {} BY <2>4 DEF BeginWorktree, New
    <3>2. Good(AfterForgetting.records, op, revoked, ran, did, AtWork, count["ops"]) BY ForgottenBooks
    <3>3. Asked \notin ran
      <4>1. host.job.dev \in Devices /\ op[host.job.dev] # None /\ op[host.job.dev].op = Asked
        BY <2>1 DEF AskedTyped, Asked
      <4> QED BY <3>1, <3>2, <4>1 DEF Good, Recorded
    <3> QED BY <2>1, <2>2, <2>4, <3>3 DEF NotStarted
  <2>5. worker' = worker \/ (BeginWorktree /\ worker'.op = Asked)
    <3>1. CASE AskRefused \/ AskRecorded \/ AskEdit BY <3>1 DEF AskRefused, AskRecorded, AskEdit
    <3>2. CASE BeginWorktree BY <3>2 DEF BeginWorktree
    <3> QED BY <1>7, <3>1, <3>2
  <2> QED BY <2>3, <2>4, <2>5
<1>8. CASE ConcludeTick BY <1>1, <1>8 DEF ConcludeTick, ghosts, Free
<1>9. CASE Tick \/ Stop \/ NextWaiting \/ (\E d \in Devices, resolve \in BOOLEAN : Ask(d, resolve))
  <2>1. UNCHANGED <<ran, worker>> /\ \E job, todo : Enter(job, todo)
    BY <1>9 DEF Tick, Stop, NextWaiting, Ask, ghosts
  <2>2. host'.at # "closed" BY <2>1 DEF Enter, Stage
  <2> QED BY <1>1, <2>1, <2>2
<1>10. CASE Crash \/ ConcludeStop
  <2>1. \E record : Reboot(record) BY <1>10 DEF Crash, ConcludeStop
  <2>2. worker' = None /\ host' = Free BY <2>1 DEF Reboot
  <2> QED BY <1>2, <2>2 DEF Free
<1>11. CASE GitStarts
  <2>1. worker.kind = "writing" /\ worker' = [kind |-> "running", op |-> worker.op] /\ host' = host
    BY <1>11 DEF GitStarts
  <2>2. host.at # "closed" BY <2>1, <1>k DEF OneWriter
  <2> QED BY <2>1, <2>2 DEF NotStarted
<1>12. ASSUME NEW ok \in BOOLEAN, Preflight(ok) PROVE NotStarted'
  <2>1. /\ worker.kind = "preflight" /\ worker'.op = worker.op /\ UNCHANGED <<host, ran>>
    BY <1>12 DEF Preflight, ghosts
  <2> QED BY <2>1 DEF NotStarted
<1>13. ASSUME NEW c \in git, NEW ok \in BOOLEAN, GitExits(c, ok) PROVE NotStarted'
  <2>1. UNCHANGED <<host, ran>> /\ (worker' = worker \/ worker'.kind = "wrote")
    BY <1>13 DEF GitExits, ghosts
  <2> QED BY <2>1 DEF NotStarted
<1>14. CASE Write \/ (\E c \in git : GitActs(c))
            \/ (\E d \in Devices : \/ BeginRead(d) \/ ReadSettles(d) \/ (\E kind \in Kinds : Begin(d, kind))
                                   \/ Deliver(d) \/ Acknowledge(d) \/ Revoke(d))
            \/ (\E t \in Tabs : Cd(t) \/ Exit(t) \/ StartShell(t))
  <2>1. UNCHANGED <<worker, host>>
    BY <1>14 DEF Write, GitActs, BeginRead, ReadSettles, Begin, Deliver, Acknowledge, Revoke, Cd, Exit,
                 StartShell, server
  <2>2. UNCHANGED ran
    BY <1>14 DEF Write, GitActs, BeginRead, ReadSettles, Begin, Deliver, Acknowledge, Revoke, Cd, Exit,
                 StartShell, ghosts
  <2> QED BY <1>1, <2>1, <2>2
<1>15. CASE UNCHANGED vars BY <1>1, <1>15 DEF vars, server, ghosts
<1>16. CASE HostStep BY <1>3, <1>4, <1>5, <1>6, <1>7, <1>8, <1>9, <1>10, <1>16 DEF HostStep
<1> QED BY <1>9, <1>10, <1>11, <1>12, <1>13, <1>14, <1>15, <1>16 DEF Next

\* The parts of the invariant, as the proofs keep them.
WorkHolds ==
    /\ Typed /\ JobsAreAsked /\ OneWriter /\ RevokedIsGone /\ ReportsAreTrue
    /\ Books /\ OwnOps /\ NotStarted

\* The server starts with nothing recorded, asked or worked for.
LEMMA WorkStarts == ASSUME Init PROVE WorkHolds
<1>a. None \in WorkerState /\ None.kind = "none" /\ worker = None BY WorkerNone DEF Init
<1>t. Typed
  <2>1. \A t \in Tabs : t \in Nat BY WorktreesAssumption
  <2>2. mem \in State /\ disk \in State
    <3> DEFINE D == [t \in Tabs |-> IF t = 1 THEN "out" ELSE IF t = 2 /\ exists THEN "in" ELSE "none"]
               M == IF exists THEN {2} ELSE {}
    <3>1. D \in [Tabs -> {"none", "out", "in"}] /\ M \in SUBSET Nat OBVIOUS
    <3>2. mem = [dir |-> D, member |-> M, records |-> {}, version |-> 0] BY DEF Init
    <3> HIDE DEF D, M
    <3>3. mem \in State BY <3>1, <3>2 DEF State
    <3> QED BY <3>3 DEF Init
  <2>3. HostTyped BY <1>a DEF Init, HostTyped, HostFits, HostState
  <2>4. ShellsTyped BY DEF Init, ShellsTyped
  <2>5. ClientsTyped BY DEF Init, ClientsTyped
  <2>6. ReviewsTyped BY DEF Init, ReviewsTyped
  <2> QED BY <2>2, <2>3, <2>4, <2>5, <2>6 DEF Init, Typed, RetainedTyped, GitTyped, CountTyped
<1>h. host.at = "free" /\ git = {} /\ mem.records = {} /\ disk.records = {} /\ ran = {} BY DEF Init
<1>1. JobsAreAsked BY <1>h DEF Init, JobsAreAsked, InHand, Todo
<1>2. OneWriter /\ ReportsAreTrue /\ NotStarted BY <1>a, <1>h DEF OneWriter, ReportsAreTrue, NotStarted
<1>3. RevokedIsGone BY DEF Init, RevokedIsGone
<1>4. AtWork = {} BY <1>a, <1>h DEF AtWork
<1>o. \A d \in Devices : op[d] = None BY DEF Init
<1>5. Books BY <1>h, <1>4, <1>o DEF Books, Good, Ahead
<1>6. OwnOps BY <1>h, <1>o DEF OwnOps
<1> QED BY <1>t, <1>1, <1>2, <1>3, <1>5, <1>6 DEF WorkHolds

\* Every step keeps them.
LEMMA WorkInductive == ASSUME WorkHolds, [Next]_vars PROVE WorkHolds'
<1> USE DEF WorkHolds
<1>1. AskedTyped BY InHandIsAsked
<1>2. Typed' BY <1>1, TypedInductive
<1>3. JobsAreAsked' BY <1>1, JobsInductive
<1>4. OneWriter' BY OneWriterInductive
<1>5. RevokedIsGone' BY RevokedInductive
<1>6. ReportsAreTrue' BY ReportsInductive
<1>7. Books' BY <1>1, BooksInductive
<1>8. OwnOps' BY OwnOpsInductive
<1>9. NotStarted' BY <1>1, NotStartedInductive
<1> QED BY <1>2, <1>3, <1>4, <1>5, <1>6, <1>7, <1>8, <1>9

\* They are the invariant.
LEMMA WorkParts == ASSUME WorkHolds PROVE TypeOK /\ WorkInv
<1> USE DEF WorkHolds
<1>0. TypeOK BY TypeGroups
<1>1. OneOutcome BY DEF OneOutcome, Books, Good
<1>2. PendingIsAwaited BY DEF PendingIsAwaited, Pending, Current, Books, Good
<1>3. MemoryIsAhead BY DEF MemoryIsAhead, Pending, Current, Recorded, Books, Ahead
<1>4. WorkIsPending BY DEF WorkIsPending, Books, Good
<1>5. StartedIsRecorded BY DEF StartedIsRecorded, Recorded, NotStarted, Books, Good
<1>6. AcceptedWasDone BY DEF AcceptedWasDone, ReportsAreTrue, Books, Good
<1>7. Numbered BY DEF Numbered, OwnOps, Books, Good
<1> QED BY <1>0, <1>1, <1>2, <1>3, <1>4, <1>5, <1>6, <1>7 DEF WorkInv

\* Every variable keeps its type, in every server the repository is given, over
\* failed writes, crashes and restarts.
THEOREM WorktreesTypeCorrect == Spec => []TypeOK
<1>1. Init => WorkHolds BY WorkStarts
<1>2. WorkHolds /\ [Next]_vars => WorkHolds' BY WorkInductive
<1>3. WorkHolds => TypeOK BY WorkParts
<1> QED BY <1>1, <1>2, <1>3, PTL DEF Spec

\* The outcomes in memory and on disk fit what clients, threads and Git do: the
\* inductive invariant the next theorems rest on.  (finish_worktrees, mutate)
THEOREM WorkInvHolds == Spec => []WorkInv
<1>1. Init => WorkHolds BY WorkStarts
<1>2. WorkHolds /\ [Next]_vars => WorkHolds' BY WorkInductive
<1>3. WorkHolds => WorkInv BY WorkParts
<1> QED BY <1>1, <1>2, <1>3, PTL DEF Spec

\* A thread and a Git child only ever work for an operation whose Pending outcome
\* is retained, whatever fails or crashes.  (commit_retained, finish_worktrees)
THEOREM WritesAreRecorded == Spec => []WriteIsRecorded
<1>1. WorkInv => WriteIsRecorded BY DEF WorkInv, WorkIsPending, AtWork, WriteIsRecorded
<1> QED BY <1>1, WorkInvHolds, PTL

\* An accepted creation or removal was carried out by Git.  (settle_worktree)
THEOREM AcceptedWereDone == Spec => []AcceptedIsDone
<1>1. WorkInv => AcceptedIsDone BY DEF WorkInv, AcceptedWasDone, AcceptedIsDone
<1> QED BY <1>1, WorkInvHolds, PTL

\* Git starts only for the operation of a thread that is about to write.
LEMMA OnlyWritersStart ==
    ASSUME Typed, [Next]_vars, NEW c \in git', c.op \notin {e.op : e \in git}
    PROVE  worker.kind = "writing" /\ c.op = worker.op
<1> USE DEF Typed
<1>1. CASE GitStarts
  <2>1. /\ worker.kind = "writing"
        /\ git' = git \cup {[op |-> worker.op, done |-> FALSE, boot |-> boot]}
    BY <1>1 DEF GitStarts
  <2> QED BY <2>1
<1>2. ASSUME NEW e \in git, GitActs(e) PROVE FALSE
  <2>1. git' = (git \ {e}) \cup {[e EXCEPT !.done = TRUE]} BY <1>2 DEF GitActs
  <2>2. [e EXCEPT !.done = TRUE].op = e.op BY DEF GitTyped
  <2> QED BY <2>1, <2>2
<1>3. ASSUME NEW e \in git, NEW ok \in BOOLEAN, GitExits(e, ok) PROVE FALSE
  BY <1>3 DEF GitExits
<1>4. CASE HostStep
  <2>1. CASE NextWaiting \/ JoinFailed \/ JoinOpen \/ JoinWrite \/ JoinChanged \/ EndReviewed \/ JoinWrote
    BY <2>1 DEF NextWaiting, JoinFailed, JoinOpen, JoinWrite, JoinChanged, EndReviewed, JoinWrote, external
  <2>2. CASE (\E r \in Pending(mem) : SettlePending(r)) \/ ConcludeTick \/ AskRefused \/ AskRecorded
             \/ AskEdit \/ BeginWorktree \/ ConcludeStop
    BY <2>2 DEF SettlePending, ConcludeTick, AskRefused, AskRecorded, AskEdit, BeginWorktree, RestOfAsk,
                ConcludeStop, Reboot, external
  <2> QED BY <1>4, <2>1, <2>2 DEF HostStep
<1>5. CASE Write \/ Tick \/ Stop \/ Crash \/ (\E d \in Devices, resolve \in BOOLEAN : Ask(d, resolve))
  BY <1>5 DEF Write, Tick, Stop, Crash, Ask, Reboot, external
<1>6. CASE (\E ok \in BOOLEAN : Preflight(ok))
           \/ (\E d \in Devices : \/ BeginRead(d) \/ ReadSettles(d) \/ (\E kind \in Kinds : Begin(d, kind))
                                  \/ Deliver(d) \/ Acknowledge(d) \/ Revoke(d))
           \/ (\E t \in Tabs : Cd(t) \/ Exit(t) \/ StartShell(t))
  BY <1>6 DEF Preflight, BeginRead, ReadSettles, Begin, Deliver, Acknowledge, Revoke, Cd, Exit, StartShell,
              external
<1>7. CASE UNCHANGED vars BY <1>7 DEF vars, external
<1> QED BY <1>1, <1>2, <1>3, <1>4, <1>5, <1>6, <1>7 DEF Next

\* Git is started at most once for an operation, however often it is sent,
\* resolved, recovered or interrupted.  (mutate, finish_worktrees)
THEOREM WritesStartOnce == Spec => StartedOnce
<1> DEFINE A == \A c \in git' : c.op \notin {e.op : e \in git} => c.op \notin ran
<1>1. Init => WorkHolds BY WorkStarts
<1>2. WorkHolds /\ [Next]_vars => WorkHolds' BY WorkInductive
<1>3. WorkHolds /\ [Next]_vars => [A]_vars
  <2> SUFFICES ASSUME WorkHolds, [Next]_vars, NEW c \in git', c.op \notin {e.op : e \in git}
               PROVE  c.op \notin ran
    OBVIOUS
  <2>1. worker.kind = "writing" /\ c.op = worker.op BY OnlyWritersStart DEF WorkHolds
  <2> QED BY <2>1 DEF WorkHolds, NotStarted
<1> QED BY <1>1, <1>2, <1>3, PTL DEF Spec, StartedOnce

-----------------------------------------------------------------------------
(* Tabs, their Sessions and the reviews that show them.                    *)

\* The Tab a step makes.
Made == IF born' = born THEN {} ELSE {born + 1}

\* What a step may do to Tabs: those of memory and disk are in turn the ones of
\* either, and the next one; a Session that is there was there, or starts in an
\* open Tab; a running shell loses its Tab only if a confirmed review shows it,
\* and its Session ends only after its Tab is gone, or with the server.
TabsKept ==
    /\ born' \in {born, born + 1}
    /\ \A s \in {mem', disk'} : \E b \in {mem, disk} : Open(s) \subseteq Open(b) \cup Made
    /\ \A t \in Tabs : live'[t] # 0 => live'[t] = live[t] \/ t \in Open(mem)
    /\ \A t \in Tabs :
          live'[t] # 0 /\ t \notin exited' /\ t \notin Open(mem') \cap Open(disk') =>
             \/ live'[t] = live[t] /\ t \notin exited /\ t \notin Open(mem) \cap Open(disk)
             \/ \E v \in confirmed' : <<t, live'[t]>> \in v.tabs
    /\ \A t \in Tabs :
          live[t] # 0 /\ t \notin exited /\ live'[t] # live[t] /\ boot' = boot =>
             t \notin Open(mem) \cap Open(disk)

\* synchronize ends no Session of an open Tab, and forgets no exited shell.
LEMMA EndParts ==
    ASSUME ShellsTyped, NEW m, NEW durable, EndDeleted(m, durable)
    PROVE  /\ \A t \in Tabs : \/ live'[t] = live[t] /\ (t \in exited => t \in exited')
                              \/ live'[t] = 0 /\ t \notin Open(m)
           /\ durable => \A t \in Tabs \ Open(m) : live'[t] = 0
  BY DEF ShellsTyped, EndDeleted

\* A step that commits the Tabs of memory or disk, less those whose shell
\* exited and with the next one, or none, does no more than it may.
LEMMA TabsStep ==
    ASSUME Typed, NEW b \in {mem, disk},
           \A t \in Tabs : \/ live'[t] = live[t] /\ (t \in exited => t \in exited')
                           \/ live'[t] = 0 /\ t \notin Open(b) \ exited,
           \/ born' = born /\ Open(mem') \subseteq Open(b)
           \/ born' = born + 1 /\ Open(mem') \subseteq Open(b) \cup {born + 1},
           Open(b) \ exited \subseteq Open(mem'),
           Open(disk') \in {Open(mem), Open(disk), Open(mem')}
    PROVE  TabsKept
<1>1. born \in Nat BY DEF Typed, CountTyped
<1>2. Open(mem') \subseteq Open(b) \cup Made BY <1>1 DEF Made
<1>3. \A s \in {mem', disk'} : \E e \in {mem, disk} : Open(s) \subseteq Open(e) \cup Made BY <1>2
<1>4. \A t \in Tabs :
          live'[t] # 0 /\ t \notin exited' /\ t \notin Open(mem') \cap Open(disk') =>
             live'[t] = live[t] /\ t \notin exited /\ t \notin Open(mem) \cap Open(disk)
  OBVIOUS
<1>5. \A t \in Tabs :
          live[t] # 0 /\ t \notin exited /\ live'[t] # live[t] /\ boot' = boot =>
             t \notin Open(mem) \cap Open(disk)
  OBVIOUS
<1> QED BY <1>3, <1>4, <1>5 DEF TabsKept

\* A step that leaves the shells alone and commits the Tabs of memory or disk.
LEMMA QuietStep ==
    ASSUME Typed, UNCHANGED <<live, exited, born>>,
           Open(mem') \in {Open(mem), Open(disk)}, Open(disk') \in {Open(mem), Open(disk)}
    PROVE  TabsKept
<1>1. PICK b \in {mem, disk} : Open(mem') = Open(b) OBVIOUS
<1> QED BY <1>1, TabsStep

\* The steps that join a thread.
LEMMA JoinsTabs ==
    ASSUME WorkHolds, RemovalIsConfirmed, TabsAreBorn,
           JoinFailed \/ JoinOpen \/ JoinWrite \/ JoinChanged \/ JoinWrote
    PROVE  TabsKept
<1> USE DEF WorkHolds, Typed
<1>m. mem \in State /\ disk \in State /\ born \in Nat BY DEF RetainedTyped, CountTyped
<1>s. Synchronized(mem) \in State /\ Open(Synchronized(mem)) = Open(mem) \ exited
  BY <1>m, SynchronizedParts DEF ShellsTyped
<1>0. worker # None /\ worker.op \in Operation
  BY WorkerParts, WorkerNone
     DEF JoinFailed, JoinOpen, JoinWrite, JoinChanged, JoinWrote, Finished, HostTyped
<1>c. ASSUME NEW next, CommitRetained(next)
      PROVE  mem' = next /\ (disk' = disk \/ disk' = mem')
  BY <1>c, CommitParts DEF CommitRetained
<1>o. ASSUME NEW m \in State, NEW x \in {"accepted", "failed"}
      PROVE  Open(Settled(m, worker.op, x)) = Open(m)
  BY <1>0, SettledParts DEF Outcome
<1>e. ASSUME NEW durable, EndDeleted(Synchronized(mem), durable)
      PROVE  \A t \in Tabs : \/ live'[t] = live[t] /\ (t \in exited => t \in exited')
                             \/ live'[t] = 0 /\ t \notin Open(mem) \ exited
  BY <1>e, <1>s, EndParts
<1>1. CASE JoinFailed
  <2>1. UNCHANGED <<live, exited, born>> /\ CommitRetained(Settled(mem, worker.op, "failed"))
    BY <1>1 DEF JoinFailed, shells
  <2> QED BY <1>c, <1>m, <1>o, <2>1, QuietStep
<1>2. CASE JoinOpen
  <2> DEFINE m == Synchronized(mem)
             a == AddTab(m, "in", TRUE)
  <2>1. EndDeleted(m, mem = disk /\ ~failed) BY <1>2 DEF JoinOpen
  <2>2. \/ CommitRetained(Settled(a, worker.op, "accepted")) /\ born' = born + 1
        \/ CommitRetained(Settled(m, worker.op, "failed")) /\ born' = born
    BY <1>2 DEF JoinOpen
  <2>3. a \in State /\ Open(m) \subseteq Open(a) /\ Open(a) \subseteq Open(m) \cup {born + 1}
    BY <1>m, <1>s, AddTabParts
  <2>4. m \in State /\ Open(m) = Open(mem) \ exited BY <1>s
  <2>e. \A t \in Tabs : \/ live'[t] = live[t] /\ (t \in exited => t \in exited')
                        \/ live'[t] = 0 /\ t \notin Open(mem) \ exited
    BY <1>e, <2>1
  <2> HIDE DEF m, a
  <2>5. CASE CommitRetained(Settled(a, worker.op, "accepted")) /\ born' = born + 1
    <3>1. Open(mem') = Open(a) /\ (disk' = disk \/ disk' = mem') BY <1>c, <1>o, <2>3, <2>5
    <3> QED BY <2>3, <2>4, <2>5, <2>e, <3>1, TabsStep
  <2>6. CASE CommitRetained(Settled(m, worker.op, "failed")) /\ born' = born
    <3>1. Open(mem') = Open(m) /\ (disk' = disk \/ disk' = mem') BY <1>c, <1>o, <2>4, <2>6
    <3> QED BY <2>4, <2>6, <2>e, <3>1, TabsStep
  <2> QED BY <2>2, <2>5, <2>6
<1>3. CASE JoinWrite
  <2> DEFINE m == Synchronized(mem)
  <2>1. EndDeleted(m, mem = disk /\ ~failed) /\ CommitRetained(Closed(m)) /\ UNCHANGED <<confirmed, boot>>
    BY <1>3 DEF JoinWrite, ghosts
  <2>2. born' = IF NeedsFallback(m) THEN born + 1 ELSE born BY <1>3 DEF JoinWrite
  <2>3. m \in State /\ Open(m) = Open(mem) \ exited BY <1>s
  <2>e. \A t \in Tabs : \/ live'[t] = live[t] /\ (t \in exited => t \in exited')
                        \/ live'[t] = 0 /\ t \notin Open(mem) \ exited
    BY <1>e, <2>1
  <2>4. /\ Open(Closed(m)) \subseteq (Open(m) \cup {born + 1}) \ Closing
        /\ Open(m) \ Closing \subseteq Open(Closed(m))
        /\ ~NeedsFallback(m) => Open(Closed(m)) = Open(m) \ Closing
    BY <1>m, <2>3, ClosedParts
  <2>5. mem' = Closed(m) /\ (disk' = disk \/ disk' = mem') BY <1>c, <2>1
  <2>6. born' \in {born, born + 1} /\ Open(mem') \subseteq Open(mem) \cup Made
    BY <1>m, <2>2, <2>3, <2>4, <2>5 DEF Made
  <2>7. ASSUME NEW t \in Tabs, t \in Closing
        PROVE  \E v \in confirmed : <<t, live[t]>> \in v.tabs
    <3>1. worker.kind = "prepared" /\ worker.ok /\ StillFits(m) BY <1>3 DEF JoinWrite
    <3>2. worker.op.kind = "remove"
      BY <2>7, <3>1 DEF RemovalIsConfirmed, Closing
    <3>3. AffectedTabs(m) = worker.tabs BY <3>1, <3>2 DEF StillFits
    <3>4. PICK v \in confirmed : v.tabs = worker.tabs BY <3>1, <3>2 DEF RemovalIsConfirmed
    <3>5. <<t, live[t]>> \in AffectedTabs(m)
      <4>1. PICK pair \in AffectedTabs(m) : t = pair[1] BY <2>7, <3>3 DEF Closing
      <4>2. PICK u \in Open(m) : pair = <<u, live[u]>> BY DEF AffectedTabs
      <4> QED BY <4>1, <4>2
    <3> QED BY <3>3, <3>4, <3>5
  <2> HIDE DEF m
  <2>8. \A s \in {mem', disk'} : \E e \in {mem, disk} : Open(s) \subseteq Open(e) \cup Made
    BY <2>5, <2>6
  <2>9. \A t \in Tabs :
          live'[t] # 0 /\ t \notin exited' /\ t \notin Open(mem') \cap Open(disk') =>
             \/ live'[t] = live[t] /\ t \notin exited /\ t \notin Open(mem) \cap Open(disk)
             \/ \E v \in confirmed' : <<t, live'[t]>> \in v.tabs
    <3> SUFFICES ASSUME NEW t \in Tabs, live'[t] # 0, t \notin exited', t \notin Open(mem') \cap Open(disk'),
                        t \notin Closing
                 PROVE  live'[t] = live[t] /\ t \notin exited /\ t \notin Open(mem) \cap Open(disk)
      BY <2>1, <2>7, <2>e
    <3>1. live'[t] = live[t] /\ t \notin exited BY <2>e
    <3>2. t \in Open(mem) => t \in Open(mem') BY <3>1, <2>3, <2>4, <2>5
    <3> QED BY <3>1, <3>2, <2>5
  <2>10. \A t \in Tabs :
          live[t] # 0 /\ t \notin exited /\ live'[t] # live[t] /\ boot' = boot =>
             t \notin Open(mem) \cap Open(disk)
    BY <2>e
  <2> QED BY <2>6, <2>8, <2>9, <2>10, <2>e DEF TabsKept
<1>4. CASE JoinChanged
  <2> DEFINE m == Synchronized(mem)
  <2>1. EndDeleted(m, mem = disk /\ ~failed) /\ CommitRetained(Settled(m, worker.op, "failed")) /\ born' = born
    BY <1>4 DEF JoinChanged
  <2>4. m \in State /\ Open(m) = Open(mem) \ exited BY <1>s
  <2>e. \A t \in Tabs : \/ live'[t] = live[t] /\ (t \in exited => t \in exited')
                        \/ live'[t] = 0 /\ t \notin Open(mem) \ exited
    BY <1>e, <2>1
  <2> HIDE DEF m
  <2>5. Open(mem') = Open(m) /\ (disk' = disk \/ disk' = mem') BY <1>c, <1>o, <2>1, <2>4
  <2> QED BY <2>1, <2>4, <2>5, <2>e, TabsStep
<1>5. CASE JoinWrote
  <2> DEFINE a == AddTab(mem, "in", TRUE)
  <2>1. UNCHANGED <<live, exited>> BY <1>5 DEF JoinWrote, shells
  <2>2. \/ CommitRetained(Settled(a, worker.op, "accepted")) /\ born' = born + 1
        \/ CommitRetained(Settled(mem, worker.op, "accepted")) /\ born' = born
        \/ CommitRetained(Settled(mem, worker.op, "failed")) /\ born' = born
    BY <1>5 DEF JoinWrote
  <2>3. a \in State /\ Open(mem) \subseteq Open(a) /\ Open(a) \subseteq Open(mem) \cup {born + 1}
    BY <1>m, AddTabParts
  <2> HIDE DEF a
  <2>4. CASE CommitRetained(Settled(a, worker.op, "accepted")) /\ born' = born + 1
    <3>1. Open(mem') = Open(a) /\ (disk' = disk \/ disk' = mem') BY <1>c, <1>o, <2>3, <2>4
    <3> QED BY <2>1, <2>3, <2>4, <3>1, TabsStep
  <2>5. CASE born' = born
    <3>1. Open(mem') = Open(mem) /\ (disk' = disk \/ disk' = mem') BY <1>c, <1>o, <1>m, <2>2, <2>5
    <3> QED BY <2>1, <2>5, <3>1, QuietStep
  <2> QED BY <2>2, <2>4, <2>5
<1> QED BY <1>1, <1>2, <1>3, <1>4, <1>5

\* The other steps of finish_worktrees, of a tick and of an edit.
LEMMA HostTabs ==
    ASSUME WorkHolds, EndReviewed \/ (\E r \in Pending(mem) : SettlePending(r)) \/ ConcludeTick
                      \/ AskRefused \/ AskRecorded \/ AskEdit \/ BeginWorktree
    PROVE  TabsKept
<1> USE DEF WorkHolds, Typed
<1>m. mem \in State /\ disk \in State /\ born \in Nat BY DEF RetainedTyped, CountTyped
<1>f. AfterForgetting \in State /\ Open(AfterForgetting) \in {Open(mem), Open(disk)} BY ForgottenTyped
<1>1. CASE EndReviewed
  <2>1. mem = disk /\ ~failed /\ Recovered = mem BY <1>1 DEF EndReviewed, OneWriter, Recovered
  <2>2. /\ disk' = disk /\ born' = born
        /\ \/ mem' = mem /\ UNCHANGED <<live, exited>>
           \/ mem' = Synchronized(mem) /\ EndDeleted(Synchronized(mem), TRUE)
    BY <1>1, <2>1 DEF EndReviewed, shells
  <2>3. CASE mem' = mem /\ UNCHANGED <<live, exited>> BY <2>2, <2>3, QuietStep
  <2>4. CASE mem' = Synchronized(mem) /\ EndDeleted(Synchronized(mem), TRUE)
    <3>1. Open(mem') = Open(mem) \ exited BY <1>m, <2>4, SynchronizedParts DEF ShellsTyped
    <3>2. \A t \in Tabs : \/ live'[t] = live[t] /\ (t \in exited => t \in exited')
                          \/ live'[t] = 0 /\ t \notin Open(mem')
      BY <2>4, EndParts
    <3> QED BY <2>2, <3>1, <3>2, TabsStep
  <2> QED BY <2>2, <2>3, <2>4
<1>2. ASSUME NEW r \in Pending(mem), SettlePending(r) PROVE TabsKept
  <2>1. UNCHANGED <<live, exited, born>> BY <1>2 DEF SettlePending, shells
  <2>2. CASE UNCHANGED retained BY <2>1, <2>2, QuietStep DEF retained
  <2>3. CASE CommitRetained(Settled(mem, r.op, "failed"))
    <3>1. r.op \in Operation BY <1>m, StateParts DEF Pending, OutcomeRecord
    <3>2. Open(Settled(mem, r.op, "failed")) = Open(mem) BY <3>1, <1>m, SettledParts DEF Outcome
    <3>3. mem' = Settled(mem, r.op, "failed") /\ (disk' = disk \/ disk' = mem')
      BY <2>3, CommitParts DEF CommitRetained
    <3> QED BY <2>1, <3>2, <3>3, QuietStep
  <2> QED BY <1>2, <2>2, <2>3 DEF SettlePending
<1>3. CASE ConcludeTick
  <2> DEFINE base == IF StillUncertain THEN disk ELSE AfterForgetting
  <2>1. base \in State /\ Open(base) \in {Open(mem), Open(disk)} BY <1>m, <1>f
  <2>2. /\ mem' = Synchronized(base) /\ disk' = disk /\ born' = born
        /\ EndDeleted(base, base = disk)
    BY <1>3 DEF ConcludeTick
  <2> HIDE DEF base
  <2>3. PICK b \in {mem, disk} : Open(base) = Open(b) BY <2>1
  <2>4. Open(mem') = Open(b) \ exited BY <2>1, <2>2, <2>3, SynchronizedParts DEF ShellsTyped
  <2>5. \A t \in Tabs : \/ live'[t] = live[t] /\ (t \in exited => t \in exited')
                        \/ live'[t] = 0 /\ t \notin Open(b)
    BY <2>2, <2>3, EndParts
  <2> QED BY <2>2, <2>4, <2>5, TabsStep
<1>u. CASE AskRefused \/ AskRecorded
  <2>1. UNCHANGED <<live, exited, born, disk>> /\ mem' = AfterForgetting
    BY <1>u DEF AskRefused, AskRecorded, RestOfAsk, shells
  <2> QED BY <1>f, <2>1, QuietStep
<1>a. AskedTyped BY InHandIsAsked
<1>4. CASE AskEdit
  <2> DEFINE m == AfterForgetting
             a == AddTab(m, "out", FALSE)
             v == Settled(m, Asked, "accepted")
  <2>0. Asking /\ UNCHANGED <<live, exited, disk>> BY <1>4 DEF AskEdit, New, RestOfAsk, shells
  <2>j. Asked \in Operation BY <1>a, <2>0, AskingParts
  <2>1. a \in State /\ Open(m) \subseteq Open(a) /\ Open(a) \subseteq Open(m) \cup {born + 1}
    BY <1>m, <1>f, AddTabParts
  <2>2. /\ Open(Settled(a, Asked, "accepted")) = Open(a) /\ Open(Settled(m, Asked, "failed")) = Open(m)
        /\ v \in State /\ Open(v) = Open(m)
    BY <1>f, <2>1, <2>j, SettledParts DEF Outcome
  <2>3. \/ mem' = Settled(a, Asked, "accepted") /\ born' = born + 1
        \/ mem' \in {Settled(m, Asked, "failed"), [v EXCEPT !.version = @ + 1]} /\ born' = born
    BY <1>4 DEF AskEdit
  <2>4. PICK b \in {mem, disk} : Open(m) = Open(b) BY <1>f
  <2> HIDE DEF m, a, v
  <2>5. Open([v EXCEPT !.version = @ + 1]) = Open(v)
    <3>1. [v EXCEPT !.version = @ + 1].dir = v.dir BY <2>2 DEF State
    <3> QED BY <3>1 DEF Open
  <2>6. CASE mem' = Settled(a, Asked, "accepted") /\ born' = born + 1
    BY <2>0, <2>1, <2>2, <2>4, <2>6, TabsStep
  <2>7. CASE mem' \in {Settled(m, Asked, "failed"), [v EXCEPT !.version = @ + 1]} /\ born' = born
    BY <2>0, <2>2, <2>4, <2>5, <2>7, QuietStep
  <2> QED BY <2>3, <2>6, <2>7
<1>5. CASE BeginWorktree
  <2>0. Asking /\ UNCHANGED <<live, exited, born>> BY <1>5 DEF BeginWorktree, New, RestOfAsk, shells
  <2>j. Asked \in Operation BY <1>a, <2>0, AskingParts
  <2>1. Open(Settled(AfterForgetting, Asked, "pending")) = Open(AfterForgetting)
    BY <1>f, <2>j, SettledParts DEF Outcome
  <2>2. mem' = Settled(AfterForgetting, Asked, "pending") /\ (disk' = disk \/ disk' = mem')
    BY <1>5, CommitParts DEF BeginWorktree
  <2> QED BY <1>f, <2>0, <2>1, <2>2, QuietStep
<1> QED BY <1>1, <1>2, <1>3, <1>u, <1>4, <1>5

\* The steps of the sync worker, requests, clients, threads, Git and shells, and
\* a restart.
LEMMA OtherTabs ==
    ASSUME WorkHolds,
           \/ Write \/ Tick \/ Stop \/ NextWaiting \/ Crash \/ ConcludeStop
           \/ \E d \in Devices, resolve \in BOOLEAN : Ask(d, resolve)
           \/ \E ok \in BOOLEAN : Preflight(ok)
           \/ GitStarts
           \/ \E c \in git : GitActs(c) \/ \E ok \in BOOLEAN : GitExits(c, ok)
           \/ \E d \in Devices : \/ BeginRead(d) \/ ReadSettles(d) \/ (\E kind \in Kinds : Begin(d, kind))
                                 \/ Deliver(d) \/ Acknowledge(d) \/ Revoke(d)
           \/ \E t \in Tabs : Cd(t) \/ Exit(t) \/ StartShell(t)
           \/ UNCHANGED vars
    PROVE  TabsKept
<1> USE DEF WorkHolds, Typed
<1>m. mem \in State /\ disk \in State /\ born \in Nat BY DEF RetainedTyped, CountTyped
<1>1. CASE Write
  BY <1>1, QuietStep DEF Write, shells
<1>2. CASE Tick \/ Stop \/ NextWaiting \/ (\E d \in Devices, resolve \in BOOLEAN : Ask(d, resolve))
  <2>1. UNCHANGED <<live, exited, born>> /\ \E job, todo : Enter(job, todo)
    BY <1>2 DEF Tick, Stop, NextWaiting, Ask, shells
  <2>2. mem' \in {mem, disk} /\ disk' = disk BY <2>1 DEF Enter, Recovered
  <2> QED BY <2>1, <2>2, QuietStep
<1>3. CASE UNCHANGED <<live, exited, born, mem, disk>> BY <1>3, QuietStep
<1>4. CASE \/ \E ok \in BOOLEAN : Preflight(ok)
           \/ GitStarts
           \/ \E c \in git : GitActs(c) \/ \E ok \in BOOLEAN : GitExits(c, ok)
           \/ \E d \in Devices : \/ BeginRead(d) \/ ReadSettles(d) \/ (\E kind \in Kinds : Begin(d, kind))
                                 \/ Deliver(d)
           \/ \E t \in Tabs : Cd(t)
           \/ UNCHANGED vars
  BY <1>3, <1>4 DEF Preflight, GitStarts, GitActs, GitExits, BeginRead, ReadSettles, Begin, Deliver, Cd,
                    vars, retained, shells
<1>5. ASSUME NEW d \in Devices, Acknowledge(d) PROVE TabsKept
  <2> DEFINE T == {r \in Recovered.records : r.op.dev # d \/ r.op.seq > op[d].op.seq}
  <2>1. UNCHANGED <<live, exited, born, disk>> /\ mem' = [Recovered EXCEPT !.records = T]
    BY <1>5 DEF Acknowledge, shells
  <2> HIDE DEF T
  <2>2. mem'.dir = Recovered.dir /\ Recovered \in {mem, disk} BY <2>1, RecoveredTyped DEF State
  <2> QED BY <2>1, <2>2, QuietStep DEF Open
<1>6. ASSUME NEW d \in Devices, Revoke(d) PROVE TabsKept
  <2>1. UNCHANGED <<live, exited, born, disk>> /\ mem' = Forget(Recovered, {d})
    BY <1>6 DEF Revoke, shells
  <2>2. Open(mem') = Open(Recovered) /\ Recovered \in {mem, disk} BY <2>1, RecoveredTyped, ForgetParts
  <2> QED BY <2>1, <2>2, QuietStep
<1>7. ASSUME NEW t \in Tabs, Exit(t) PROVE TabsKept
  <2>1. UNCHANGED <<live, born, mem, disk>> /\ exited \subseteq exited' BY <1>7 DEF Exit, retained
  <2> QED BY <2>1, TabsStep
<1>8. ASSUME NEW t \in Tabs, StartShell(t) PROVE TabsKept
  <2>1. /\ UNCHANGED <<exited, born, mem, disk>> /\ live[t] = 0 /\ t \in Open(mem) /\ t \in Open(disk)
        /\ \A u \in Tabs : u # t => live'[u] = live[u]
    BY <1>8 DEF StartShell, retained, ShellsTyped
  <2> QED BY <2>1 DEF TabsKept, Made
<1>9. CASE Crash \/ ConcludeStop
  <2>0. PICK record \in {disk, AfterForgetting} : Reboot(record) BY <1>9 DEF Crash, ConcludeStop
  <2>1. record \in State /\ Open(record) \in {Open(mem), Open(disk)}
    BY <2>0, <1>m, ForgottenTyped
  <2> DEFINE first == IF Open(record) = {} THEN AddTab(record, "out", FALSE) ELSE record
  <2>2. /\ disk' = first /\ mem' = Forget(first, revoked) /\ boot' = boot + 1
        /\ born' = IF Open(record) = {} THEN born + 1 ELSE born
        /\ \A t \in Tabs : live'[t] = 0
    BY <2>0 DEF Reboot
  <2>3. first \in State /\ Open(first) \subseteq Open(record) \cup Made
    <3>1. CASE Open(record) = {}
      <4>1. born' = born + 1 /\ first = AddTab(record, "out", FALSE) BY <2>2, <3>1
      <4>2. Made = {born + 1} BY <1>m, <4>1 DEF Made
      <4> HIDE DEF first
      <4> QED BY <1>m, <2>1, <4>1, <4>2, AddTabParts
    <3>2. CASE Open(record) # {} BY <2>1, <3>2
    <3> QED BY <3>1, <3>2
  <2> HIDE DEF first
  <2>4. Open(mem') = Open(first) BY <2>2, <2>3, ForgetParts
  <2>5. \A s \in {mem', disk'} : \E e \in {mem, disk} : Open(s) \subseteq Open(e) \cup Made
    BY <2>1, <2>2, <2>3, <2>4
  <2>6. boot' # boot BY <2>2 DEF HostTyped
  <2> QED BY <1>m, <2>2, <2>5, <2>6 DEF TabsKept
<1> QED BY <1>1, <1>2, <1>4, <1>5, <1>6, <1>7, <1>8, <1>9

\* No step does more to Tabs than it may.
LEMMA StepsKeepTabs ==
    ASSUME WorkHolds, RemovalIsConfirmed, TabsAreBorn, [Next]_vars PROVE TabsKept
<1>1. CASE HostStep
  BY <1>1, JoinsTabs, HostTabs, OtherTabs DEF HostStep
<1>2. CASE Next /\ ~HostStep
  BY <1>2, OtherTabs DEF Next
<1> QED BY <1>1, <1>2, OtherTabs

\* Tab identities are used once, whatever a step does.
LEMMA BornInductive ==
    ASSUME Typed, TabsAreBorn, TabsKept PROVE TabsAreBorn'
<1>1. born \in Nat /\ \A t \in Tabs : t \in Nat BY WorktreesAssumption DEF Typed, CountTyped
<1>2. \A s \in {mem, disk} : \A t \in Open(s) : t <= born BY DEF TabsAreBorn
<1>3. ASSUME NEW s \in {mem', disk'}, NEW t \in Open(s) PROVE t <= born'
  <2>1. t \in Tabs BY DEF Open
  <2>2. PICK b \in {mem, disk} : Open(s) \subseteq Open(b) \cup Made BY DEF TabsKept
  <2>3. CASE t \in Open(b) BY <1>1, <1>2, <2>1, <2>3 DEF TabsKept
  <2>4. CASE t \in Made BY <1>1, <2>4 DEF Made, TabsKept
  <2> QED BY <2>2, <2>3, <2>4
<1>4. ASSUME NEW t \in Tabs, live'[t] # 0 PROVE t <= born'
  <2>1. t <= born BY <1>2, <1>4 DEF TabsKept, TabsAreBorn
  <2> QED BY <1>1, <2>1 DEF TabsKept
<1> QED BY <1>3, <1>4 DEF TabsAreBorn

\* The reviews there are come from the ones there were, or from a check that
\* begins; confirmed ones stay.
LEMMA ReviewsFrom ==
    ASSUME Typed, AskedTyped, OwnOps, [Next]_vars
    PROVE  /\ confirmed \subseteq confirmed' /\ count'["reviews"] >= count["reviews"]
           /\ \/ Reviews' \subseteq Reviews
              \/ \E d \in Devices : BeginRead(d) /\ Reviews' \subseteq Reviews \cup {reads'[d]}
<1> USE DEF Typed
<1>k. None.kind = "none" BY WorkerNone
<1>n. count["reviews"] \in Nat BY DEF CountTyped
<1> DEFINE Grows == confirmed \subseteq confirmed' /\ count'["reviews"] >= count["reviews"]
           Good2 == UNCHANGED <<confirmed, review, reads, approvals>>
                    /\ (worker' = worker \/ worker'.kind # "preflight")
<1>g. ASSUME Good2 PROVE Reviews' \subseteq Reviews /\ confirmed \subseteq confirmed'
  BY <1>g DEF Reviews
<1>c. ASSUME NEW next, NEW uncertain, CommitFrom(next, uncertain) PROVE count'["reviews"] = count["reviews"]
  BY <1>c, CommitParts
<1>1. CASE JoinFailed \/ JoinOpen \/ JoinWrite \/ JoinChanged \/ JoinWrote
  <2>1. UNCHANGED <<confirmed, review, reads, approvals>> /\ worker' = None
    BY <1>1 DEF JoinFailed, JoinOpen, JoinWrite, JoinChanged, JoinWrote, clients, ghosts
  <2>2. \E next : CommitFrom(next, failed)
    BY <1>1 DEF JoinFailed, JoinOpen, JoinWrite, JoinChanged, JoinWrote, CommitRetained
  <2> QED BY <1>c, <1>g, <1>k, <1>n, <2>1, <2>2
<1>2. CASE EndReviewed \/ (\E r \in Pending(mem) : SettlePending(r)) \/ Write
  <2>1. Good2 BY <1>2 DEF EndReviewed, SettlePending, Write, server, clients, ghosts
  <2>2. count'["reviews"] = count["reviews"]
    <3>1. CASE EndReviewed \/ Write BY <3>1 DEF EndReviewed, Write, Count, CountTyped
    <3>2. ASSUME NEW r \in Pending(mem), SettlePending(r) PROVE count'["reviews"] = count["reviews"]
      BY <1>c, <3>2 DEF SettlePending, CommitRetained
    <3> QED BY <1>2, <3>1, <3>2
  <2> QED BY <1>g, <1>n, <2>1, <2>2
<1>3. CASE AskRefused \/ AskRecorded \/ AskEdit \/ ConcludeTick
  <2>1. Good2 /\ count' = count
    BY <1>3 DEF AskRefused, AskRecorded, AskEdit, ConcludeTick, RestOfAsk, clients, ghosts
  <2> QED BY <1>g, <1>n, <2>1
<1>4. CASE BeginWorktree
  <2>1. UNCHANGED <<confirmed, review, reads, approvals>> BY <1>4 DEF BeginWorktree, RestOfAsk, ghosts
  <2>2. count'["reviews"] = count["reviews"] BY <1>4, <1>c DEF BeginWorktree
  <2>3. \/ worker' = worker
        \/ worker'.approval \in {approvals[Asked.dev], None} /\ Asked.dev \in Devices
    <3>1. Asked.dev \in Devices BY <1>4, AskingParts DEF BeginWorktree, New
    <3> QED BY <1>4, <3>1 DEF BeginWorktree
  <2>4. Reviews' \subseteq Reviews BY <2>1, <2>3 DEF Reviews
  <2> QED BY <1>n, <2>1, <2>2, <2>4
<1>5. CASE Tick \/ NextWaiting \/ (\E d \in Devices, resolve \in BOOLEAN : Ask(d, resolve))
  <2>1. Good2 /\ count' = count BY <1>5 DEF Tick, NextWaiting, Ask, clients, ghosts
  <2> QED BY <1>g, <1>n, <2>1
<1>6. CASE Stop
  <2>1. UNCHANGED <<confirmed, review, approvals, worker>> /\ \A d \in Devices : reads'[d] = None
    BY <1>6 DEF Stop, ghosts
  <2>2. count'["reviews"] = count["reviews"] BY <1>6 DEF Stop, Count, CountTyped
  <2>3. Reviews' \subseteq Reviews BY <2>1 DEF Reviews
  <2> QED BY <1>n, <2>1, <2>2, <2>3
<1>7. CASE Crash \/ ConcludeStop
  <2>1. /\ UNCHANGED <<confirmed, review>> /\ worker' = None
        /\ \A d \in Devices : reads'[d] = None /\ approvals'[d] = None
    BY <1>7 DEF Crash, ConcludeStop, Reboot, ghosts
  <2>2. count'["reviews"] = count["reviews"] BY <1>7 DEF Crash, ConcludeStop, Count, CountTyped
  <2>3. Reviews' \subseteq Reviews BY <1>k, <2>1 DEF Reviews
  <2> QED BY <1>n, <2>1, <2>2, <2>3
<1>8. CASE (\E ok \in BOOLEAN : Preflight(ok)) \/ GitStarts
           \/ (\E c \in git : GitActs(c) \/ \E ok \in BOOLEAN : GitExits(c, ok))
  <2>1. Good2 /\ count' = count BY <1>8 DEF Preflight, GitStarts, GitActs, GitExits, server, clients, ghosts
  <2> QED BY <1>g, <1>n, <2>1
<1>9. ASSUME NEW d \in Devices, BeginRead(d)
      PROVE  Grows /\ Reviews' \subseteq Reviews \cup {reads'[d]}
  <2>1. /\ UNCHANGED <<confirmed, review, approvals, worker>> /\ count'["reviews"] = count["reviews"] + 1
        /\ \A e \in Devices : e # d => reads'[e] = reads[e]
    BY <1>9 DEF BeginRead, Count, CountTyped, ReviewsTyped, clients, ghosts
  <2>2. Reviews' \subseteq Reviews \cup {reads'[d]} BY <2>1 DEF Reviews
  <2> QED BY <1>n, <2>1, <2>2
<1>10. ASSUME NEW d \in Devices, ReadSettles(d) PROVE Grows /\ Reviews' \subseteq Reviews
  <2>1. /\ UNCHANGED <<confirmed, worker, count>>
        /\ approvals'[d] = reads[d] /\ review'[d] = reads[d] /\ reads'[d] = None
        /\ \A e \in Devices : e # d => /\ approvals'[e] = approvals[e] /\ review'[e] = review[e]
                                       /\ reads'[e] = reads[e]
    BY <1>10 DEF ReadSettles, ReviewsTyped, ghosts
  <2>2. Reviews' \subseteq Reviews
    <3> SUFFICES ASSUME NEW v \in Reviews' PROVE v \in Reviews OBVIOUS
    <3>1. v # None BY DEF Reviews
    <3>2. \/ v \in confirmed \/ (\E e \in Devices : v \in {review'[e], reads'[e], approvals'[e]})
          \/ (worker.kind = "preflight" /\ v = worker.approval)
      BY <2>1 DEF Reviews
    <3>3. \/ v \in confirmed \/ (\E e \in Devices : v \in {review[e], reads[e], approvals[e]})
          \/ (worker.kind = "preflight" /\ v = worker.approval)
      BY <2>1, <3>1, <3>2
    <3> QED BY <3>1, <3>3 DEF Reviews
  <2> QED BY <1>n, <2>1, <2>2
<1>11. ASSUME NEW d \in Devices, NEW kind \in Kinds, Begin(d, kind) PROVE Grows /\ Reviews' \subseteq Reviews
  <2>1. /\ UNCHANGED <<review, reads, approvals, worker>>
        /\ confirmed' = confirmed \/ confirmed' = confirmed \cup {review[d]}
    BY <1>11 DEF Begin, server
  <2>2. count'["reviews"] = count["reviews"] BY <1>11 DEF Begin, Count, CountTyped
  <2>3. Reviews' \subseteq Reviews BY <2>1 DEF Reviews
  <2> QED BY <1>n, <2>1, <2>2, <2>3
<1>12. CASE \E d \in Devices : Deliver(d) \/ Acknowledge(d)
  <2>1. Good2 /\ count' = count BY <1>12 DEF Deliver, Acknowledge, server, ghosts
  <2> QED BY <1>g, <1>n, <2>1
<1>13. ASSUME NEW d \in Devices, Revoke(d) PROVE Grows /\ Reviews' \subseteq Reviews
  <2>1. /\ UNCHANGED <<confirmed, approvals, worker, count>> /\ review'[d] = None /\ reads'[d] = None
        /\ \A e \in Devices : e # d => review'[e] = review[e] /\ reads'[e] = reads[e]
    BY <1>13 DEF Revoke, ReviewsTyped, ghosts
  <2>2. Reviews' \subseteq Reviews BY <2>1 DEF Reviews
  <2> QED BY <1>n, <2>1, <2>2
<1>14. CASE \E t \in Tabs : Cd(t) \/ Exit(t) \/ StartShell(t)
  <2>1. Good2 BY <1>14 DEF Cd, Exit, StartShell, server, clients, ghosts
  <2>2. count'["reviews"] = count["reviews"] BY <1>14 DEF Cd, Exit, StartShell, Count, CountTyped
  <2> QED BY <1>g, <1>n, <2>1, <2>2
<1>15. CASE UNCHANGED vars
  <2>1. Good2 /\ count' = count BY <1>15 DEF vars, server, clients, ghosts
  <2> QED BY <1>g, <1>n, <2>1
<1> HIDE DEF Good2
<1>16. CASE HostStep
  BY <1>1, <1>2, <1>3, <1>4, <1>5, <1>7, <1>16 DEF HostStep
<1> QED BY <1>2, <1>5, <1>6, <1>7, <1>8, <1>9, <1>10, <1>11, <1>12, <1>13, <1>14, <1>15, <1>16 DEF Next

\* A creation is cleared, or about to be.
Creating ==
    \/ worker.kind \in {"writing", "running", "wrote"} /\ worker.op.kind = "create"
    \/ host.at = "closed" /\ host.op.kind = "create"

\* How work comes about: mutate begins it, a check ends, start_prepared closes
\* Tabs and then clears it; a creation on its way sees no other Tab made.
WorkMoves ==
    /\ AtWork' \subseteq AtWork \/ (BeginWorktree /\ AtWork' \subseteq {Asked})
    /\ \/ Cleared' \subseteq Cleared
       \/ EndReviewed /\ worker'.kind = "writing" /\ Cleared' \subseteq {host.op}
    /\ host'.at = "closed" => host' = host \/ (JoinWrite /\ host'.op = worker.op)
    /\ worker'.kind = "preflight" => worker' = worker \/ BeginWorktree
    /\ worker'.kind = "prepared" => worker' = worker \/ \E ok \in BOOLEAN : Preflight(ok)
    /\ Creating' => (Creating /\ born' = born) \/ JoinWrite

\* Every step moves work this way.
LEMMA StepsMoveWork ==
    ASSUME WorkHolds, [Next]_vars PROVE WorkMoves
<1> USE DEF WorkHolds, Typed
<1>k. None.kind = "none" BY WorkerNone
<1>1. ASSUME UNCHANGED <<worker, git, born>>, host' = host \/ host'.at # "closed" PROVE WorkMoves
  <2>1. AtWork' \subseteq AtWork /\ Cleared' \subseteq Cleared /\ (Creating' => Creating)
    BY <1>1 DEF AtWork, Cleared, Creating
  <2> QED BY <1>1, <2>1 DEF WorkMoves
<1>2. ASSUME git' \subseteq git, worker' = None, host'.at # "closed" PROVE WorkMoves
  <2>1. AtWork' \subseteq AtWork /\ Cleared' \subseteq Cleared /\ ~Creating'
    BY <1>k, <1>2 DEF AtWork, Cleared, Creating
  <2> QED BY <1>k, <1>2, <2>1 DEF WorkMoves
<1>3. CASE JoinFailed \/ JoinOpen \/ JoinChanged \/ JoinWrote
  <2>1. host.at = "finish" /\ worker' = None /\ Joined /\ git' = git
    BY <1>3 DEF JoinFailed, JoinOpen, JoinChanged, JoinWrote, external
  <2> QED BY <1>2, <2>1, JoinedPlace
<1>4. CASE JoinWrite
  <2>1. /\ worker.kind = "prepared" /\ worker # None /\ worker' = None /\ host.at = "finish" /\ git' = git
        /\ \/ host' = [host EXCEPT !.at = "error"]
           \/ host' = [at |-> "closed", job |-> host.job, todo |-> host.todo, op |-> worker.op]
    BY <1>4, <1>k DEF JoinWrite, external
  <2>2. [host EXCEPT !.at = "error"] = [at |-> "error", job |-> host.job, todo |-> host.todo]
    BY <2>1, HostParts DEF HostTyped
  <2>3. host'.at = "closed" => host'.op = worker.op BY <2>1, <2>2
  <2>4. AtWork' \subseteq AtWork /\ Cleared' \subseteq Cleared BY <1>k, <2>1, <2>3 DEF AtWork, Cleared
  <2> QED BY <1>k, <1>4, <2>1, <2>3, <2>4 DEF WorkMoves
<1>5. CASE EndReviewed
  <2>1. host.at = "closed" /\ git' = git /\ host'.at # "closed" /\ born' = born
    BY <1>5 DEF EndReviewed, Stage, external
  <2>2. git = {} /\ worker = None BY <2>1 DEF OneWriter
  <2>3. CASE worker' = worker BY <1>1, <2>1, <2>3
  <2>4. CASE worker' = [kind |-> "writing", op |-> host.op]
    <3>1. worker'.kind = "writing" /\ worker'.op = host.op /\ worker' # None BY <2>4, <1>k
    <3>2. AtWork' \subseteq AtWork BY <2>1, <3>1 DEF AtWork
    <3>3. Cleared' \subseteq {host.op} BY <2>1, <2>2, <3>1 DEF Cleared
    <3>4. Creating' => Creating BY <2>1, <3>1 DEF Creating
    <3> QED BY <1>5, <2>1, <3>1, <3>2, <3>3, <3>4 DEF WorkMoves
  <2> QED BY <1>5, <2>3, <2>4 DEF EndReviewed
<1>6. ASSUME NEW r \in Pending(mem), SettlePending(r) PROVE WorkMoves
  <2>1. host.at = "pending" /\ UNCHANGED <<worker, git, born>> BY <1>6 DEF SettlePending, external
  <2>2. \E s \in {"error", "pending"} : host' = [at |-> s, job |-> host.job, todo |-> host.todo]
    BY <1>6, <2>1, HostParts DEF SettlePending, At, HostTyped
  <2> QED BY <1>1, <2>1, <2>2
<1>a. AskedTyped BY InHandIsAsked
<1>7. CASE AskRefused \/ AskRecorded \/ AskEdit \/ BeginWorktree
  <2>1. Asking /\ Done /\ git' = git
    BY <1>7 DEF AskRefused, AskRecorded, AskEdit, BeginWorktree, New, Refused, Waits, RestOfAsk, external
  <2>2. host'.at # "closed" BY <1>a, <2>1, AskingParts, DonePlace
  <2>3. CASE AskRefused \/ AskRecorded
    BY <1>1, <2>1, <2>2, <2>3 DEF AskRefused, AskRecorded
  <2>4. CASE AskEdit \/ BeginWorktree
    <3>1. New(AfterForgetting) BY <2>4 DEF AskEdit, BeginWorktree
    <3>2. \A r \in AfterForgetting.records : r.outcome # "pending" BY <3>1 DEF New, Pending
    <3>3. worker = None /\ git = {} BY <3>2, ForgottenBooks, IdleWhenSettled
    <3>4. CASE worker' = worker BY <1>2, <2>1, <2>2, <3>3, <3>4
    <3>5. CASE BeginWorktree /\ worker'.op = Asked /\ worker'.kind = "preflight"
      <4>1. AtWork' \subseteq {Asked} /\ Cleared' = {} /\ ~Creating'
        BY <2>1, <2>2, <3>3, <3>5 DEF AtWork, Cleared, Creating
      <4> QED BY <2>2, <3>5, <4>1 DEF WorkMoves
    <3>6. CASE AskEdit BY <3>4, <3>6 DEF AskEdit
    <3>7. CASE BeginWorktree BY <3>4, <3>5, <3>7 DEF BeginWorktree
    <3> QED BY <2>4, <3>6, <3>7
  <2> QED BY <1>7, <2>3, <2>4
<1>8. CASE ConcludeTick BY <1>1, <1>8 DEF ConcludeTick, external, Free
<1>9. CASE Tick \/ Stop \/ NextWaiting \/ (\E d \in Devices, resolve \in BOOLEAN : Ask(d, resolve))
  <2>1. UNCHANGED <<worker, git, born>> /\ \E job, todo : Enter(job, todo)
    BY <1>9 DEF Tick, Stop, NextWaiting, Ask, external
  <2>2. host'.at # "closed" BY <2>1 DEF Enter, Stage
  <2> QED BY <1>1, <2>1, <2>2
<1>10. CASE Crash \/ ConcludeStop
  <2>1. \E record : Reboot(record) BY <1>10 DEF Crash, ConcludeStop
  <2>2. worker' = None /\ host' = Free /\ git' = git BY <2>1 DEF Reboot, external
  <2> QED BY <1>2, <2>2 DEF Free
<1>11. CASE GitStarts
  <2>1. /\ worker.kind = "writing" /\ worker' = [kind |-> "running", op |-> worker.op]
        /\ UNCHANGED <<host, born>> /\ git' = git \cup {[op |-> worker.op, done |-> FALSE, boot |-> boot]}
    BY <1>11 DEF GitStarts
  <2>2. worker # None /\ worker'.op = worker.op /\ worker'.kind = "running" BY <1>k, <2>1
  <2>3. AtWork' \subseteq AtWork /\ Cleared' \subseteq Cleared BY <2>1, <2>2 DEF AtWork, Cleared
  <2>4. Creating' => Creating BY <2>1, <2>2 DEF Creating
  <2> QED BY <2>1, <2>2, <2>3, <2>4 DEF WorkMoves
<1>12. ASSUME NEW ok \in BOOLEAN, Preflight(ok) PROVE WorkMoves
  <2>1. /\ worker.kind = "preflight" /\ worker'.op = worker.op /\ worker'.kind = "prepared"
        /\ UNCHANGED <<host, git, born>>
    BY <1>12 DEF Preflight, external
  <2>2. worker # None BY <1>k, <2>1
  <2>3. AtWork' \subseteq AtWork /\ Cleared' \subseteq Cleared BY <2>1, <2>2 DEF AtWork, Cleared
  <2>4. Creating' => Creating BY <2>1 DEF Creating
  <2> QED BY <1>12, <2>1, <2>3, <2>4 DEF WorkMoves
<1>13. ASSUME NEW c \in git, NEW ok \in BOOLEAN, GitExits(c, ok) PROVE WorkMoves
  <2>1. UNCHANGED <<host, born>> /\ git' = git \ {c} BY <1>13 DEF GitExits
  <2>2. \/ worker' = worker
        \/ worker.kind = "running" /\ worker'.kind = "wrote" /\ worker'.op = worker.op
    BY <1>13 DEF GitExits
  <2>3. AtWork' \subseteq AtWork /\ Cleared' \subseteq Cleared
    <3>1. worker.kind = "running" => worker # None BY <1>k
    <3> QED BY <2>1, <2>2, <3>1 DEF AtWork, Cleared
  <2>4. Creating' => Creating BY <2>1, <2>2 DEF Creating
  <2> QED BY <2>1, <2>2, <2>3, <2>4 DEF WorkMoves
<1>14. ASSUME NEW c \in git, GitActs(c) PROVE WorkMoves
  <2>1. UNCHANGED <<worker, host, born>> /\ git' = (git \ {c}) \cup {[c EXCEPT !.done = TRUE]}
    BY <1>14 DEF GitActs, server
  <2>2. [c EXCEPT !.done = TRUE].op = c.op BY DEF GitTyped
  <2>3. AtWork' \subseteq AtWork /\ Cleared' \subseteq Cleared /\ (Creating' => Creating)
    BY <2>1, <2>2 DEF AtWork, Cleared, Creating
  <2> QED BY <2>1, <2>3 DEF WorkMoves
<1>15. CASE Write \/ (\E d \in Devices : \/ BeginRead(d) \/ ReadSettles(d) \/ (\E kind \in Kinds : Begin(d, kind))
                                         \/ Deliver(d) \/ Acknowledge(d) \/ Revoke(d))
            \/ (\E t \in Tabs : Cd(t) \/ Exit(t) \/ StartShell(t))
  <2>1. UNCHANGED <<worker, host>>
    BY <1>15 DEF Write, BeginRead, ReadSettles, Begin, Deliver, Acknowledge, Revoke, Cd, Exit, StartShell, server
  <2>2. UNCHANGED <<git, born>>
    BY <1>15 DEF Write, BeginRead, ReadSettles, Begin, Deliver, Acknowledge, Revoke, Cd, Exit, StartShell, external
  <2> QED BY <1>1, <2>1, <2>2
<1>16. CASE UNCHANGED vars BY <1>1, <1>16 DEF vars, server, external
<1>17. CASE HostStep BY <1>3, <1>4, <1>5, <1>6, <1>7, <1>8, <1>9, <1>10, <1>17 DEF HostStep
<1> QED BY <1>9, <1>10, <1>11, <1>12, <1>13, <1>14, <1>15, <1>16, <1>17 DEF Next

\* Every review has its type.
LEMMA ReviewsAreTyped ==
    ASSUME Typed
    PROVE  /\ Reviews \subseteq Review
           /\ \A v \in Reviews : v.conf \in Nat /\ \A pair \in v.tabs : pair[1] \in Tabs /\ pair[1] \in Nat
<1>1. worker.kind = "preflight" => worker.approval \in Review \cup {None}
  BY WorkerParts, WorkerNone DEF Typed, HostTyped
<1>2. Reviews \subseteq Review
  <2> SUFFICES ASSUME NEW v \in Reviews PROVE v \in Review OBVIOUS
  <2> QED BY <1>1 DEF Reviews, Typed, ReviewsTyped
<1>3. \A v \in Review : v.conf \in Nat /\ \A pair \in v.tabs : pair[1] \in Tabs /\ pair[1] \in Nat
  BY WorktreesAssumption DEF Review, Affected
<1> QED BY <1>2, <1>3

\* A review's number and Tabs identify it, after every step.
LEMMA AgreeInductive ==
    ASSUME WorkHolds, ReviewsAgree, TabsAreBorn, TabsKept, [Next]_vars PROVE ReviewsAgree'
<1> USE DEF WorkHolds
<1>t. /\ born \in Nat /\ born' \in Nat /\ born <= born' /\ count["reviews"] \in Nat
      /\ count'["reviews"] \in Nat /\ Typed'
  <2>1. Typed' BY InHandIsAsked, TypedInductive
  <2> QED BY <2>1 DEF Typed, CountTyped, TabsKept
<1>r. \A v \in Reviews : v.conf \in Nat /\ \A pair \in v.tabs : pair[1] \in Nat BY ReviewsAreTyped
<1>f. /\ count'["reviews"] >= count["reviews"]
      /\ \/ Reviews' \subseteq Reviews
         \/ \E d \in Devices : BeginRead(d) /\ Reviews' \subseteq Reviews \cup {reads'[d]}
  BY InHandIsAsked, ReviewsFrom
<1>o. \A v \in Reviews :
          v.conf <= count'["reviews"] /\ \A pair \in v.tabs : pair[1] <= born'
  BY <1>t, <1>r, <1>f DEF ReviewsAgree
<1>1. CASE Reviews' \subseteq Reviews BY <1>1, <1>o DEF ReviewsAgree
<1>2. ASSUME NEW d \in Devices, BeginRead(d), Reviews' \subseteq Reviews \cup {reads'[d]} PROVE ReviewsAgree'
  <2> DEFINE w == reads'[d]
  <2>1. w = [conf |-> count["reviews"] + 1, boot |-> boot, tabs |-> AffectedTabs(mem)]
        /\ count'["reviews"] = count["reviews"] + 1
    BY <1>2 DEF BeginRead, Count, Typed, CountTyped, ReviewsTyped
  <2>2. w.conf = count["reviews"] + 1 /\ w.tabs = AffectedTabs(mem) BY <2>1
  <2> HIDE DEF w
  <2>3. \A v \in Reviews : v.conf # w.conf BY <1>t, <1>r, <2>2 DEF ReviewsAgree
  <2>4. \A pair \in w.tabs : pair[1] <= born'
    <3> SUFFICES ASSUME NEW pair \in AffectedTabs(mem) PROVE pair[1] <= born' BY <2>2
    <3>1. PICK t \in Open(mem) : pair = <<t, live[t]>> BY DEF AffectedTabs
    <3>2. t \in Nat /\ t <= born BY WorktreesAssumption DEF Open, TabsAreBorn
    <3> QED BY <1>t, <3>1, <3>2
  <2>5. w.conf <= count'["reviews"] BY <1>t, <2>1, <2>2
  <2>6. \A u, v \in Reviews \cup {w} : u.conf = v.conf => u = v BY <2>3 DEF ReviewsAgree
  <2>7. \A v \in Reviews \cup {w} : v.conf <= count'["reviews"] /\ \A pair \in v.tabs : pair[1] <= born'
    BY <1>o, <2>4, <2>5
  <2> QED BY <1>2, <2>6, <2>7 DEF ReviewsAgree, w
<1> QED BY <1>1, <1>2, <1>f

\* A client's operation is the one it had, or one it begins.
LEMMA OpsFrom ==
    ASSUME Typed, [Next]_vars, NEW d \in Devices, op'[d] # None
    PROVE  (op[d] # None /\ op'[d].op = op[d].op) \/ \E kind \in Kinds : Begin(d, kind)
<1> USE DEF Typed
<1>1. CASE op' = op BY <1>1
<1>2. CASE HostStep
  <2>1. CASE NextWaiting \/ JoinFailed \/ JoinOpen \/ JoinWrite \/ JoinChanged \/ EndReviewed \/ JoinWrote
    BY <1>1, <2>1 DEF NextWaiting, JoinFailed, JoinOpen, JoinWrite, JoinChanged, EndReviewed, JoinWrote, clients
  <2>2. CASE (\E r \in Pending(mem) : SettlePending(r)) \/ ConcludeTick \/ AskRefused \/ AskRecorded
             \/ AskEdit \/ BeginWorktree \/ ConcludeStop
    BY <1>1, <2>2 DEF SettlePending, ConcludeTick, AskRefused, AskRecorded, AskEdit, BeginWorktree,
                      ConcludeStop, Reboot, clients
  <2> QED BY <1>2, <2>1, <2>2 DEF HostStep
<1>3. CASE Write \/ Tick \/ Stop \/ Crash \/ (\E e \in Devices, resolve \in BOOLEAN : Ask(e, resolve))
  BY <1>1, <1>3 DEF Write, Tick, Stop, Crash, Ask, Reboot, clients
<1>4. CASE (\E ok \in BOOLEAN : Preflight(ok)) \/ GitStarts
           \/ (\E c \in git : GitActs(c) \/ \E ok \in BOOLEAN : GitExits(c, ok))
           \/ (\E e \in Devices : BeginRead(e) \/ ReadSettles(e))
           \/ (\E t \in Tabs : Cd(t) \/ Exit(t) \/ StartShell(t))
  BY <1>1, <1>4 DEF Preflight, GitStarts, GitActs, GitExits, BeginRead, ReadSettles, Cd, Exit, StartShell,
                    clients
<1>5. ASSUME NEW e \in Devices, NEW kind \in Kinds, Begin(e, kind)
      PROVE  (op[d] # None /\ op'[d].op = op[d].op) \/ \E k \in Kinds : Begin(d, k)
  <2>1. CASE e = d BY <1>5, <2>1
  <2>2. CASE e # d
    <3>1. op'[d] = op[d] BY <1>5, <2>2 DEF Begin, ClientsTyped
    <3> QED BY <3>1
  <2> QED BY <2>1, <2>2
<1>6. ASSUME NEW e \in Devices, Deliver(e) PROVE op[d] # None /\ op'[d].op = op[d].op
  <2>0. op[e] # None BY <1>6 DEF Deliver, ClientsTyped
  <2>1. CASE op' = op BY <2>1
  <2>2. ASSUME NEW x, op' = [op EXCEPT ![e].answer = x] PROVE op[d] # None /\ op'[d].op = op[d].op
    <3>1. op' = [op EXCEPT ![e] = [op[e] EXCEPT !.answer = x]] BY <2>2
    <3>2. [op[e] EXCEPT !.answer = x].op = op[e].op BY <2>0 DEF ClientsTyped
    <3> QED BY <2>0, <3>1, <3>2 DEF ClientsTyped
  <2> QED BY <1>6, <2>1, <2>2 DEF Deliver
<1>7. ASSUME NEW e \in Devices, Acknowledge(e) \/ Revoke(e) PROVE op[d] # None /\ op'[d].op = op[d].op
  <2>1. op' = [op EXCEPT ![e] = None] BY <1>7 DEF Acknowledge, Revoke
  <2> QED BY <2>1 DEF ClientsTyped
<1>8. CASE UNCHANGED vars BY <1>1, <1>8 DEF vars, clients
<1> QED BY <1>2, <1>3, <1>4, <1>5, <1>6, <1>7, <1>8 DEF Next

\* A removal carries a confirmed review, after every step.
LEMMA ConfirmedInductive ==
    ASSUME WorkHolds, ReviewsAgree, RemovalIsConfirmed, WorkMoves, [Next]_vars PROVE RemovalIsConfirmed'
<1> USE DEF WorkHolds
<1>a. AskedTyped BY InHandIsAsked
<1>c. confirmed \subseteq confirmed' BY <1>a, ReviewsFrom
<1>1. ASSUME NEW d \in Devices, op'[d] # None, op'[d].op.kind = "remove"
      PROVE  \E v \in confirmed' : v.conf = op'[d].op.conf
  <2>1. CASE op[d] # None /\ op'[d].op = op[d].op BY <1>1, <1>c, <2>1 DEF RemovalIsConfirmed
  <2>2. ASSUME NEW kind \in Kinds, Begin(d, kind) PROVE \E v \in confirmed' : v.conf = op'[d].op.conf
    <3>1. op'[d].op = [dev |-> d, seq |-> count["ops"] + 1, kind |-> kind,
                       conf |-> IF kind = "remove" THEN review[d].conf ELSE 0,
                       version |-> IF kind = "location" THEN disk.version ELSE 0]
      BY <2>2 DEF Begin, Typed, ClientsTyped
    <3>2. kind = "remove" /\ op'[d].op.conf = review[d].conf BY <1>1, <3>1
    <3>3. review[d] \in confirmed' BY <2>2, <3>2 DEF Begin
    <3> QED BY <3>2, <3>3
  <2> QED BY <1>1, <2>1, <2>2, OpsFrom DEF Typed
<1>2. ASSUME NEW o \in AtWork', o.kind = "remove" PROVE \E v \in confirmed' : v.conf = o.conf
  <2>1. CASE o \in AtWork BY <1>2, <1>c, <2>1 DEF RemovalIsConfirmed
  <2>2. CASE BeginWorktree /\ o = Asked
    <3>1. host.job.dev \in Devices /\ op[host.job.dev] # None /\ op[host.job.dev].op = Asked
      BY <1>a, <2>2 DEF BeginWorktree, New, AskedTyped, Asked
    <3> QED BY <1>2, <1>c, <2>2, <3>1 DEF RemovalIsConfirmed
  <2> QED BY <1>2, <2>1, <2>2 DEF WorkMoves
<1>3. ASSUME worker'.kind = "preflight", worker'.approval # None
      PROVE  worker'.op.kind = "remove" /\ worker'.approval.conf = worker'.op.conf
  <2>1. CASE worker' = worker BY <1>3, <2>1 DEF RemovalIsConfirmed
  <2>2. CASE BeginWorktree /\ worker' # worker
    <3>1. /\ worker'.op = Asked
          /\ worker'.approval = IF Asked.kind = "remove" /\ approvals[Asked.dev] # None
                                   /\ approvals[Asked.dev].conf = Asked.conf
                                THEN approvals[Asked.dev] ELSE None
      BY <2>2 DEF BeginWorktree
    <3> QED BY <1>3, <3>1
  <2> QED BY <1>3, <2>1, <2>2 DEF WorkMoves
<1>4. ASSUME worker'.kind = "prepared", worker'.ok
      PROVE  IF worker'.op.kind = "remove"
             THEN \E v \in confirmed' : v.conf = worker'.op.conf /\ v.tabs = worker'.tabs
             ELSE worker'.tabs = {}
  <2>1. CASE worker' = worker BY <1>4, <1>c, <2>1 DEF RemovalIsConfirmed
  <2>2. ASSUME NEW ok \in BOOLEAN, Preflight(ok)
        PROVE  IF worker'.op.kind = "remove"
               THEN \E v \in confirmed' : v.conf = worker'.op.conf /\ v.tabs = worker'.tabs
               ELSE worker'.tabs = {}
    <3>1. /\ worker.kind = "preflight" /\ worker'.op = worker.op /\ ok /\ Passes
          /\ worker'.tabs = IF worker.op.kind = "remove" THEN worker.approval.tabs ELSE {}
      BY <1>4, <2>2 DEF Preflight
    <3>2. CASE worker.op.kind = "remove"
      <4>1. worker.approval # None /\ worker # None BY <3>1, <3>2, WorkerNone DEF Passes
      <4>2. worker.approval.conf = worker.op.conf BY <3>1, <4>1 DEF RemovalIsConfirmed
      <4>3. PICK v \in confirmed : v.conf = worker.op.conf
        BY <3>2, <4>1 DEF RemovalIsConfirmed, AtWork
      <4>4. v \in Reviews /\ worker.approval \in Reviews
        <5>1. v # None BY DEF Typed, ReviewsTyped, Review, None
        <5> QED BY <3>1, <4>1, <5>1 DEF Reviews
      <4>5. v = worker.approval BY <4>2, <4>3, <4>4 DEF ReviewsAgree
      <4> QED BY <1>c, <3>1, <3>2, <4>3, <4>5
    <3>3. CASE worker.op.kind # "remove" BY <3>1, <3>3
    <3> QED BY <3>2, <3>3
  <2> QED BY <1>4, <2>1, <2>2 DEF WorkMoves
<1> QED BY <1>1, <1>2, <1>3, <1>4 DEF RemovalIsConfirmed

\* The Tabs of a cleared removal stay closed, after every step.
LEMMA ClosedInductive ==
    ASSUME WorkHolds, ReviewsAgree, RemovalIsConfirmed, ReviewedIsClosed, TabsAreBorn,
           TabsKept, WorkMoves, [Next]_vars
    PROVE  ReviewedIsClosed'
<1> USE DEF WorkHolds
<1>m. mem \in State /\ disk \in State /\ born \in Nat BY DEF Typed, RetainedTyped, CountTyped
<1>r. \A v \in Reviews : v.conf \in Nat /\ \A pair \in v.tabs :
         pair[1] \in Tabs /\ pair[1] \in Nat /\ pair[1] <= born
  BY ReviewsAreTyped DEF ReviewsAgree
<1>k. ASSUME NEW x \in Nat, x <= born, x \notin Open(mem) \cup Open(disk)
      PROVE  x \notin Open(mem') \cup Open(disk')
  <2>1. x \notin Made BY <1>m, <1>k DEF Made
  <2> QED BY <1>k, <2>1 DEF TabsKept
<1>c. ASSUME NEW v \in confirmed PROVE v \in Reviews
  <2>1. v # None BY DEF Typed, ReviewsTyped, Review, None
  <2> QED BY <2>1 DEF Reviews
<1>1. ASSUME NEW v \in Reviews, NEW pair \in v.tabs, NEW o \in Cleared', o.kind = "remove", o.conf = v.conf
      PROVE  pair[1] \notin Open(mem') \cup Open(disk') /\ live'[pair[1]] = 0
  <2>1. CASE o \in Cleared
    <3>1. pair[1] \notin Open(mem) \cup Open(disk) /\ live[pair[1]] = 0
      BY <1>1, <2>1 DEF ReviewedIsClosed
    <3>2. live'[pair[1]] = 0 BY <1>r, <3>1 DEF TabsKept
    <3> QED BY <1>k, <1>r, <3>1, <3>2
  <2>2. CASE EndReviewed /\ worker'.kind = "writing" /\ o = host.op
    <3>1. host.at = "closed" /\ mem = disk /\ ~failed /\ Recovered = mem /\ worker = None
      BY <2>2 DEF EndReviewed, OneWriter, Recovered
    <3>2. pair[1] \notin Open(mem) \cup Open(disk) BY <1>1, <2>2, <3>1 DEF ReviewedIsClosed
    <3>3. EndDeleted(Synchronized(mem), TRUE)
      <4>1. worker' # worker BY <2>2, <3>1, WorkerNone
      <4> QED BY <2>2, <3>1, <4>1 DEF EndReviewed
    <3>4. pair[1] \in Tabs \ Open(Synchronized(mem))
      BY <1>m, <1>r, <3>2, SynchronizedParts DEF Typed, ShellsTyped
    <3>5. live'[pair[1]] = 0 BY <3>3, <3>4, EndParts DEF Typed
    <3> QED BY <1>k, <1>r, <3>2, <3>5
  <2> QED BY <2>1, <2>2 DEF WorkMoves
<1>2. ASSUME NEW v \in Reviews, NEW pair \in v.tabs, host'.at = "closed", host'.op.kind = "remove",
             host'.op.conf = v.conf
      PROVE  pair[1] \notin Open(mem') \cup Open(disk')
  <2>1. CASE host' = host
    <3>1. pair[1] \notin Open(mem) \cup Open(disk) BY <1>2, <2>1 DEF ReviewedIsClosed
    <3> QED BY <1>k, <1>r, <3>1
  <2>2. CASE JoinWrite /\ host'.op = worker.op
    <3> DEFINE m == Synchronized(mem)
    <3>1. worker.kind = "prepared" /\ worker.ok /\ worker.op.kind = "remove" /\ worker.op.conf = v.conf
      BY <1>2, <2>2 DEF JoinWrite
    <3>2. PICK w \in confirmed : w.conf = worker.op.conf /\ w.tabs = worker.tabs
      BY <3>1 DEF RemovalIsConfirmed
    <3>3. w = v BY <1>c, <3>1, <3>2 DEF ReviewsAgree
    <3>4. pair[1] \in Closing BY <3>2, <3>3 DEF Closing
    <3>5. m \in State BY <1>m, SynchronizedParts DEF Typed, ShellsTyped
    <3>6. host.at = "finish" /\ (failed' => host' = [host EXCEPT !.at = "error"]) BY <2>2 DEF JoinWrite
    <3>7. ~failed'
      <4>1. [host EXCEPT !.at = "error"] = [at |-> "error", job |-> host.job, todo |-> host.todo]
        BY <3>6, HostParts DEF Typed, HostTyped
      <4> QED BY <1>2, <3>6, <4>1
    <3>8. mem' = Closed(m) /\ disk' = Closed(m)
      BY <2>2, <3>7, CommitParts DEF JoinWrite, CommitRetained, Typed
    <3> HIDE DEF m
    <3>9. pair[1] \notin Open(Closed(m)) BY <1>m, <3>4, <3>5, ClosedParts
    <3> QED BY <3>8, <3>9
  <2> QED BY <1>2, <2>1, <2>2 DEF WorkMoves
<1>3. CASE Reviews' \subseteq Reviews BY <1>1, <1>2, <1>3 DEF ReviewedIsClosed
<1>4. ASSUME NEW d \in Devices, BeginRead(d), Reviews' \subseteq Reviews \cup {reads'[d]}
      PROVE  ReviewedIsClosed'
  <2>1. host = Free /\ host' = host /\ reads'[d].conf = count["reviews"] + 1
    BY <1>4 DEF BeginRead, Typed, ReviewsTyped
  <2>2. host'.at # "closed" /\ ~EndReviewed BY <2>1 DEF Free, EndReviewed
  <2>3. ASSUME NEW o \in Cleared', o.kind = "remove" PROVE o.conf # reads'[d].conf
    <3>1. o \in Cleared BY <2>2, <2>3 DEF WorkMoves
    <3>2. o \in AtWork
      <4>1. worker.kind \in {"writing", "running", "wrote"} => worker # None BY WorkerNone
      <4> QED BY <3>1, <4>1 DEF Cleared, AtWork
    <3>3. PICK w \in confirmed : w.conf = o.conf BY <2>3, <3>2 DEF RemovalIsConfirmed
    <3>4. w.conf \in Nat /\ w.conf <= count["reviews"] /\ count["reviews"] \in Nat
      BY <1>c, <1>r DEF ReviewsAgree, Typed, CountTyped
    <3> QED BY <2>1, <3>3, <3>4
  <2> QED BY <1>1, <1>4, <2>2, <2>3 DEF ReviewedIsClosed
<1> QED BY <1>3, <1>4, ReviewsFrom, InHandIsAsked

\* A creation on its way keeps its room, after every step.
LEMMA RoomInductive ==
    ASSUME WorkHolds, RemovalIsConfirmed, RoomIsKept, TabsKept, WorkMoves, [Next]_vars
    PROVE  RoomIsKept'
<1> USE DEF WorkHolds
<1>m. mem \in State /\ disk \in State /\ born \in Nat BY DEF Typed, RetainedTyped, CountTyped
<1>f. ASSUME NEW S, NEW T, S \subseteq T, T \subseteq Tabs, Cardinality(T) < MAX_TABS
      PROVE  Cardinality(S) < MAX_TABS
  <2>1. IsFiniteSet(T)
    <3>1. IsFiniteSet(Tabs) BY WorktreesAssumption, FS_Interval
    <3> QED BY <1>f, <3>1, FS_Subset
  <2>2. Cardinality(S) <= Cardinality(T) /\ IsFiniteSet(S) BY <1>f, <2>1, FS_Subset
  <2>3. Cardinality(S) \in Nat /\ Cardinality(T) \in Nat BY <2>1, <2>2, FS_CardinalityType
  <2> QED BY <1>f, <2>2, <2>3, WorktreesAssumption
<1>1. CASE Creating /\ born' = born
  <2>1. \A b \in {mem, disk} : Cardinality(Open(b)) < MAX_TABS /\ Open(b) \subseteq Tabs
    BY <1>1 DEF RoomIsKept, Creating, Open
  <2>2. Made = {} BY <1>1 DEF Made
  <2>3. ASSUME NEW s \in {mem', disk'} PROVE Cardinality(Open(s)) < MAX_TABS
    <3>1. PICK b \in {mem, disk} : Open(s) \subseteq Open(b) BY <2>2 DEF TabsKept
    <3> QED BY <1>f, <2>1, <3>1
  <2> QED BY <2>3 DEF RoomIsKept
<1>2. CASE JoinWrite /\ Creating'
  <2> DEFINE m == Synchronized(mem)
  <2>1. /\ worker' = None /\ worker.kind = "prepared" /\ worker.ok /\ host.at = "finish"
        /\ \/ host' = [host EXCEPT !.at = "error"]
           \/ ~failed' /\ host' = [at |-> "closed", job |-> host.job, todo |-> host.todo, op |-> worker.op]
    BY <1>2 DEF JoinWrite
  <2>2. [host EXCEPT !.at = "error"] = [at |-> "error", job |-> host.job, todo |-> host.todo]
    BY <2>1, HostParts DEF Typed, HostTyped
  <2>3. host'.at = "closed" /\ host'.op.kind = "create" BY <1>2, <2>1, WorkerNone DEF Creating
  <2>4. ~failed' /\ worker.op.kind = "create" BY <2>1, <2>2, <2>3
  <2>5. Closing = {} BY <2>1, <2>4 DEF RemovalIsConfirmed, Closing
  <2>6. m \in State /\ ~NeedsFallback(m)
    BY <1>m, <2>5, SynchronizedParts DEF Typed, ShellsTyped, NeedsFallback
  <2>7. Cardinality(Open(m)) < MAX_TABS BY <1>2, <2>4 DEF JoinWrite, StillFits, CanAdd
  <2>8. mem' = Closed(m) /\ disk' = Closed(m)
    BY <1>2, <2>4, CommitParts DEF JoinWrite, CommitRetained, Typed
  <2> HIDE DEF m
  <2>9. Open(Closed(m)) = Open(m) BY <1>m, <2>5, <2>6, ClosedParts
  <2> QED BY <2>7, <2>8, <2>9 DEF RoomIsKept
<1>3. CASE ~Creating' BY <1>3 DEF RoomIsKept, Creating
<1> QED BY <1>1, <1>2, <1>3 DEF WorkMoves

\* A running shell without its Tab was shown, after every step.
LEMMA GoneInductive ==
    ASSUME WorkHolds, GoneWasShown, TabsKept, [Next]_vars PROVE GoneWasShown'
<1>1. confirmed \subseteq confirmed' BY ReviewsFrom, InHandIsAsked DEF WorkHolds
<1> SUFFICES ASSUME NEW t \in Tabs, live'[t] # 0, t \notin exited', t \notin Open(mem') \cap Open(disk')
             PROVE  \E v \in confirmed' : <<t, live'[t]>> \in v.tabs
  BY DEF GoneWasShown
<1>2. CASE live'[t] = live[t] /\ t \notin exited /\ t \notin Open(mem) \cap Open(disk)
  BY <1>1, <1>2 DEF GoneWasShown
<1> QED BY <1>2 DEF TabsKept

\* The first server begins with open Tabs of its own, and no review.
LEMMA TabsStart == ASSUME Init PROVE TabsInv
<1>1. None.kind = "none" /\ worker = None /\ git = {} /\ host.at = "free" /\ confirmed = {}
  BY WorkerNone DEF Init
<1>2. Reviews = {} BY <1>1 DEF Init, Reviews
<1>3. ReviewsAgree /\ ReviewedIsClosed BY <1>2 DEF ReviewsAgree, ReviewedIsClosed
<1>4. AtWork = {} /\ \A d \in Devices : op[d] = None BY <1>1 DEF Init, AtWork
<1>5. RemovalIsConfirmed BY <1>1, <1>4 DEF RemovalIsConfirmed
<1>6. Open(mem) \subseteq {1, 2} /\ disk = mem /\ born = 2
  <2>1. \A t \in Tabs : t \notin {1, 2} => mem.dir[t] = "none" BY DEF Init
  <2>2. Open(mem) \subseteq {1, 2} BY <2>1 DEF Open
  <2> QED BY <2>2 DEF Init
<1>7. \A t \in Tabs : live[t] # 0 => t \in Open(mem) BY DEF Init
<1>8. TabsAreBorn BY <1>6, <1>7 DEF TabsAreBorn
<1>9. RoomIsKept BY <1>1 DEF RoomIsKept
<1>10. GoneWasShown BY <1>6, <1>7 DEF GoneWasShown
<1> QED BY <1>3, <1>5, <1>8, <1>9, <1>10 DEF TabsInv

\* Every step keeps Tabs, Sessions and reviews as they belong together.
LEMMA TabsInductive == ASSUME WorkHolds, TabsInv, [Next]_vars PROVE TabsInv' /\ TabsKept
<1> USE DEF TabsInv
<1>1. TabsKept BY StepsKeepTabs
<1>2. WorkMoves BY StepsMoveWork
<1>3. TabsAreBorn' BY <1>1, BornInductive DEF WorkHolds
<1>4. ReviewsAgree' BY <1>1, AgreeInductive
<1>5. RemovalIsConfirmed' BY <1>2, ConfirmedInductive
<1>6. ReviewedIsClosed' BY <1>1, <1>2, ClosedInductive
<1>7. RoomIsKept' BY <1>1, <1>2, RoomInductive
<1>8. GoneWasShown' BY <1>1, GoneInductive
<1> QED BY <1>1, <1>3, <1>4, <1>5, <1>6, <1>7, <1>8

\* Reviews, the Tabs they show, the Sessions in them and the work they were
\* confirmed for stay consistent: the inductive invariant of what Git removes
\* and what ends.  (RemovalPlan::apply, start_prepared, synchronize)
THEOREM TabsInvHolds == Spec => []TabsInv
<1>1. Init => WorkHolds /\ TabsInv BY WorkStarts, TabsStart
<1>2. WorkHolds /\ TabsInv /\ [Next]_vars => WorkHolds' /\ TabsInv' BY WorkInductive, TabsInductive
<1> QED BY <1>1, <1>2, PTL DEF Spec

\* Git removes a Worktree only after the Tabs the client reviewed are durably
\* closed and their Sessions ended.  (start_prepared)
THEOREM RemovalsAreClosed == Spec => []RemovalIsClosed
<1>1. TypeOK /\ TabsInv => RemovalIsClosed
  <2> SUFFICES ASSUME TypeOK, TabsInv, NEW c \in git, NEW v \in confirmed, c.op.kind = "remove",
                      v.conf = c.op.conf, NEW pair \in v.tabs
               PROVE  pair[1] \notin Open(disk) /\ live[pair[1]] = 0
    BY DEF RemovalIsClosed
  <2>1. v # None BY DEF TypeOK, Review, None
  <2>2. v \in Reviews /\ c.op \in Cleared BY <2>1 DEF Reviews, Cleared
  <2> QED BY <2>2 DEF TabsInv, ReviewedIsClosed
<1> QED BY <1>1, TabsInvHolds, WorktreesTypeCorrect, PTL

\* The capacity checked before Git creates a Worktree is still there when its
\* Tab is added.  (start_prepared, mutate)
THEOREM CreationsFit == Spec => []CreationFits
<1>1. TabsInv => CreationFits BY DEF TabsInv, RoomIsKept, CreationFits, CanAdd
<1> QED BY <1>1, TabsInvHolds, PTL

\* The server ends no Session that did not exit, except one a client was shown
\* in a removal review and confirmed.  (RemovalPlan::apply, synchronize)
THEOREM OnlyReviewedEnd == Spec => OnlyReviewedSessionsEnd
<1> DEFINE A == \A t \in Tabs :
                   live[t] # 0 /\ live'[t] # live[t] /\ t \notin exited /\ boot' = boot
                      => \E v \in confirmed : <<t, live[t]>> \in v.tabs
<1>1. Init => WorkHolds /\ TabsInv BY WorkStarts, TabsStart
<1>2. WorkHolds /\ TabsInv /\ [Next]_vars => WorkHolds' /\ TabsInv' BY WorkInductive, TabsInductive
<1>3. WorkHolds /\ TabsInv /\ [Next]_vars => [A]_vars
  <2> SUFFICES ASSUME WorkHolds, TabsInv, [Next]_vars, NEW t \in Tabs, live[t] # 0,
                      live'[t] # live[t], t \notin exited, boot' = boot
               PROVE  \E v \in confirmed : <<t, live[t]>> \in v.tabs
    OBVIOUS
  <2>1. t \notin Open(mem) \cap Open(disk) BY TabsInductive DEF TabsKept
  <2> QED BY <2>1 DEF TabsInv, GoneWasShown
<1> QED BY <1>1, <1>2, <1>3, PTL DEF Spec, OnlyReviewedSessionsEnd
=============================================================================
