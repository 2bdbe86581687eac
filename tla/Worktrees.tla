----------------------------- MODULE Worktrees ------------------------------
(***************************************************************************)
(* Worktree operations of one repository: preflight and Git writes off the *)
(* host's lock, their retained Pending outcomes, the lock that Git         *)
(* children inherit, and the edits that wait for them.                     *)
(*                                                                         *)
(* An operation is first retained as a Pending outcome.  A thread then     *)
(* checks it, the host retains what it closes and ends those Sessions, and *)
(* only then another thread runs Git.  A crash leaves the Git child        *)
(* running: it holds worktree.lock until it exits, and until then the next *)
(* server settles nothing.  Every other edit waits while an outcome is     *)
(* Pending.  The removal of a Worktree is bound to the review its client   *)
(* confirmed.                                                              *)
(*                                                                         *)
(* The repository has one linked Worktree, which exists or not, and one    *)
(* Workspace whose Tabs have one Pane each.  The journal appears as what   *)
(* module Journal shows of it: the newest state is written at some later   *)
(* time, or the write fails and the record, old or new, is read back.      *)
(***************************************************************************)
EXTENDS Naturals, Sequences, FiniteSets, SequencesExt

CONSTANTS Devices,      \* the devices that edit
          Revocable,    \* the devices that may be revoked
          Kinds,        \* the kinds of edit they make
          Tabs,         \* identities of Tabs, as many as can be made
          MAX_TABS,     \* the code's bound on Tabs
          MaxOps,       \* bound: edits of all devices together
          MaxReviews,   \* bound: removal checks
          MaxEvents     \* bound: failed writes and stops, crashes, shutdowns,
                        \* and what shells do

ASSUME WorktreesAssumption ==
    /\ Kinds \subseteq {"open", "create", "remove", "location", "edit"}
    /\ {MAX_TABS, MaxOps, MaxReviews, MaxEvents} \subseteq Nat
    /\ Tabs = 1..(2 + MaxOps + 2 * MaxEvents)
    /\ Revocable \subseteq Devices

VARIABLES
    mem,            \* WorkspaceHost.state
    disk,           \* the retained record
    failed,         \* Journal.uncertain
    host,           \* what the holder of the host's lock is doing
    worker,         \* Writes.worker and Writes.operation
    approvals,      \* Writes.approvals
    reads,          \* Reads.jobs: the removal check each device runs
    waiting,        \* WorkspaceHost.waiting
    forgetting,     \* WorkspaceHost.forgetting
    boot,           \* the server's boot
    live,           \* the Session of each Tab, 0 if it has none
    place,          \* the directory each shell is in
    exited,         \* Tabs whose shell exited
    git,            \* running Git writes
    exists,         \* whether the Worktree exists
    op,             \* the Original Operation of each client
    asked,          \* whether its client waits for a reply
    review,         \* the removal check each client holds
    revoked,        \* revoked devices
    did,            \* the operations Git carried out
    ran,            \* the operations Git was started for
    confirmed,      \* the reviews clients confirmed
    born,           \* the highest Tab identity used so far
    count           \* how often each bounded thing happened

retained == <<mem, disk, failed>>
server == <<host, worker, approvals, reads, waiting, forgetting, boot>>
shells == <<live, place, exited>>
external == <<git, exists>>
clients == <<op, asked, review, revoked>>
ghosts == <<did, ran, confirmed>>
vars == <<retained, server, shells, external, clients, ghosts, born,
          count>>
-----------------------------------------------------------------------------
Worktree == {"open", "create", "remove"}      \* the kinds that run Git
None == [kind |-> "none"]

Operation == [dev: Devices, seq: 1..MaxOps,
              kind: {"open", "create", "remove", "location", "edit"},
              conf: 0..MaxReviews, version: Nat]
Outcome == {"pending", "accepted", "failed"}
Sources == SUBSET (Tabs \X {"out", "in"})
Affected == SUBSET (Tabs \X Nat)
Review == [conf: 1..MaxReviews, boot: Nat, tabs: Affected]

\* State: the Tabs with their directory, which of them belong to the Worktree,
\* each device's outcomes, and the version of the Worktree settings.
State == [dir: [Tabs -> {"none", "out", "in"}], member: SUBSET Nat,
          records: SUBSET [op: Operation, outcome: Outcome], version: Nat]

Job == [kind: {"tick", "stop"}]
          \cup [kind: {"ask"}, dev: Devices, resolve: BOOLEAN]

HostState == [at: {"free"}]
    \cup [at: {"finish", "pending", "error", "next"}, job: Job, todo: Seq(Job)]
    \cup [at: {"closed"}, job: Job, todo: Seq(Job), op: Operation]

WorkerState == {None}
    \cup [kind: {"preflight"}, op: Operation, approval: Review \cup {None},
          boot: Nat, affected: Affected, sources: Sources]
    \cup [kind: {"prepared"}, op: Operation, ok: BOOLEAN,
          tabs: Affected, sources: Sources]
    \cup [kind: {"writing", "running"}, op: Operation]
    \cup [kind: {"wrote"}, op: Operation, ok: BOOLEAN]

\* Every variable keeps its type.  Operations, reviews and Sessions stay within
\* their bounds; a retained state has a directory for every Tab.
TypeOK ==
    /\ {mem, disk} \subseteq State
    /\ failed \in BOOLEAN
    /\ host \in HostState
    /\ worker \in WorkerState
    /\ approvals \in [Devices -> Review \cup {None}]
    /\ reads \in [Devices -> Review \cup {None}]
    /\ waiting \in Seq(Job)
    /\ forgetting \in SUBSET Devices
    /\ boot \in Nat
    /\ live \in [Tabs -> Nat]
    /\ place \in [Tabs -> {"out", "in"}]
    /\ exited \in SUBSET Tabs
    /\ git \in SUBSET [op: Operation, done: BOOLEAN, boot: Nat]
    /\ exists \in BOOLEAN
    /\ op \in [Devices -> {None} \cup [op: Operation,
                                       answer: {"none", "accepted", "failed"}]]
    /\ asked \in [Devices -> {"no", "asked", "answered"}]
    /\ review \in [Devices -> Review \cup {None}]
    /\ revoked \in SUBSET Devices
    /\ {did, ran} \subseteq SUBSET Operation
    /\ confirmed \subseteq Review
    /\ born \in Nat
    /\ count \in [{"ops", "reviews", "events"} -> Nat]

Count(what) == count' = [count EXCEPT ![what] = @ + 1]

Open(m) == {t \in Tabs : m.dir[t] # "none"}

Init ==
    /\ exists \in BOOLEAN
    /\ mem = [dir |-> [t \in Tabs |-> IF t = 1 THEN "out"
                                      ELSE IF t = 2 /\ exists THEN "in"
                                      ELSE "none"],
              member |-> IF exists THEN {2} ELSE {},
              records |-> {}, version |-> 0]
    /\ disk = mem
    /\ failed = FALSE
    /\ host = [at |-> "free"]
    /\ worker = None
    /\ approvals = [d \in Devices |-> None]
    /\ reads = [d \in Devices |-> None]
    /\ waiting = <<>>
    /\ forgetting = {}
    /\ boot = 0
    /\ live = [t \in Tabs |-> IF t \in Open(mem) THEN 1 ELSE 0]
    /\ place = [t \in Tabs |-> IF mem.dir[t] = "in" THEN "in" ELSE "out"]
    /\ exited = {}
    /\ git = {}
    /\ op = [d \in Devices |-> None]
    /\ asked = [d \in Devices |-> "no"]
    /\ review = [d \in Devices |-> None]
    /\ revoked = {}
    /\ did = {}
    /\ ran = {}
    /\ confirmed = {}
    /\ born = 2
    /\ count = [k \in {"ops", "reviews", "events"} |-> 0]

-----------------------------------------------------------------------------
(* Retained state.                                                         *)

\* State::pending_worktrees.
Pending(m) == {r \in m.records : r.outcome = "pending"}

PendingOf(m, d) == {r \in Pending(m) : r.op.dev = d}

\* State::outcome.
Recorded(m, o) == {r \in m.records : r.op = o}

\* State::finish_worktree.
Settled(m, o, outcome) ==
    [m EXCEPT !.records = (@ \ Recorded(m, o)) \cup
                             {[op |-> o, outcome |-> outcome]}]

\* State::add_worktree_tab finds its Workspace and has capacity.
CanAdd(m) == Open(m) # {} /\ Cardinality(Open(m)) < MAX_TABS

\* State::add_worktree_tab, and a Tab an ordinary edit opens.
AddTab(m, directory, belongs) ==
    [m EXCEPT !.dir[born + 1] = directory,
              !.member = @ \cup IF belongs THEN {born + 1} ELSE {}]

\* State::remove_pane, of the only Pane of each of these Tabs.
RemoveTabs(m, tabs) ==
    [m EXCEPT !.dir = [t \in Tabs |-> IF t \in tabs THEN "none" ELSE @[t]],
              !.member = @ \ tabs]

\* State::forget, of the devices whose Worktree work is not in progress.
Forget(m, devices) ==
    [m EXCEPT !.records = {r \in @ : r.op.dev \notin devices
                                     \/ PendingOf(m, r.op.dev) # {}}]

\* Inventory::affected_worktree_tabs_in, with the Session of each Pane.
AffectedTabs(m) ==
    {<<t, live[t]>> : t \in {u \in Open(m) : u \in m.member \/ m.dir[u] = "in"}}

\* sources: every Pane with its directory.
SourcesOf(m) == {<<t, m.dir[t]>> : t \in Open(m)}

\* WorkspaceHost::recover: what the state is after reading the record back.
Recovered == IF failed THEN disk ELSE mem

\* commit_retained: commits next and waits for its write.  A write that fails,
\* now or before, leaves the record uncertain.
CommitFrom(next, uncertain) ==
    /\ mem' = next
    /\ \/ ~uncertain /\ disk' = next /\ failed' = FALSE /\ UNCHANGED count
       \/ uncertain /\ failed' = TRUE /\ UNCHANGED <<disk, count>>
       \/ /\ ~uncertain /\ count["events"] < MaxEvents
          /\ Count("events")
          /\ failed' = TRUE
          /\ disk' \in {disk, next}

CommitRetained(next) == CommitFrom(next, failed)

\* What synchronize learns from the terminals: the directories of live shells,
\* and that a Pane whose shell exited is removed.
Synchronized(m) ==
    [m EXCEPT !.dir = [t \in Tabs |->
                          IF @[t] = "none" \/ t \in exited THEN "none"
                          ELSE IF live[t] # 0 THEN place[t] ELSE @[t]],
              !.member = @ \ exited]

\* synchronize ends the processes of deleted Panes once every commit is
\* retained.
EndDeleted(m, durable) ==
    LET ended == {t \in Tabs : durable /\ t \notin Open(m)} IN
    /\ live' = [t \in Tabs |-> IF t \in ended THEN 0 ELSE live[t]]
    /\ place' = [t \in Tabs |-> IF t \in ended THEN "out" ELSE place[t]]
    /\ exited' = exited \ ended

\* The sync worker writes what was committed without waiting.
Write ==
    /\ mem # disk /\ ~failed
    /\ \/ disk' = mem /\ UNCHANGED <<failed, count>>
       \/ /\ count["events"] < MaxEvents
          /\ Count("events")
          /\ failed' = TRUE
          /\ disk' \in {disk, mem}
    /\ UNCHANGED <<mem, server, shells, external, clients, ghosts, born>>

-----------------------------------------------------------------------------
(* The host's lock: every request and tick first finishes Worktree work.   *)

Free == [at |-> "free"]

Finished(w) == w.kind \in {"prepared", "wrote"}

\* Where finish_worktrees goes with this thread: it joins a finished one, and
\* shutdown waits for one that runs.
Stage(job, w) ==
    IF Finished(w) \/ (job.kind = "stop" /\ w # None) THEN "finish"
    ELSE "pending"

\* ready and finish_worktrees read an uncertain record back first.
Enter(job, todo) ==
    /\ mem' = Recovered
    /\ failed' = FALSE
    /\ host' = [at |-> Stage(job, worker), job |-> job, todo |-> todo]
    /\ UNCHANGED disk

At(stage) == host' = [host EXCEPT !.at = stage]

\* A tick, and a request to inspect the inventory.
Tick ==
    /\ host = Free
    /\ Enter([kind |-> "tick"], <<>>)
    /\ UNCHANGED <<worker, approvals, reads, waiting, forgetting, boot, shells,
                   external, clients, ghosts, born, count>>

\* A client sends its edit, or asks what became of it.
Ask(d, resolve) ==
    /\ host = Free
    /\ op[d] # None /\ op[d].answer = "none" /\ asked[d] = "no"
    /\ asked' = [asked EXCEPT ![d] = "asked"]
    /\ Enter([kind |-> "ask", dev |-> d, resolve |-> resolve], <<>>)
    /\ UNCHANGED <<worker, approvals, reads, waiting, forgetting, boot, shells,
                   external, op, review, revoked, ghosts, born, count>>

\* The server stops: waiting edits are refused and Worktree work is joined.
Stop ==
    /\ host = Free
    /\ count["events"] < MaxEvents
    /\ Count("events")
    /\ waiting' = <<>>
    /\ asked' = [d \in Devices |-> IF asked[d] = "asked" THEN "no" ELSE asked[d]]
    /\ reads' = [d \in Devices |-> None]
    /\ Enter([kind |-> "stop"], <<>>)
    /\ UNCHANGED <<worker, approvals, forgetting, boot, shells, external, op,
                   review, revoked, ghosts, born>>

\* The request is over: the lock is released, unless more waiting edits are to
\* be settled.
Done ==
    host' = IF host.todo = <<>> THEN Free ELSE [host EXCEPT !.at = "next"]

\* answer_waiting goes on to the next waiting edit.
NextWaiting ==
    /\ host.at = "next"
    /\ Enter(Head(host.todo), Tail(host.todo))
    /\ UNCHANGED <<worker, approvals, reads, waiting, forgetting, boot, shells,
                   external, clients, ghosts, born, count>>

-----------------------------------------------------------------------------
(* finish_worktrees.                                                       *)

\* An error ends finish_worktrees.
Joined == At(IF failed' THEN "error" ELSE "pending")

\* Mutant: the result of the thread is not looked at.
JoinAccepted ==
    /\ host.at = "finish" /\ Finished(worker) /\ ~worker.ok
    /\ worker' = None
    /\ CommitRetained(Settled(mem, worker.op, "accepted"))
    /\ Joined
    /\ UNCHANGED <<approvals, reads, waiting, forgetting, boot, shells,
                   external, clients, ghosts, born>>

\* settle_worktree for an operation that failed, and when a thread's check did.
JoinFailed ==
    /\ host.at = "finish" /\ Finished(worker) /\ ~worker.ok
    /\ worker' = None
    /\ CommitRetained(Settled(mem, worker.op, "failed"))
    /\ Joined
    /\ UNCHANGED <<approvals, reads, waiting, forgetting, boot, shells,
                   external, clients, ghosts, born>>

\* start_prepared for a Worktree to open: the Tab and its outcome are retained.
JoinOpen ==
    LET m == Synchronized(mem) IN
    /\ host.at = "finish" /\ worker.kind = "prepared" /\ worker.ok
    /\ worker.op.kind = "open"
    /\ worker' = None
    /\ EndDeleted(m, mem = disk /\ ~failed)
    /\ \/ /\ CanAdd(m)
          /\ CommitRetained(Settled(AddTab(m, "in", TRUE), worker.op,
                                    "accepted"))
          /\ born' = born + 1
       \/ /\ ~CanAdd(m)
          /\ CommitRetained(Settled(m, worker.op, "failed"))
          /\ UNCHANGED born
    /\ Joined
    /\ UNCHANGED <<approvals, reads, waiting, forgetting, boot, external,
                   clients, ghosts>>

\* Mutant: the review is not compared again.
FitsUnchecked(m) == worker.op.kind = "remove" \/ CanAdd(m)

\* Whether the checked operation still fits the inventory: RemovalPlan::apply,
\* and the capacity a creation needs.
StillFits(m) ==
    IF worker.op.kind = "remove"
    THEN SourcesOf(m) \subseteq worker.sources /\ AffectedTabs(m) = worker.tabs
    ELSE CanAdd(m)

\* The Tabs a removal closes.
Closing == {pair[1] : pair \in worker.tabs}

\* RemovalPlan::apply: a Workspace all of whose Tabs close gets a fallback Tab.
NeedsFallback(m) == Closing # {} /\ Open(m) \subseteq Closing

Closed(m) ==
    RemoveTabs(IF NeedsFallback(m) THEN AddTab(m, "out", FALSE) ELSE m, Closing)

\* start_prepared for a Git write: what it closes is retained before anything
\* ends.
JoinWrite ==
    LET m == Synchronized(mem) IN
    /\ host.at = "finish" /\ worker.kind = "prepared" /\ worker.ok
    /\ worker.op.kind # "open"
    /\ StillFits(m)
    /\ NeedsFallback(m) => CanAdd(m)
    /\ worker' = None
    /\ EndDeleted(m, mem = disk /\ ~failed)
    /\ CommitRetained(Closed(m))
    /\ born' = IF NeedsFallback(m) THEN born + 1 ELSE born
    /\ host' = IF failed' THEN [host EXCEPT !.at = "error"]
               ELSE [at |-> "closed", job |-> host.job, todo |-> host.todo,
                     op |-> worker.op]
    /\ UNCHANGED <<approvals, reads, waiting, forgetting, boot, external,
                   clients, ghosts>>

\* start_prepared for a Git write that no longer fits: it is settled instead.
JoinChanged ==
    LET m == Synchronized(mem) IN
    /\ host.at = "finish" /\ worker.kind = "prepared" /\ worker.ok
    /\ worker.op.kind # "open"
    /\ ~StillFits(m) \/ (NeedsFallback(m) /\ ~CanAdd(m))
    /\ worker' = None
    /\ EndDeleted(m, mem = disk /\ ~failed)
    /\ CommitRetained(Settled(m, worker.op, "failed"))
    /\ Joined
    /\ UNCHANGED <<approvals, reads, waiting, forgetting, boot, external,
                   clients, ghosts, born>>

\* Mutant: Git does not wait for the closed Sessions to end.
StartUnended ==
    /\ host.at = "closed"
    /\ worker' = [kind |-> "writing", op |-> host.op]
    /\ host' = [at |-> Stage(host.job, worker'), job |-> host.job,
                todo |-> host.todo]
    /\ UNCHANGED <<retained, approvals, reads, waiting, forgetting, boot,
                   shells, external, clients, ghosts, born, count>>

\* start_prepared goes on: the closed Sessions end and the write's thread
\* starts.  A process that does not stop leaves the outcome Pending.
EndReviewed ==
    LET m == Synchronized(Recovered)
        stage(next) == [at |-> next, job |-> host.job, todo |-> host.todo] IN
    /\ host.at = "closed"
    /\ failed' = FALSE
    /\ \/ /\ mem' = m
          /\ EndDeleted(m, mem = disk /\ ~failed)
          /\ worker' = [kind |-> "writing", op |-> host.op]
          /\ host' = stage(Stage(host.job, worker'))
          /\ UNCHANGED count
       \/ /\ \E t \in Tabs : live[t] # 0 /\ t \notin Open(m)
          /\ count["events"] < MaxEvents
          /\ Count("events")
          /\ mem' = Recovered
          /\ host' = stage("error")
          /\ UNCHANGED <<worker, shells>>
    /\ UNCHANGED <<disk, approvals, reads, waiting, forgetting, boot, external,
                   clients, ghosts, born>>

\* settle_worktree for a write that succeeded.
JoinWrote ==
    LET shown == worker.op.kind = "create" IN
    /\ host.at = "finish" /\ worker.kind = "wrote" /\ worker.ok
    /\ worker' = None
    /\ \/ /\ ~shown
          /\ CommitRetained(Settled(mem, worker.op, "accepted"))
          /\ UNCHANGED born
       \/ /\ shown /\ CanAdd(mem)
          /\ CommitRetained(Settled(AddTab(mem, "in", TRUE), worker.op,
                                    "accepted"))
          /\ born' = born + 1
       \/ /\ shown /\ ~CanAdd(mem)
          /\ CommitRetained(Settled(mem, worker.op, "failed"))
          /\ UNCHANGED born
    /\ Joined
    /\ UNCHANGED <<approvals, reads, waiting, forgetting, boot, shells,
                   external, clients, ghosts>>

\* The thread that checks or writes holds the lock, and so does a Git child.
LockHeld == git # {} \/ worker.kind \in {"preflight", "prepared", "writing"}

\* Mutant: recovery does not take the lock.
SettleUnlocked(r) ==
    /\ host.at = "pending" /\ worker = None /\ r \in Pending(mem)
    /\ CommitRetained(Settled(mem, r.op, "failed"))
    /\ At(IF failed' THEN "error" ELSE "pending")
    /\ UNCHANGED <<worker, approvals, reads, waiting, forgetting, boot, shells,
                   external, clients, ghosts, born>>

\* Without a thread, an outcome left Pending is settled as interrupted, once
\* the lock shows that no Git child of it runs.
SettlePending(r) ==
    /\ host.at = "pending" /\ worker = None /\ r \in Pending(mem)
    /\ \/ /\ LockHeld
          /\ At("error")
          /\ UNCHANGED <<retained, count>>
       \/ /\ ~LockHeld
          /\ CommitRetained(Settled(mem, r.op, "failed"))
          /\ At(IF failed' THEN "error" ELSE "pending")
    /\ UNCHANGED <<worker, approvals, reads, waiting, forgetting, boot, shells,
                   external, clients, ghosts, born>>

\* finish_worktrees is over.
Concluding ==
    \/ host.at = "error"
    \/ host.at = "pending" /\ (worker # None \/ Pending(mem) = {})

\* Mutant: a revoked device is only forgotten when it is revoked.
ForgetsNever == FALSE

\* Its last step forgets revoked devices, unless it ended in an error.  Each
\* reads an uncertain record back first.
Forgets == host.at = "pending" /\ forgetting # {}

AfterForgetting == IF Forgets THEN Forget(Recovered, forgetting) ELSE mem

StillForgetting ==
    IF Forgets THEN {d \in forgetting : PendingOf(Recovered, d) # {}}
    ELSE forgetting

StillUncertain == failed /\ ~Forgets

\* Mutant: the edits that wait are not settled on the tick.
ConcludeSilently ==
    LET base == IF StillUncertain THEN disk ELSE AfterForgetting IN
    /\ Concluding /\ host.job.kind = "tick"
    /\ forgetting' = StillForgetting
    /\ failed' = FALSE
    /\ mem' = Synchronized(base)
    /\ EndDeleted(base, base = disk)
    /\ host' = Free
    /\ UNCHANGED <<disk, worker, approvals, reads, waiting, boot, external,
                   clients, ghosts, born, count>>

\* The rest of a tick: synchronize, then settle the edits that wait unless a
\* thread still runs.
ConcludeTick ==
    LET base == IF StillUncertain THEN disk ELSE AfterForgetting
        m == Synchronized(base) IN
    /\ Concluding /\ host.job.kind = "tick"
    /\ forgetting' = StillForgetting
    /\ failed' = FALSE
    /\ mem' = m
    /\ EndDeleted(base, base = disk)
    /\ \/ /\ waiting # <<>> /\ worker = None
          /\ waiting' = <<>>
          /\ host' = [at |-> "next", job |-> host.job, todo |-> waiting]
       \/ /\ waiting = <<>> \/ worker # None
          /\ host' = Free
          /\ UNCHANGED waiting
    /\ UNCHANGED <<disk, worker, approvals, reads, boot, external, clients,
                   ghosts, born, count>>

-----------------------------------------------------------------------------
(* edit: what becomes of the edit a client sent.                           *)

Asking == Concluding /\ host.job.kind = "ask"

Asked == op[host.job.dev].op

RestOfAsk ==
    UNCHANGED <<approvals, reads, boot, shells, external, review, revoked,
                ghosts>>

\* The client is told of a refusal, and asks again later.
Refused ==
    asked' = [asked EXCEPT ![host.job.dev] = "no"] /\ Done

\* The edit waits for the Worktree write in progress.
Waits ==
    waiting' = Append(waiting, host.job) /\ Done

\* An error of finish_worktrees, a Resolve of what was never recorded, and a
\* Worktree operation while a Git child holds the lock.
AskRefused ==
    /\ Asking
    /\ \/ host.at = "error"
       \/ host.job.resolve /\ Recorded(AfterForgetting, Asked) = {}
       \/ /\ Asked.kind # "edit"
          /\ Recorded(AfterForgetting, Asked) = {}
          /\ Pending(AfterForgetting) = {}
          /\ LockHeld
    /\ mem' = AfterForgetting
    /\ forgetting' = StillForgetting
    /\ failed' = StillUncertain
    /\ Refused
    /\ UNCHANGED <<disk, worker, waiting, op, born, count>>
    /\ RestOfAsk

\* A recorded outcome is replayed; while Pending, and while another one is,
\* the edit waits.
AskRecorded ==
    LET m == AfterForgetting
        records == Recorded(m, Asked) IN
    /\ Asking /\ host.at = "pending"
    /\ \/ \E r \in records :
             \/ r.outcome = "pending" /\ Waits /\ UNCHANGED asked
             \/ /\ r.outcome # "pending"
                /\ asked' = [asked EXCEPT ![host.job.dev] = "answered"]
                /\ Done
                /\ UNCHANGED waiting
       \/ /\ records = {} /\ ~host.job.resolve /\ Pending(m) # {}
          /\ Waits
          /\ UNCHANGED asked
    /\ mem' = m
    /\ forgetting' = StillForgetting
    /\ failed' = StillUncertain
    /\ UNCHANGED <<disk, worker, op, born, count>>
    /\ RestOfAsk

\* Mutant: an edit does not wait for the write in progress.
NewAnyway(m) ==
    /\ Asking /\ host.at = "pending" /\ ~host.job.resolve
    /\ Recorded(m, Asked) = {}

\* Mutant: a recorded operation is begun again.
NewAgain(m) ==
    /\ Asking /\ host.at = "pending" /\ ~host.job.resolve
    /\ Pending(m) = {}

\* Nothing is Pending: the edit is new, and is applied.
New(m) ==
    /\ Asking /\ host.at = "pending" /\ ~host.job.resolve
    /\ Recorded(m, Asked) = {} /\ Pending(m) = {}

\* An ordinary edit, and the location of new Worktrees, are settled at once.
\* Their replies wait for the write.
AskEdit ==
    LET m == AfterForgetting IN
    /\ New(m)
    /\ \/ /\ Asked.kind = "edit"
          /\ mem' = IF CanAdd(m)
                    THEN Settled(AddTab(m, "out", FALSE), Asked, "accepted")
                    ELSE Settled(m, Asked, "failed")
          /\ born' = IF CanAdd(m) THEN born + 1 ELSE born
       \/ /\ Asked.kind = "location" /\ ~LockHeld
          /\ mem' = IF Asked.version = m.version
                    THEN [Settled(m, Asked, "accepted") EXCEPT !.version = @ + 1]
                    ELSE Settled(m, Asked, "failed")
          /\ UNCHANGED born
    /\ forgetting' = StillForgetting
    /\ failed' = StillUncertain
    /\ asked' = [asked EXCEPT ![host.job.dev] = "answered"]
    /\ Done
    /\ UNCHANGED <<disk, worker, waiting, op, count>>
    /\ RestOfAsk

\* begin_worktree: the operation is retained as Pending with the inventory and
\* the approval it was asked under, then its thread checks it.
BeginWorktree ==
    LET m == AfterForgetting IN
    /\ New(m)
    /\ Asked.kind \in Worktree /\ ~LockHeld
    /\ forgetting' = StillForgetting
    /\ CommitFrom(Settled(m, Asked, "pending"), StillUncertain)
    /\ \/ /\ failed'
          /\ Refused
          /\ UNCHANGED <<worker, waiting>>
       \/ /\ ~failed'
          /\ worker' = [kind |-> "preflight", op |-> Asked,
                        approval |->
                           IF Asked.kind = "remove"
                              /\ approvals[Asked.dev] # None
                              /\ approvals[Asked.dev].conf = Asked.conf
                           THEN approvals[Asked.dev] ELSE None,
                        boot |-> boot, affected |-> AffectedTabs(m),
                        sources |-> SourcesOf(m)]
          /\ Waits
          /\ UNCHANGED asked
    /\ UNCHANGED <<op, born>>
    /\ RestOfAsk

-----------------------------------------------------------------------------
(* Threads and Git, off the lock.                                          *)

\* preparing::prepare: whether the checks can pass.  A removal is bound to an
\* approval of this boot whose Tabs and Sessions are the ones affected.
Passes ==
    CASE worker.op.kind = "open" -> exists
      [] worker.op.kind = "create" -> ~exists
      [] worker.op.kind = "remove" ->
            /\ exists
            /\ worker.approval # None
            /\ worker.approval.boot = worker.boot
            /\ worker.approval.tabs = worker.affected

\* The preflight thread ends.  Git, the disk or an expired approval may refuse
\* what passes otherwise.
Preflight(ok) ==
    /\ worker.kind = "preflight"
    /\ ok => Passes
    /\ worker' = [kind |-> "prepared", op |-> worker.op, ok |-> ok,
                  tabs |-> IF ok /\ worker.op.kind = "remove"
                           THEN worker.approval.tabs ELSE {},
                  sources |-> worker.sources]
    /\ UNCHANGED <<retained, host, approvals, reads, waiting, forgetting, boot,
                   shells, external, clients, ghosts, born, count>>

\* The write's thread starts Git, which inherits the lock.
GitStarts ==
    /\ worker.kind = "writing"
    /\ worker' = [kind |-> "running", op |-> worker.op]
    /\ git' = git \cup {[op |-> worker.op, done |-> FALSE, boot |-> boot]}
    /\ ran' = ran \cup {worker.op}
    /\ UNCHANGED <<retained, host, approvals, reads, waiting, forgetting, boot,
                   shells, exists, clients, did, confirmed, born, count>>

\* Git creates or removes the Worktree.
GitActs(c) ==
    /\ ~c.done
    /\ exists = (c.op.kind = "remove")
    /\ exists' = ~exists
    /\ git' = (git \ {c}) \cup {[c EXCEPT !.done = TRUE]}
    /\ did' = did \cup {c.op}
    /\ UNCHANGED <<retained, server, shells, clients, ran, confirmed, born,
                   count>>

\* Git exits.  The thread that waits for it, if its server still runs, verifies
\* what it did and ends.
GitExits(c, ok) ==
    /\ ok => c.done
    /\ git' = git \ {c}
    /\ \/ /\ worker.kind = "running" /\ c.boot = boot
          /\ worker' = [kind |-> "wrote", op |-> worker.op, ok |-> ok]
       \/ /\ c.boot # boot /\ ~ok
          /\ UNCHANGED worker
    /\ UNCHANGED <<retained, host, approvals, reads, waiting, forgetting, boot,
                   shells, exists, clients, ghosts, born, count>>

\* Reads::begin: a removal check captures the inventory, unless an outcome is
\* Pending.
BeginRead(d) ==
    /\ host = Free
    /\ count["reviews"] < MaxReviews
    /\ d \notin revoked /\ reads[d] = None
    /\ Pending(mem) = {}
    /\ Count("reviews")
    /\ reads' = [reads EXCEPT ![d] =
          [conf |-> count["reviews"] + 1, boot |-> boot,
           tabs |-> AffectedTabs(mem)]]
    /\ UNCHANGED <<retained, host, worker, approvals, waiting, forgetting,
                   boot, shells, external, clients, ghosts, born>>

\* settled_worktree_reads: a check that settled records its approval, the only
\* one of its device, and the client gets its review.  One that fails, is
\* cancelled or outlasts its deadline leaves nothing, as one that never settles.
ReadSettles(d) ==
    /\ host = Free
    /\ reads[d] # None
    /\ exists
    /\ approvals' = [approvals EXCEPT ![d] = reads[d]]
    /\ review' = [review EXCEPT ![d] = reads[d]]
    /\ reads' = [reads EXCEPT ![d] = None]
    /\ UNCHANGED <<retained, host, worker, waiting, forgetting, boot, shells,
                   external, op, asked, revoked, ghosts, born, count>>

-----------------------------------------------------------------------------
(* Shells.                                                                 *)

\* A shell changes its directory.
Cd(t) ==
    /\ count["events"] < MaxEvents
    /\ live[t] # 0 /\ t \notin exited
    /\ place[t] = "out" => exists
    /\ Count("events")
    /\ place' = [place EXCEPT ![t] = IF @ = "in" THEN "out" ELSE "in"]
    /\ UNCHANGED <<retained, server, live, exited, external, clients, ghosts,
                   born>>

\* A shell exits.
Exit(t) ==
    /\ count["events"] < MaxEvents
    /\ live[t] # 0 /\ t \notin exited
    /\ Count("events")
    /\ exited' = exited \cup {t}
    /\ UNCHANGED <<retained, server, live, place, external, clients, ghosts,
                   born>>

\* A client selects a Pane without a Session, which starts its shell.
StartShell(t) ==
    /\ host = Free
    /\ count["events"] < MaxEvents
    /\ live[t] = 0 /\ t \in Open(mem) /\ t \in Open(disk) /\ ~failed
    /\ mem.dir[t] = "in" => exists
    /\ Count("events")
    /\ live' = [live EXCEPT ![t] = count["events"] + 2]
    /\ place' = [place EXCEPT ![t] = mem.dir[t]]
    /\ UNCHANGED <<retained, server, exited, external, clients, ghosts, born>>

-----------------------------------------------------------------------------
(* Clients, revocation, crash and restart.                                 *)

\* A client begins an Original Operation; a removal carries the review it
\* confirmed.
Begin(d, kind) ==
    /\ count["ops"] < MaxOps
    /\ d \notin revoked /\ op[d] = None
    /\ kind = "remove" => review[d] # None
    /\ Count("ops")
    /\ op' = [op EXCEPT ![d] =
          [op |-> [dev |-> d, seq |-> count["ops"] + 1, kind |-> kind,
                   conf |-> IF kind = "remove" THEN review[d].conf ELSE 0,
                   version |-> IF kind = "location" THEN disk.version ELSE 0],
           answer |-> "none"]]
    /\ confirmed' = confirmed \cup IF kind = "remove" THEN {review[d]} ELSE {}
    /\ UNCHANGED <<retained, server, shells, external, asked, review, revoked,
                   did, ran, born>>

\* The sync worker replies once the outcome is retained, or refuses.
Deliver(d) ==
    LET settled == {r \in Recorded(disk, op[d].op) : r.outcome # "pending"} IN
    /\ asked[d] = "answered"
    /\ \/ \E r \in settled :
             ~failed /\ op' = [op EXCEPT ![d].answer = r.outcome]
       \/ (failed \/ (mem = disk /\ settled = {})) /\ UNCHANGED op
    /\ asked' = [asked EXCEPT ![d] = "no"]
    /\ UNCHANGED <<retained, server, shells, external, review, revoked, ghosts,
                   born, count>>

\* retire_outcome: the client acknowledges what it was told.
Acknowledge(d) ==
    /\ host = Free
    /\ op[d] # None /\ op[d].answer # "none"
    /\ mem' = [Recovered EXCEPT !.records = {r \in @ :
                  r.op.dev # d \/ r.op.seq > op[d].op.seq}]
    /\ failed' = FALSE
    /\ op' = [op EXCEPT ![d] = None]
    /\ UNCHANGED <<disk, server, shells, external, asked, review, revoked,
                   ghosts, born, count>>

\* The waiting edits without those of a device: it waits for one reply at most.
Without(jobs, d) ==
    LET his == {i \in DOMAIN jobs : jobs[i].dev = d} IN
    IF his = {} THEN jobs ELSE RemoveAt(jobs, CHOOSE i \in his : TRUE)

\* revoked: its connection closes, and its record is forgotten now or once its
\* Worktree work is settled.
Revoke(d) ==
    /\ host = Free
    /\ d \in Revocable \ revoked
    /\ revoked' = revoked \cup {d}
    /\ op' = [op EXCEPT ![d] = None]
    /\ asked' = [asked EXCEPT ![d] = "no"]
    /\ review' = [review EXCEPT ![d] = None]
    /\ reads' = [reads EXCEPT ![d] = None]
    /\ waiting' = Without(waiting, d)
    /\ mem' = Forget(Recovered, {d})
    /\ failed' = FALSE
    /\ forgetting' = IF PendingOf(Recovered, d) # {} THEN forgetting \cup {d}
                     ELSE forgetting
    /\ UNCHANGED <<disk, host, worker, approvals, boot, shells, external,
                   ghosts, born, count>>

\* The next server reads the record, makes a first Tab if there is none, and
\* forgets every revoked device again.  Git children live on.
Reboot(record) ==
    LET first == IF Open(record) = {} THEN AddTab(record, "out", FALSE)
                 ELSE record IN
    /\ disk' = first
    /\ mem' = Forget(first, revoked)
    /\ failed' = FALSE
    /\ born' = IF Open(record) = {} THEN born + 1 ELSE born
    /\ forgetting' = {d \in revoked : PendingOf(first, d) # {}}
    /\ host' = Free
    /\ worker' = None
    /\ approvals' = [d \in Devices |-> None]
    /\ reads' = [d \in Devices |-> None]
    /\ waiting' = <<>>
    /\ boot' = boot + 1
    /\ live' = [t \in Tabs |-> 0]
    /\ place' = [t \in Tabs |-> "out"]
    /\ exited' = {}
    /\ asked' = [d \in Devices |-> "no"]
    /\ UNCHANGED <<external, op, review, revoked, ghosts>>

\* The server crashes at any point.
Crash ==
    /\ count["events"] < MaxEvents
    /\ Count("events")
    /\ Reboot(disk)

\* shutdown has joined its threads; it writes what is left, or fails.
ConcludeStop ==
    /\ Concluding /\ host.job.kind = "stop"
    /\ Reboot(IF host.at = "pending" /\ ~StillUncertain THEN AfterForgetting
              ELSE disk)
    /\ UNCHANGED count

-----------------------------------------------------------------------------
HostStep ==
    \/ NextWaiting \/ JoinFailed \/ JoinOpen \/ JoinWrite \/ JoinChanged
    \/ EndReviewed \/ JoinWrote
    \/ \E r \in Pending(mem) : SettlePending(r)
    \/ ConcludeTick \/ AskRefused \/ AskRecorded \/ AskEdit \/ BeginWorktree
    \/ ConcludeStop

Next ==
    \/ HostStep
    \/ Write \/ Tick \/ Stop \/ Crash
    \/ \E d \in Devices, resolve \in BOOLEAN : Ask(d, resolve)
    \/ \E ok \in BOOLEAN : Preflight(ok)
    \/ GitStarts
    \/ \E c \in git : GitActs(c) \/ \E ok \in BOOLEAN : GitExits(c, ok)
    \/ \E d \in Devices :
          \/ BeginRead(d) \/ ReadSettles(d)
          \/ \E kind \in Kinds : Begin(d, kind)
          \/ Deliver(d) \/ Acknowledge(d) \/ Revoke(d)
    \/ \E t \in Tabs : Cd(t) \/ Exit(t) \/ StartShell(t)

Spec == Init /\ [][Next]_vars

\* The tick is armed while a write, a thread or an edit waits.
Due == mem # disk \/ failed \/ worker # None \/ waiting # <<>>

\* Threads run, Git exits, the lock is given to whoever keeps asking for it,
\* and a client keeps asking until it is answered.
Fairness ==
    /\ WF_vars(HostStep) /\ WF_vars(Write) /\ WF_vars(GitStarts)
    /\ WF_vars(\E ok \in BOOLEAN : Preflight(ok))
    /\ WF_vars(\E c \in git, ok \in BOOLEAN : GitExits(c, ok))
    /\ SF_vars(Due /\ Tick)
    /\ \A d \in Devices : WF_vars(Deliver(d)) /\ SF_vars(Ask(d, FALSE))

FairSpec == Spec /\ Fairness

(* Properties.                                                             *)

\* A thread and a Git child only ever work for an operation whose Pending
\* outcome is retained, over crashes too: nothing settles an outcome while its
\* Git child still runs.  (commit_retained, finish_worktrees)
WriteIsRecorded ==
    \A o \in {c.op : c \in git} \cup (IF worker = None THEN {} ELSE {worker.op}) :
        [op |-> o, outcome |-> "pending"] \in disk.records

\* Git removes a Worktree only after the Tabs the client reviewed are durably
\* closed and their Sessions ended.  (start_prepared)
RemovalIsClosed ==
    \A c \in git, v \in confirmed :
        c.op.kind = "remove" /\ v.conf = c.op.conf =>
            \A pair \in v.tabs : pair[1] \notin Open(disk) /\ live[pair[1]] = 0

\* The server ends no Session that did not exit, except one a client was shown
\* in a removal review and confirmed.  (RemovalPlan::apply, synchronize)
OnlyReviewedSessionsEnd ==
    [][\A t \in Tabs :
          live[t] # 0 /\ live'[t] # live[t] /\ t \notin exited /\ boot' = boot
             => \E v \in confirmed : <<t, live[t]>> \in v.tabs]_vars

\* An accepted creation or removal was carried out by Git.  (settle_worktree)
AcceptedIsDone ==
    \A r \in disk.records :
        r.outcome = "accepted" /\ r.op.kind \in {"create", "remove"}
            => r.op \in did

\* The capacity checked before Git creates a Worktree is still there when its
\* Tab is added.  (start_prepared, mutate)
CreationFits ==
    worker.kind \in {"writing", "running", "wrote"}
        /\ worker.op.kind = "create" /\ Open(mem) # {} => CanAdd(mem)

\* Git is started at most once for an operation, however often it is sent,
\* resolved, recovered or interrupted.  (mutate, finish_worktrees)
StartedOnce ==
    [][\A c \in git' : c.op \notin {e.op : e \in git} => c.op \notin ran]_vars

\* Every edit a client begins is answered in the end, the ones that waited for
\* a Worktree write too.  (answer_waiting, finish_worktrees)
EditsAnswered ==
    \A d \in Devices :
        op[d] # None ~> (op[d] = None \/ op[d].answer # "none")

\* As long as something wakes the server, a revoked device that is to be
\* forgotten is.  (forget, finish_worktrees)
RevokedForgotten ==
    \A d \in Revocable :
        []<><<Tick>>_vars =>
            (d \in forgetting ~> \A r \in mem.records : r.op.dev # d)

-----------------------------------------------------------------------------
(* Why the properties hold: the parts of an inductive invariant.           *)

\* The operations a thread or Git works for, or that are about to be written.
AtWork ==
    {c.op : c \in git} \cup (IF worker = None THEN {} ELSE {worker.op})
        \cup (IF host.at = "closed" THEN {host.op} ELSE {})

\* The client still has this Original Operation.
Current(o) == op[o.dev] # None /\ op[o.dev].op = o

\* In memory and on disk, an operation has one outcome.
OneOutcome ==
    \A s \in {mem, disk} : \A p, q \in s.records : p.op = q.op => p = q

\* While an outcome is Pending its client, unless revoked, was told nothing.
PendingIsAwaited ==
    \A s \in {mem, disk} : \A r \in Pending(s) :
        \/ r.op.dev \in revoked
        \/ Current(r.op) /\ op[r.op.dev].answer = "none"

\* What is Pending in memory is not settled on disk, and memory has an outcome
\* of every operation in use of which the disk has one.
MemoryIsAhead ==
    /\ \A r \in Pending(mem), q \in disk.records : q.op = r.op => q = r
    /\ \A q \in disk.records : Current(q.op) => Recorded(mem, q.op) # {}

\* Whatever is worked for is Pending, and a crash finds it Pending.
WorkIsPending ==
    \A s \in {mem, disk} : \A o \in AtWork : [op |-> o, outcome |-> "pending"] \in s.records

\* A thread never works beside a Git child other than the one it started.
OneWriter ==
    /\ worker # None => \A c, e \in git :
          c = e /\ worker.kind = "running" /\ c.boot = boot /\ c.op = worker.op
    /\ host.at = "closed" =>
          worker = None /\ git = {} /\ mem = disk /\ ~failed

\* An operation in use that Git was started for has an outcome; one that is
\* still checked was not started.
StartedIsRecorded ==
    /\ \A d \in Devices : op[d] # None /\ op[d].op \in ran =>
          \A s \in {mem, disk} : Recorded(s, op[d].op) # {}
    /\ worker.kind \in {"preflight", "prepared", "writing"} => worker.op \notin ran
    /\ host.at = "closed" => host.op \notin ran

\* What is accepted, and what Git or its thread reports done, was done.
AcceptedWasDone ==
    /\ \A s \in {mem, disk} : \A r \in s.records :
          r.outcome = "accepted" /\ r.op.kind \in {"create", "remove"} => r.op \in did
    /\ \A c \in git : c.done => c.op \in did
    /\ worker.kind = "wrote" => (worker.ok => worker.op \in did)

\* Sequences are given out in order.
Numbered ==
    /\ \A o \in ran : o.seq <= count["ops"]
    /\ \A s \in {mem, disk} : \A r \in s.records : r.op.seq <= count["ops"]
    /\ \A d \in Devices : op[d] # None => op[d].op.dev = d /\ op[d].op.seq <= count["ops"]

\* A revoked device has no operation, and only revoked ones are forgotten.
RevokedIsGone ==
    forgetting \subseteq revoked /\ \A d \in revoked : op[d] = None

\* The edits yet to be answered: in hand, about to be settled, and waiting.
InHand ==
    IF host.at \in {"free", "next"} \/ host.job.kind # "ask" THEN {} ELSE {host.job}
Todo == IF host.at = "free" THEN <<>> ELSE host.todo

Asks(job) ==
    /\ job.kind = "ask" /\ asked[job.dev] = "asked"
    /\ op[job.dev] # None /\ op[job.dev].answer = "none"

\* Each is of a client that still waits for it, and of another client.
JobsAreAsked ==
    /\ \A job \in InHand : Asks(job)
    /\ \A i \in DOMAIN Todo : Asks(Todo[i])
    /\ \A i \in DOMAIN waiting : Asks(waiting[i])
    /\ \A job \in InHand :
          /\ \A i \in DOMAIN Todo : Todo[i].dev # job.dev
          /\ \A i \in DOMAIN waiting : waiting[i].dev # job.dev
    /\ \A i, j \in DOMAIN Todo : Todo[i].dev = Todo[j].dev => i = j
    /\ \A i, j \in DOMAIN waiting : waiting[i].dev = waiting[j].dev => i = j
    /\ \A i \in DOMAIN Todo, j \in DOMAIN waiting : Todo[i].dev # waiting[j].dev
    /\ host.at = "next" => host.todo # <<>>

WorkInv ==
    /\ OneOutcome /\ PendingIsAwaited /\ MemoryIsAhead /\ WorkIsPending
    /\ OneWriter /\ StartedIsRecorded /\ AcceptedWasDone /\ Numbered
    /\ RevokedIsGone /\ JobsAreAsked

\* Every review there is: taken, shown, approved, confirmed or being checked.
Reviews ==
    (confirmed \cup {review[d] : d \in Devices} \cup {reads[d] : d \in Devices}
               \cup {approvals[d] : d \in Devices}
               \cup IF worker.kind = "preflight" THEN {worker.approval} ELSE {})
    \ {None}

\* A review is known by its number, and shows Tabs that were there.
ReviewsAgree ==
    /\ \A u, v \in Reviews : u.conf = v.conf => u = v
    /\ \A v \in Reviews :
          v.conf <= count["reviews"] /\ \A pair \in v.tabs : pair[1] <= born

\* A removal carries a confirmed review, and closes the Tabs it showed.
RemovalIsConfirmed ==
    /\ \A d \in Devices : op[d] # None /\ op[d].op.kind = "remove" =>
          \E v \in confirmed : v.conf = op[d].op.conf
    /\ \A o \in AtWork : o.kind = "remove" => \E v \in confirmed : v.conf = o.conf
    /\ worker.kind = "preflight" /\ worker.approval # None =>
          worker.op.kind = "remove" /\ worker.approval.conf = worker.op.conf
    /\ worker.kind = "prepared" /\ worker.ok =>
          IF worker.op.kind = "remove"
          THEN \E v \in confirmed : v.conf = worker.op.conf /\ v.tabs = worker.tabs
          ELSE worker.tabs = {}

\* Tab identities are used once.
TabsAreBorn ==
    /\ \A s \in {mem, disk} : \A t \in Open(s) : t <= born
    /\ \A t \in Tabs : live[t] # 0 => t <= born

\* The operations whose Git may be started without another check.
Cleared ==
    {c.op : c \in git}
        \cup (IF worker.kind \in {"writing", "running", "wrote"} THEN {worker.op} ELSE {})

\* The Tabs of a removal that is cleared, or about to be, are closed for good.
ReviewedIsClosed ==
    \A v \in Reviews : \A pair \in v.tabs :
        /\ \A o \in Cleared : o.kind = "remove" /\ o.conf = v.conf =>
              pair[1] \notin Open(mem) \cup Open(disk) /\ live[pair[1]] = 0
        /\ host.at = "closed" /\ host.op.kind = "remove" /\ host.op.conf = v.conf =>
              pair[1] \notin Open(mem) \cup Open(disk)

\* A creation keeps its room, in memory and after a failed write.
RoomIsKept ==
    \A s \in {mem, disk} :
        ( \/ worker.kind \in {"writing", "running", "wrote"} /\ worker.op.kind = "create"
          \/ host.at = "closed" /\ host.op.kind = "create" )
        => Cardinality(Open(s)) < MAX_TABS

\* A running shell whose Tab is gone, or would be after a failed write, was
\* shown in a confirmed review.
GoneWasShown ==
    \A t \in Tabs :
        live[t] # 0 /\ t \notin exited /\ t \notin Open(mem) \cap Open(disk) =>
            \E v \in confirmed : <<t, live[t]>> \in v.tabs

TabsInv ==
    /\ ReviewsAgree /\ RemovalIsConfirmed /\ TabsAreBorn /\ ReviewedIsClosed
    /\ RoomIsKept /\ GoneWasShown
=============================================================================
