------------------------------ MODULE EditHost ------------------------------
(***************************************************************************)
(* Shared edits over the organization journal: WorkspaceHost under its     *)
(* lock, the one sync worker, and the publication of Workspace Inventory   *)
(* to every connection.                                                    *)
(*                                                                         *)
(* An edit commits under the lock, stages the inventory that holds it, and *)
(* leaves its reply to the sync worker.  The worker runs its jobs one at a *)
(* time, in the order the lock gave them.  The write that retains a        *)
(* revision pushes the staged inventory before any waiting reply is sent.  *)
(* A deletion ends Terminal Sessions on a tick, once nothing waits to be   *)
(* written.                                                                *)
(*                                                                         *)
(* A connection is identified with its client: each client has at most one *)
(* at a time.  Each commit is an accepted edit, a deletion, a rejected     *)
(* edit or an acknowledgement of some client, or a change the server makes *)
(* itself.  Worktree edits that wait for Git are left out.                 *)
(***************************************************************************)
EXTENDS Journal, Sequences, FiniteSetsExt

CONSTANTS Clients,      \* the clients that connect and edit
          Worker,       \* the sync worker, a caller of Journal::sync
          HostThread,   \* the thread that holds the host's lock, another one
          Server,       \* who makes the changes no client asked for
          MaxStaged,    \* bound: inventories staged at a time
          MaxQueue      \* bound: jobs waiting for the sync worker

ASSUME EditHostAssumption ==
    /\ Callers = {Worker, HostThread}
    /\ Worker # HostThread
    /\ Server \notin Clients
    /\ MaxStaged \in Nat \ {0}
    /\ MaxQueue \in Nat \ {0}

VARIABLES
    log,            \* who made each commit, and of which kind
    host,           \* what the holder of the host's lock is doing
    subscribed,     \* Publication.subscribers
    staged,         \* inventories waiting for their revision, oldest first
    published,      \* the inventory pushed last
    view,           \* what each connection was pushed last
    callback,       \* whether the write's callback has run
    queue,          \* the sync worker's jobs, the running one first
    replied,        \* the edits each connection got the outcome of
    killed          \* the deletions whose processes were ended

publication == <<subscribed, staged, published, view>>
editVars == <<log, host, publication, callback, queue, replied, killed>>
vars == <<journalVars, editVars>>

-----------------------------------------------------------------------------
Kinds == {"accepted", "deletion", "rejected", "acknowledgement"}

\* The inventory an organization shows: accepted edits change it, the record
\* of a rejected edit and an acknowledgement do not.
Inventory(o) == {k \in o : log[k].kind \in {"accepted", "deletion"}}

\* State::next_sequence: how many edits of the client the organization records.
NextSequence(client, o) ==
    Cardinality({k \in o : log[k].by = client
                           /\ log[k].kind # "acknowledgement"}) + 1

Deletions(o) == {k \in o : log[k].kind = "deletion"}

NoView == [inventory |-> {}, next |-> 0]

Free == [at |-> "free"]

\* A job of the sync worker: sync a revision, then reply with the outcome of a
\* commit to a connection, or to nobody.
Job == [rev: Revision, commit: 0..MaxCommits, to: Clients \cup {Server}]

Staged == [rev: Revision, devices: SUBSET Clients]

HostState ==
    {Free} \cup [at: {"publish"}]
           \cup [at: {"editing"}, client: Clients, commit: 0..MaxCommits]
           \cup [at: {"replying"}, job: Job]
           \cup [at: {"syncing"}]

TypeOK ==
    /\ JournalTypeOK
    /\ log \in Seq([by: Clients \cup {Server}, kind: Kinds])
    /\ Len(log) = commits
    /\ host \in HostState
    /\ subscribed \in SUBSET Clients
    /\ staged \in Seq(Staged)
    /\ published \in Organization
    /\ view \in [Clients -> [inventory: Organization, next: Nat]]
    /\ callback \in BOOLEAN
    /\ queue \in Seq(Job)
    /\ replied \in [Clients -> Organization]
    /\ killed \in Organization

Init ==
    /\ JournalInit
    /\ log = <<>>
    /\ host = Free
    /\ subscribed = {}
    /\ staged = <<>>
    /\ published = {}
    /\ view = [c \in Clients |-> NoView]
    /\ callback = FALSE
    /\ queue = <<>>
    /\ replied = [c \in Clients |-> {}]
    /\ killed = {}

-----------------------------------------------------------------------------
(* Publication.                                                            *)

\* State::push: to each subscriber the staged inventory knows, unless it has
\* this inventory and sequence already.
Push(s, subscribers) ==
    /\ view' = [c \in Clients |->
          LET next == NextSequence(c, s.rev.org) IN
          IF /\ c \in subscribers \cap s.devices
             /\ Inventory(s.rev.org) # published \/ view[c].next # next
          THEN [inventory |-> Inventory(s.rev.org), next |-> next]
          ELSE view[c]]
    /\ published' = Inventory(s.rev.org)

\* Mutant: the inventory is pushed before its revision is retained.
StageAtOnce ==
    LET s == [rev |-> Latest, devices |-> subscribed] IN
    IF subscribed = {}
    THEN UNCHANGED publication
    ELSE staged' = <<>> /\ Push(s, subscribed) /\ UNCHANGED subscribed

\* Mutant: an inventory that is retained already waits for another write.
StageOnly ==
    IF subscribed = {} \/ Len(staged) = MaxStaged
    THEN UNCHANGED publication
    ELSE /\ staged' = Append(staged, [rev |-> Latest, devices |-> subscribed])
         /\ UNCHANGED <<subscribed, published, view>>

\* Publication::stage, called by WorkspaceHost::publish with the newest
\* revision.
Stage ==
    LET s == [rev |-> Latest, devices |-> subscribed] IN
    IF subscribed = {}
    THEN UNCHANGED publication
    ELSE /\ IF Retained(Latest)
            THEN staged' = <<>> /\ Push(s, subscribed)
            ELSE staged' = Append(staged, s) /\ UNCHANGED <<published, view>>
         /\ UNCHANGED subscribed

\* Mutant: a number of an older epoch counts as covered.
CoveredInAnyEpoch(s) == s.rev.number <= durable

\* Revision::covers and Revision::lost_by, for a write of this epoch.
Covered(s) == s.rev.epoch = epoch /\ s.rev.number <= durable
Lost(s) == s.rev.epoch < epoch

\* Publication::release, the callback of the write that made durable.  The
\* staged inventories in front that it covers or that a recovery lost leave
\* the queue, and the newest covered one is pushed.
Release(c) ==
    LET kept    == {i \in DOMAIN staged : ~Covered(staged[i]) /\ ~Lost(staged[i])}
        popped  == IF kept = {} THEN Len(staged) ELSE Min(kept) - 1
        covered == {i \in 1..popped : Covered(staged[i])}
    IN /\ pc[c] = "report"
       /\ ~callback
       /\ callback' = TRUE
       /\ staged' = SubSeq(staged, popped + 1, Len(staged))
       /\ IF covered = {} THEN UNCHANGED <<published, view>>
          ELSE Push(staged[Max(covered)], subscribed)
       /\ UNCHANGED <<journalVars, log, host, subscribed, queue, replied, killed>>

-----------------------------------------------------------------------------
(* Requests, under the host's lock.                                        *)

\* The lock is taken for a request or a tick that ends with a publication.
TakeLock ==
    /\ host = Free
    /\ Len(staged) < MaxStaged \/ Retained(Latest)
    /\ Len(queue) < MaxQueue

\* WorkspaceHost::commit, recording who made the commit and of which kind.
CommitAs(by, kind) ==
    /\ Commit
    /\ log' = Append(log, [by |-> by, kind |-> kind])

Enqueue(j) == queue' = Append(queue, j)

\* WorkspaceHost::connected: the connection subscribes and is published to.
Subscribe(client) ==
    /\ TakeLock
    /\ client \notin subscribed
    /\ subscribed' = subscribed \cup {client}
    /\ view' = [view EXCEPT ![client] = NoView]
    /\ host' = [at |-> "publish"]
    /\ UNCHANGED <<journalVars, log, staged, published, callback, queue, replied,
                   killed>>

\* WorkspaceHost::disconnected: replies still owed to the connection go to a
\* closed outbox.
Unsubscribe(client) ==
    /\ host = Free
    /\ client \in subscribed
    /\ subscribed' = subscribed \ {client}
    /\ view' = [view EXCEPT ![client] = NoView]
    /\ replied' = [replied EXCEPT ![client] = {}]
    /\ queue' = [i \in DOMAIN queue |->
                    IF queue[i].to = client
                    THEN [queue[i] EXCEPT !.to = Server] ELSE queue[i]]
    /\ UNCHANGED <<journalVars, log, host, staged, published, callback, killed>>

\* WorkspaceHost::edit begins: ready() has found the journal certain.  A write
\* may still fail before the edit commits.  commit 0 is a new edit, another one
\* is dispatched or resolved again.
EditBegins(client, commit) ==
    /\ TakeLock
    /\ ~failed
    /\ client \in subscribed
    /\ commit # 0 => /\ commit \in org \ replied[client]
                     /\ log[commit].by = client
                     /\ log[commit].kind # "acknowledgement"
    /\ host' = [at |-> "editing", client |-> client, commit |-> commit]
    /\ UNCHANGED <<journalVars, log, publication, callback, queue, replied, killed>>

\* WorkspaceHost::mutate: a new edit is applied and committed.
EditCommits(kind) ==
    /\ host.at = "editing"
    /\ host.commit = 0
    /\ CommitAs(host.client, kind)
    /\ host' = [at  |-> "replying",
                job |-> [rev |-> [epoch |-> epoch, number |-> submitted + 1,
                                  org |-> org'],
                         commit |-> commits + 1, to |-> host.client]]
    /\ UNCHANGED <<publication, callback, queue, replied, killed>>

\* WorkspaceHost::answer: a recorded outcome is retained with the newest
\* revision.
EditReplays ==
    /\ host.at = "editing"
    /\ host.commit # 0
    /\ host' = [at  |-> "replying",
                job |-> [rev |-> Latest, commit |-> host.commit,
                         to |-> host.client]]
    /\ UNCHANGED <<journalVars, log, publication, callback, queue, replied, killed>>

\* State::apply refuses a new edit (a stale sequence, no capacity): nothing
\* commits, the refusal is replied at once and the inventory published.
EditRefused ==
    /\ host.at = "editing"
    /\ host.commit = 0
    /\ host' = [at |-> "publish"]
    /\ UNCHANGED <<journalVars, log, publication, callback, queue, replied, killed>>

\* WorkspaceHost::edit ends: the inventory is staged, then the reply is left to
\* the sync worker while the lock is still held.
EditEnds ==
    /\ host.at = "replying"
    /\ Stage
    /\ Enqueue(host.job)
    /\ host' = Free
    /\ UNCHANGED <<journalVars, log, callback, replied, killed>>

\* WorkspaceHost::acknowledged: the outcome is retired and nobody waits.
Acknowledge(client) ==
    /\ TakeLock
    /\ client \in subscribed
    /\ replied[client] # {}
    /\ CommitAs(client, "acknowledgement")
    /\ Enqueue([rev |-> [epoch |-> epoch, number |-> submitted + 1, org |-> org'],
                commit |-> 0, to |-> Server])
    /\ UNCHANGED <<host, publication, callback, replied, killed>>

\* commit_retained: a Worktree write commits and waits under the lock.
CommitRetained ==
    /\ TakeLock
    /\ ~failed
    /\ pc[HostThread] = "idle"
    /\ CommitAs(Server, "accepted")
    /\ host' = [at |-> "syncing"]
    /\ UNCHANGED <<publication, callback, queue, replied, killed>>

HostSyncs ==
    /\ host.at = "syncing"
    /\ SyncCall(HostThread, Latest)
    /\ host' = [at |-> "publish"]
    /\ UNCHANGED <<log, publication, callback, queue, replied, killed>>

\* WorkspaceHost::synchronize, on a tick: durable deletions end their
\* processes, and nothing else changed.
TickEnds ==
    /\ TakeLock
    /\ ~failed
    /\ killed' = IF Settled THEN killed \cup Deletions(org) ELSE killed
    /\ host' = [at |-> "publish"]
    /\ UNCHANGED <<journalVars, log, publication, callback, queue, replied>>

\* The same tick when a shell exited: its Pane leaves the state.
TickCommits ==
    /\ TakeLock
    /\ ~failed
    /\ killed' = IF Settled THEN killed \cup Deletions(org) ELSE killed
    /\ CommitAs(Server, "accepted")
    /\ Enqueue([rev |-> [epoch |-> epoch, number |-> submitted + 1, org |-> org'],
                commit |-> 0, to |-> Server])
    /\ host' = [at |-> "publish"]
    /\ UNCHANGED <<publication, callback, replied>>

\* WorkspaceHost::publish at the end of a tick or a request.
Publish ==
    /\ host.at = "publish"
    /\ pc[HostThread] = "idle"
    /\ Stage
    /\ host' = Free
    /\ UNCHANGED <<journalVars, log, callback, queue, replied, killed>>

\* WorkspaceHost::recover, at the start of a request or a tick.
HostRecovers ==
    /\ host = Free
    /\ Recover
    /\ UNCHANGED editVars

\* The request is refused, or the tick does nothing: either publishes.
HostRecoveryFails ==
    /\ TakeLock
    /\ RecoverFails
    /\ host' = [at |-> "publish"]
    /\ UNCHANGED <<log, publication, callback, queue, replied, killed>>

-----------------------------------------------------------------------------
(* The sync worker.                                                        *)

WorkerBegins ==
    /\ queue # <<>>
    /\ SyncCall(Worker, Head(queue).rev)
    /\ UNCHANGED editVars

\* deliver: the outcome is the reply once its revision is retained.
WorkerReplies ==
    /\ SyncOk(Worker)
    /\ queue' = Tail(queue)
    /\ replied' = IF Head(queue).to = Server THEN replied
                  ELSE [replied EXCEPT ![Head(queue).to] =
                                            @ \cup {Head(queue).commit}]
    /\ UNCHANGED <<log, host, publication, callback, killed>>

\* The reply is a refusal, StorageUnavailable.
WorkerRefuses ==
    /\ SyncUncertain(Worker)
    /\ queue' = Tail(queue)
    /\ UNCHANGED <<log, host, publication, callback, replied, killed>>

HostSyncReturns ==
    /\ SyncOk(HostThread) \/ SyncUncertain(HostThread)
    /\ UNCHANGED editVars

SyncRuns(c) ==
    /\ SyncWait(c) \/ SyncTake(c) \/ WriteRename(c) \/ WriteOk(c) \/ WriteFails(c)
    /\ UNCHANGED editVars

WriteReported(c) ==
    /\ callback
    /\ Reported(c)
    /\ callback' = FALSE
    /\ UNCHANGED <<log, host, publication, queue, replied, killed>>

-----------------------------------------------------------------------------
\* The server crashes: connections, jobs and staged inventories are gone.
ServerRestarts ==
    /\ Restart
    /\ host' = Free
    /\ subscribed' = {}
    /\ staged' = <<>>
    /\ published' = {}
    /\ view' = [c \in Clients |-> NoView]
    /\ callback' = FALSE
    /\ queue' = <<>>
    /\ replied' = [c \in Clients |-> {}]
    /\ UNCHANGED <<log, killed>>

HostStep ==
    \/ \E client \in Clients :
          \/ Subscribe(client)
          \/ Unsubscribe(client)
          \/ \E commit \in org \cup {0} : EditBegins(client, commit)
          \/ Acknowledge(client)
    \/ \E kind \in Kinds \ {"acknowledgement"} : EditCommits(kind)
    \/ EditReplays
    \/ EditRefused
    \/ EditEnds
    \/ CommitRetained
    \/ HostSyncs
    \/ TickEnds
    \/ TickCommits
    \/ Publish
    \/ HostRecovers
    \/ HostRecoveryFails

ThreadStep(c) ==
    \/ SyncRuns(c)
    \/ Release(c)
    \/ WriteReported(c)

Next ==
    \/ HostStep
    \/ WorkerBegins
    \/ WorkerReplies
    \/ WorkerRefuses
    \/ HostSyncReturns
    \/ \E c \in Callers : ThreadStep(c)
    \/ ServerRestarts

Spec == Init /\ [][Next]_vars

\* The worker and the lock's holder keep running, ticks keep coming while the
\* journal is not settled, and a read back of the record eventually succeeds.
Fairness ==
    /\ WF_vars(WorkerBegins)
    /\ WF_vars(WorkerReplies)
    /\ WF_vars(WorkerRefuses)
    /\ WF_vars(HostSyncReturns)
    /\ \A c \in Callers : WF_vars(ThreadStep(c))
    /\ WF_vars(EditReplays \/ EditRefused
               \/ \E kind \in Kinds \ {"acknowledgement"} : EditCommits(kind))
    /\ WF_vars(EditEnds)
    /\ WF_vars(HostSyncs)
    /\ WF_vars(Publish)
    /\ SF_vars(TickEnds)
    /\ SF_vars(HostRecovers)

FairSpec == Spec /\ Fairness

-----------------------------------------------------------------------------
\* "no client acts on organization SpaceTerm Core could still lose" (ADR 0050):
\* what a connection was pushed survives any crash.
PushedIsStable ==
    \A c \in Clients : view[c].inventory \subseteq stable

\* The reply to an edit follows the inventory that holds its outcome: when the
\* client reads the reply it has already been shown the edit and the sequence
\* after it.
ReplyFollowsPush ==
    \A c \in Clients : \A k \in replied[c] :
        /\ {k} \cap Inventory({k}) \subseteq view[c].inventory
        /\ view[c].next > NextSequence(c, {i \in stable : i < k})

\* A deletion ends Terminal Sessions only once it is on disk.
EndedOnlyWhenStable == killed \subseteq stable

\* A connection is never pushed an older inventory after a newer one, although
\* the lock's holder and the writer push from different threads.
PushesMoveForward ==
    [][\A c \in Clients :
          view[c] # NoView /\ view'[c] # NoView
            => /\ view[c].inventory \subseteq view'[c].inventory
               /\ view[c].next <= view'[c].next]_vars

\* Every change reaches every connection that stays, or is lost with the write
\* that failed.
ChangesAreShown ==
    \A c \in Clients : \A k \in 1..MaxCommits :
        c \in subscribed /\ k \in org /\ k \in Inventory(org)
            ~> \/ c \notin subscribed
               \/ k \notin org
               \/ k \in view[c].inventory

\* The sync worker always gets to its next job, whatever write it waits for: the
\* queue never stays as it is.  Jobs run in order, so every edit is answered.
JobsAreRun == \A n \in 1..MaxQueue : Len(queue) = n ~> Len(queue) # n
-----------------------------------------------------------------------------
(* The inductive invariant, in named parts.                                *)

\* o holds everything of p that came before what it holds.
Segment(o, p) == o \subseteq p /\ \A k \in o : \A i \in p : i < k => i \in o

OwnEdit(c, k) == log[k].by = c /\ log[k].kind # "acknowledgement"

\* The organizations handed out in this epoch are initial parts of the state,
\* and a later revision holds all that an earlier one holds.
RevisionsNest ==
    /\ Latest \in issued
    /\ \A r \in issued : r.org \subseteq 1..commits
    /\ \A r \in issued : r.epoch = epoch => Segment(r.org, org)
    /\ \A r, q \in issued :
          r.epoch = epoch /\ q.epoch = epoch /\ r.number <= q.number
            => r.org \subseteq q.org

\* The staged inventories and the jobs are of revisions that were handed out, and
\* the inventories wait in the order of their revisions.
StagedInOrder ==
    /\ \A i \in DOMAIN staged : staged[i].rev \in issued
    /\ \A i \in DOMAIN queue : queue[i].rev \in issued
    /\ \A i, j \in DOMAIN staged : i < j =>
          \/ staged[i].rev.epoch < staged[j].rev.epoch
          \/ /\ staged[i].rev.epoch = staged[j].rev.epoch
             /\ staged[i].rev.number <= staged[j].rev.number

\* Once a write's callback has run, and until the next write, nothing staged is
\* covered by what is durable.
ReleasedInTime ==
    /\ callback => reporting
    /\ callback \/ ~reporting => \A i \in DOMAIN staged : ~Covered(staged[i])

\* What the holder of the host's lock relies on stays true while it holds it.
HostHoldsLock ==
    /\ host.at = "editing" =>
          /\ host.client \in subscribed
          /\ host.commit # 0 => /\ host.commit \in org
                                /\ OwnEdit(host.client, host.commit)
    /\ host.at = "replying" =>
          /\ host.job.rev = Latest
          /\ host.job.to \in subscribed
          /\ host.job.commit \in org
          /\ OwnEdit(host.job.to, host.job.commit)

WorkerRunsFirst ==
    pc[Worker] # "idle" => queue # <<>> /\ rev[Worker] = Head(queue).rev

\* What a connection was pushed last is organization o, or it was pushed nothing.
ShownAs(c, o) ==
    \/ view[c] = NoView /\ o = {}
    \/ view[c] = [inventory |-> Inventory(o), next |-> NextSequence(c, o)]

\* The inventory that holds a job's outcome is still staged, and so far every
\* later one knows the job's connection.
Waits(j) ==
    \E i \in DOMAIN staged :
        /\ staged[i].rev = j.rev
        /\ \A n \in i..Len(staged) : j.to \in staged[n].devices

\* A job's outcome is shown, or will be before its revision is confirmed, or its
\* revision is lost.
Delivered(j, o) ==
    \/ j.commit \in o
    \/ j.rev.epoch = epoch /\ Waits(j)
    \/ j.rev.epoch # epoch /\ ~Retained(j.rev)

\* Connection c was shown organization o: an initial part of the state, no newer
\* than anything staged for it, with every edit it was replied to.
Shown(c, o) ==
    /\ ShownAs(c, o)
    /\ Segment(o, org)
    /\ c \notin subscribed => view[c] = NoView /\ replied[c] = {}
    /\ replied[c] \subseteq o
    /\ \A k \in replied[c] : OwnEdit(c, k)
    /\ \A i \in DOMAIN staged :
          staged[i].rev.epoch = epoch => o \subseteq staged[i].rev.org
    /\ \A i \in DOMAIN queue : queue[i].to = c =>
          /\ c \in subscribed
          /\ queue[i].commit \in queue[i].rev.org
          /\ OwnEdit(c, queue[i].commit)
          /\ Delivered(queue[i], o)

EveryoneIsShown == \A c \in Clients : \E o \in SUBSET stable : Shown(c, o)

EditInv ==
    /\ JournalInv
    /\ RevisionsNest
    /\ StagedInOrder
    /\ ReleasedInTime
    /\ HostHoldsLock
    /\ WorkerRunsFirst
    /\ EveryoneIsShown
    /\ EndedOnlyWhenStable
=============================================================================
