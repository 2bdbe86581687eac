------------------------------- MODULE Journal -------------------------------
(***************************************************************************)
(* The organization journal of SpaceTerm Core and the record it retains.   *)
(*                                                                         *)
(* WorkspaceHost commits under its lock: it changes the state in memory    *)
(* and orders the whole new state in the journal.  Threads that need a     *)
(* revision on disk call Journal::sync, off the host's lock.  One of them  *)
(* at a time takes the newest pending envelope and writes it; the others   *)
(* wait on a condition variable.  A failed write leaves the record         *)
(* uncertain, and nothing is written until the host reads it back.         *)
(*                                                                         *)
(* An organization is abstracted to the set of commits it contains: every  *)
(* envelope is a whole state, so it carries all the commits before it.     *)
(* The retained record has two faces: what a read finds now (visible) and  *)
(* what a crash is sure to leave (stable).  They differ between the rename *)
(* that publishes a record and the sync of its directory.                  *)
(***************************************************************************)
EXTENDS Naturals, FiniteSets

CONSTANTS
    Callers,        \* threads that call Journal::sync
    RECOVERIES,     \* how many ended epochs keep their verdict (16 in the code)
    MaxCommits,     \* bound: commits in a behaviour
    MaxEpoch        \* bound: failed writes in one run of the server

ASSUME JournalAssumption ==
    /\ RECOVERIES \in Nat \ {0}
    /\ MaxCommits \in Nat
    /\ MaxEpoch \in Nat

VARIABLES
    org,            \* the host's state: the commits it contains
    commits,        \* how many commits there have been
    epoch, submitted, pending, writing, durable, reporting, failed, ended,
    visible,        \* the record a read finds
    stable,         \* the record a crash is sure to leave
    issued,         \* the revisions handed out in this run of the server
    pc,             \* where each caller of sync is
    rev,            \* the revision each caller asked for
    job,            \* the envelope each writer took
    acked           \* the commits some caller was told are retained

progress == <<epoch, submitted, pending, writing, durable, reporting, failed,
              ended>>
record   == <<visible, stable>>
callers  == <<pc, rev, job>>
journalVars == <<org, commits, progress, record, issued, callers, acked>>

-----------------------------------------------------------------------------
Organization == SUBSET (1..MaxCommits)

\* A revision, with the organization it stands for.
Revision == [epoch: Nat, number: Nat, org: Organization]

\* A numbered envelope.  Numbers start at 1: number 0 is the code's None.
Envelope == [number: Nat, org: Organization]

Nothing == [number |-> 0, org |-> {}]

PC == {"idle", "sync", "waiting", "write", "renamed", "report"}

JournalTypeOK ==
    /\ org \in Organization
    /\ commits \in 0..MaxCommits
    /\ epoch \in Nat
    /\ submitted \in Nat
    /\ pending \in Envelope
    /\ writing \in BOOLEAN
    /\ durable \in Nat
    /\ reporting \in BOOLEAN
    /\ failed \in BOOLEAN
    /\ DOMAIN ended \subseteq Nat
    /\ \A e \in DOMAIN ended : ended[e] \in Nat
    /\ visible \in Organization
    /\ stable \in Organization
    /\ issued \in SUBSET Revision
    /\ pc \in [Callers -> PC]
    /\ rev \in [Callers -> Revision]
    /\ job \in [Callers -> Envelope]
    /\ acked \in Organization

\* The revision that latest() names: the newest one, with the host's state.
Latest == [epoch |-> epoch, number |-> submitted, org |-> org]

\* A server starts on the record it read, with a journal without progress.
NoRevision == [epoch |-> 0, number |-> 0, org |-> {}]

JournalInit ==
    /\ org = {}
    /\ commits = 0
    /\ epoch = 0
    /\ submitted = 0
    /\ pending = Nothing
    /\ writing = FALSE
    /\ durable = 0
    /\ reporting = FALSE
    /\ failed = FALSE
    /\ ended = [e \in {} |-> 0]
    /\ visible = {}
    /\ stable = {}
    /\ issued = {Latest}
    /\ pc = [c \in Callers |-> "idle"]
    /\ rev = [c \in Callers |-> NoRevision]
    /\ job = [c \in Callers |-> Nothing]
    /\ acked = {}

-----------------------------------------------------------------------------
(* The host's side: commit, recover.                                       *)

\* Journal::submit, called by WorkspaceHost::commit with the new state.
Submit(next) ==
    /\ submitted' = submitted + 1
    /\ pending' = [number |-> submitted + 1, org |-> next]
    /\ issued' = issued \cup
                    {[epoch |-> epoch, number |-> submitted + 1, org |-> next]}
    /\ UNCHANGED <<epoch, writing, durable, reporting, failed, ended>>

\* WorkspaceHost::commit: the next state is ordered, then becomes the state.
Commit ==
    /\ commits < MaxCommits
    /\ commits' = commits + 1
    /\ org' = org \cup {commits + 1}
    /\ Submit(org')
    /\ UNCHANGED <<record, callers, acked>>

\* Journal::retained: whether a revision is on disk already.
Retained(r) ==
    IF r.epoch = epoch THEN r.number <= durable
    ELSE r.epoch \in DOMAIN ended /\ r.number <= ended[r.epoch]

\* Mutant: a state that waits to be written is settled already.
SettledWhilePending == ~failed /\ ~writing /\ ~reporting

\* Journal::settled: nothing waits to be written and the last write succeeded.
Settled == ~failed /\ ~writing /\ ~reporting /\ pending = Nothing

\* Mutant: the ended epoch is said to retain one revision too few.
EndEpochOffByOne ==
    [e \in {k \in DOMAIN ended \cup {epoch} : k + RECOVERIES > epoch} |->
        IF e = epoch THEN durable - 1 ELSE ended[e]]

\* Mutant: the ended epoch is said to retain all that was submitted.
EndEpochAsSubmitted ==
    [e \in {k \in DOMAIN ended \cup {epoch} : k + RECOVERIES > epoch} |->
        IF e = epoch THEN submitted ELSE ended[e]]

\* Mutant: the record is read back without being synced.
RecoverUnsynced ==
    /\ failed
    /\ org' = visible
    /\ epoch' = epoch + 1
    /\ submitted' = 0
    /\ durable' = 0
    /\ pending' = Nothing
    /\ failed' = FALSE
    /\ ended' = [e \in {epoch} |-> durable]
    /\ issued' = issued \cup
                    {[epoch |-> epoch + 1, number |-> 0, org |-> visible]}
    /\ UNCHANGED <<commits, writing, reporting, record, callers, acked>>

\* The verdicts kept when the current epoch ends.  Every epoch ends once, so
\* dropping the first ones beyond RECOVERIES keeps the last RECOVERIES epochs.
EndEpoch ==
    [e \in {k \in DOMAIN ended \cup {epoch} : k + RECOVERIES > epoch} |->
        IF e = epoch THEN durable ELSE ended[e]]

\* Journal::recover and WorkspaceHost::restore_organization.  The read syncs
\* the record and its directory before it is believed.
Recover ==
    /\ failed
    /\ stable' = visible
    /\ org' = visible
    /\ ended' = EndEpoch
    /\ epoch' = epoch + 1
    /\ submitted' = 0
    /\ durable' = 0
    /\ pending' = Nothing
    /\ failed' = FALSE
    /\ issued' = issued \cup
                    {[epoch |-> epoch + 1, number |-> 0, org |-> visible]}
    /\ UNCHANGED <<commits, writing, reporting, visible, callers, acked>>

\* The read back fails, with or without having synced the record.
RecoverFails ==
    /\ failed
    /\ stable' = visible
    /\ UNCHANGED <<org, commits, progress, visible, issued, callers, acked>>

-----------------------------------------------------------------------------
(* Journal::sync.  Each critical section of its loop is a step.            *)

\* A thread asks for a revision it was handed.
SyncCall(c, r) ==
    /\ pc[c] = "idle"
    /\ pc' = [pc EXCEPT ![c] = "sync"]
    /\ rev' = [rev EXCEPT ![c] = r]
    /\ UNCHANGED <<org, commits, progress, record, issued, job, acked>>

\* Mutant: an ended epoch retains every revision of its own.
ReadsOkIfEnded(r) ==
    IF r.epoch # epoch THEN r.epoch \in DOMAIN ended
    ELSE r.number <= durable /\ ~reporting

\* Mutant: a durable revision is answered before its write is reported.
ReadsOkUnreported(r) ==
    IF r.epoch # epoch
    THEN r.epoch \in DOMAIN ended /\ r.number <= ended[r.epoch]
    ELSE r.number <= durable

\* The loop's verdicts, in the order the code tries them.
ReadsOk(r) ==
    IF r.epoch # epoch
    THEN r.epoch \in DOMAIN ended /\ r.number <= ended[r.epoch]
    ELSE r.number <= durable /\ ~reporting

ReadsUncertain(r) ==
    /\ ~ReadsOk(r)
    /\ r.epoch = epoch /\ ~failed => ~writing /\ ~reporting /\ pending = Nothing

MustWait(r) ==
    /\ ~ReadsOk(r)
    /\ r.epoch = epoch
    /\ ~failed
    /\ writing \/ reporting

SyncOk(c) ==
    /\ pc[c] = "sync"
    /\ ReadsOk(rev[c])
    /\ pc' = [pc EXCEPT ![c] = "idle"]
    /\ acked' = acked \cup rev[c].org
    /\ UNCHANGED <<org, commits, progress, record, issued, rev, job>>

SyncUncertain(c) ==
    /\ pc[c] = "sync"
    /\ ReadsUncertain(rev[c])
    /\ pc' = [pc EXCEPT ![c] = "idle"]
    /\ UNCHANGED <<org, commits, progress, record, issued, rev, job, acked>>

SyncWait(c) ==
    /\ pc[c] = "sync"
    /\ MustWait(rev[c])
    /\ pc' = [pc EXCEPT ![c] = "waiting"]
    /\ UNCHANGED <<org, commits, progress, record, issued, rev, job, acked>>

\* Mutant: a second writer does not wait for the first.
SyncTakeBeside(c) ==
    /\ pc[c] = "sync"
    /\ ~ReadsOk(rev[c])
    /\ rev[c].epoch = epoch
    /\ ~failed /\ ~reporting
    /\ pending # Nothing
    /\ job' = [job EXCEPT ![c] = pending]
    /\ pending' = Nothing
    /\ writing' = TRUE
    /\ pc' = [pc EXCEPT ![c] = "write"]
    /\ UNCHANGED <<org, commits, epoch, submitted, durable, reporting, failed,
                   ended, record, issued, rev, acked>>

\* The caller becomes the writer of the newest pending envelope.
SyncTake(c) ==
    /\ pc[c] = "sync"
    /\ ~ReadsOk(rev[c])
    /\ rev[c].epoch = epoch
    /\ ~failed /\ ~writing /\ ~reporting
    /\ pending # Nothing
    /\ job' = [job EXCEPT ![c] = pending]
    /\ pending' = Nothing
    /\ writing' = TRUE
    /\ pc' = [pc EXCEPT ![c] = "write"]
    /\ UNCHANGED <<org, commits, epoch, submitted, durable, reporting, failed,
                   ended, record, issued, rev, acked>>

\* Directory::write_bytes: the synced temporary file replaces the record.
WriteRename(c) ==
    /\ pc[c] = "write"
    /\ pc' = [pc EXCEPT ![c] = "renamed"]
    /\ visible' = job[c].org
    /\ UNCHANGED <<org, commits, progress, stable, issued, rev, job, acked>>

\* The directory is synced: the write is reported before anybody is told.
WriteOk(c) ==
    /\ pc[c] = "renamed"
    /\ stable' = visible
    /\ writing' = FALSE
    /\ durable' = job[c].number
    /\ reporting' = TRUE
    /\ pc' = [pc EXCEPT ![c] = "report"]
    /\ UNCHANGED <<org, commits, epoch, submitted, pending, failed, ended,
                   visible, issued, rev, job, acked>>

\* Mutant: the waiters are not notified.
NotifyNobody(c) == pc' = [pc EXCEPT ![c] = "sync"]

\* notify_all: every waiter looks at the loop's conditions again, and so does
\* the writer.
NotifyAll(c) ==
    pc' = [d \in Callers |->
            IF d = c \/ pc[d] = "waiting" THEN "sync" ELSE pc[d]]

\* The write fails before the rename, or after it when the directory's sync
\* fails.
WriteFails(c) ==
    /\ pc[c] \in {"write", "renamed"}
    /\ epoch < MaxEpoch
    /\ writing' = FALSE
    /\ failed' = TRUE
    /\ NotifyAll(c)
    /\ UNCHANGED <<org, commits, epoch, submitted, pending, durable, reporting,
                   ended, record, issued, rev, job, acked>>

\* The written callback has returned.
Reported(c) ==
    /\ pc[c] = "report"
    /\ reporting' = FALSE
    /\ NotifyAll(c)
    /\ UNCHANGED <<org, commits, epoch, submitted, pending, writing, durable,
                   failed, ended, record, issued, rev, job, acked>>

SyncStep(c) ==
    \/ SyncOk(c)
    \/ SyncUncertain(c)
    \/ SyncWait(c)
    \/ SyncTake(c)
    \/ WriteRename(c)
    \/ WriteOk(c)
    \/ WriteFails(c)
    \/ Reported(c)

-----------------------------------------------------------------------------
\* The server crashes and starts again on what the disk kept.
Restart ==
    /\ visible' \in {visible, stable}
    /\ stable' = visible'
    /\ org' = visible'
    /\ epoch' = 0
    /\ submitted' = 0
    /\ pending' = Nothing
    /\ writing' = FALSE
    /\ durable' = 0
    /\ reporting' = FALSE
    /\ failed' = FALSE
    /\ ended' = [e \in {} |-> 0]
    /\ issued' = {[epoch |-> 0, number |-> 0, org |-> visible']}
    /\ pc' = [c \in Callers |-> "idle"]
    /\ rev' = [c \in Callers |-> NoRevision]
    /\ job' = [c \in Callers |-> Nothing]
    /\ UNCHANGED <<commits, acked>>

JournalNext ==
    \/ Commit
    \/ Recover
    \/ RecoverFails
    \/ \E c \in Callers, r \in issued : SyncCall(c, r)
    \/ \E c \in Callers : SyncStep(c)
    \/ Restart

JournalSpec == JournalInit /\ [][JournalNext]_journalVars

\* Threads inside sync keep running, and the file system answers.
JournalFairness == \A c \in Callers : WF_journalVars(SyncStep(c))

JournalFairSpec == JournalSpec /\ JournalFairness

-----------------------------------------------------------------------------
\* What sync said is retained stays retained: no failed write, recovery or
\* crash ever takes it back (Journal::sync and Journal::recover).
AckedIsStable == acked \subseteq stable

\* What the journal would call retained without waiting is on disk too, in
\* this epoch and in every ended one (Journal::retained).
RetainedIsStable == \A r \in issued : Retained(r) => r.org \subseteq stable

\* Journal::sync never finds itself without an envelope to write: a revision
\* that is neither durable nor lost to a failure is pending or being written.
\* So Uncertain always means that a write failed.
UncertainOnlyAfterFailure ==
    \A c \in Callers :
        pc[c] = "sync" /\ rev[c].epoch = epoch /\ ReadsUncertain(rev[c])
            => failed

\* The retained record never loses a commit it is sure of: revisions become
\* durable in submission order, whichever thread writes them.
RecordOnlyGrows == [][stable \subseteq stable']_journalVars

-----------------------------------------------------------------------------
(* The inductive invariant, in named parts.                                *)

Writing(c) == pc[c] \in {"write", "renamed"}

\* At most one thread is between taking an envelope and reporting it, and the
\* flags say which phase it is in.  A failure ends every phase.
OneWriter ==
    /\ \A c, d \in Callers :
          /\ Writing(c) \/ pc[c] = "report"
          /\ Writing(d) \/ pc[d] = "report"
          => c = d
    /\ \A c \in Callers : Writing(c) => writing
    /\ \A c \in Callers : pc[c] = "report" => reporting
    /\ writing => ~reporting
    /\ failed => ~writing /\ ~reporting

\* The envelope that waits is the host's state, and a revision that is not
\* durable yet is waiting or being written.
PendingIsNewest ==
    /\ durable <= submitted
    /\ pending # Nothing => /\ pending.number = submitted
                            /\ pending.org = org
                            /\ durable < submitted
    /\ ~failed /\ ~writing /\ pending = Nothing => durable = submitted

\* What a writer holds is newer than the record and older than the state.
WriterHoldsNewer ==
    \A c \in Callers : Writing(c) =>
        /\ durable < job[c].number
        /\ job[c].number <= submitted
        /\ pending = Nothing <=> job[c].number = submitted
        /\ visible \subseteq job[c].org
        /\ job[c].org \subseteq org
        /\ pc[c] = "write" => visible = stable
        /\ pc[c] = "renamed" => visible = job[c].org
        /\ \A r \in issued :
              r.epoch = epoch /\ r.number <= job[c].number
                => r.org \subseteq job[c].org

\* The disk is behind the state, and unsynced only by a write under way or a
\* failed one.
RecordBehindState ==
    /\ stable \subseteq visible
    /\ visible \subseteq org
    /\ org \subseteq 1..commits
    /\ ~failed /\ ~writing => visible = stable

\* Every revision handed out is ordered within its epoch, and durable as far as
\* the journal says.
IssuedInOrder ==
    /\ DOMAIN ended \subseteq {e \in Nat : e < epoch}
    /\ \A r \in issued :
          /\ r.epoch <= epoch
          /\ r.epoch = epoch => r.number <= submitted /\ r.org \subseteq org
          /\ Retained(r) => r.org \subseteq stable
    /\ \A c \in Callers : pc[c] # "idle" => rev[c] \in issued

\* Everything that must be kept for AckedIsStable to survive the next step.
JournalInv ==
    /\ OneWriter
    /\ PendingIsNewest
    /\ WriterHoldsNewer
    /\ RecordBehindState
    /\ IssuedInOrder
    /\ AckedIsStable

-----------------------------------------------------------------------------
\* What the journal promises, with its threads, epochs and files left out.
Promise == INSTANCE RetainedOrganization
               WITH live <- org, kept <- stable, told <- acked

\* The journal implements its promise: every step of commit, sync, recover and
\* restart is a change, a keep, a tell or a loss of the abstract organization,
\* or nothing.
ImplementsPromise == Promise!AbstractSpec

\* Every call of sync returns: no notification is missed and no thread waits
\* for a write that nobody performs.
SyncReturns ==
    \A c \in Callers : pc[c] = "sync" ~> pc[c] = "idle"
=============================================================================
