--------------------------- MODULE EditHostProofs ---------------------------
(***************************************************************************)
(* Proofs about EditHost, for every set of clients and every number of     *)
(* commits, epochs, staged inventories and jobs.                           *)
(***************************************************************************)
EXTENDS EditHost, JournalProofs, FiniteSetTheorems

-----------------------------------------------------------------------------
(* Facts about the operators the model is built from.                      *)

\* A set of numbers up to a bound has a least and a greatest element: what
\* Publication::release finds by walking the staged inventories.
LEMMA ExtremesExist ==
    ASSUME NEW n \in Nat, NEW S \in SUBSET (1..n), S # {}
    PROVE  /\ Min(S) \in S /\ \A y \in S : Min(S) <= y
           /\ Max(S) \in S /\ \A y \in S : y <= Max(S)
<1>1. IsFiniteSet(1..n)
  BY FS_Interval
<1> DEFINE Less == StrictSubsetOrdering(1..n)
<1>2. IsWellFoundedOn(Less, SUBSET (1..n))
  BY <1>1, FS_StrictSubsetOrderingWellFounded, FS_FiniteSubsetsOfFinite
<1>3. \E x \in S : \A y \in S : x <= y
  <2> DEFINE Upto(x) == {y \in S : y <= x}
             T == {Upto(x) : x \in S}
  <2>1. T # {} /\ T \subseteq SUBSET (1..n)
    OBVIOUS
  <2> HIDE DEF T, Less
  <2>2. PICK t \in T : \A u \in T : <<u, t>> \notin Less
    BY <1>2, <2>1, WFMin
  <2> USE DEF T, Less
  <2>3. PICK x \in S : t = Upto(x)
    OBVIOUS
  <2>4. ASSUME NEW y \in S, ~(x <= y)
        PROVE  FALSE
    <3>1. S \subseteq Int
      OBVIOUS
    <3>2. Upto(y) \in T
      BY <2>4
    <3>3. x \in Int /\ y \in Int /\ \A z \in S : z \in Int
      BY <3>1
    <3>4. x \in t /\ x \notin Upto(y)
      BY <2>3, <2>4, <3>3
    <3>5. Upto(y) \subseteq t
      <4>1. \A z \in S : z <= y => z <= x
        BY <2>4, <3>3
      <4> QED
        BY <2>3, <4>1
    <3> QED
      BY <2>1, <2>2, <3>2, <3>4, <3>5 DEF StrictSubsetOrdering
  <2> QED
    BY <2>4
<1>4. \E x \in S : \A y \in S : y <= x
  <2> DEFINE From(x) == {y \in S : x <= y}
             T == {From(x) : x \in S}
  <2>1. T # {} /\ T \subseteq SUBSET (1..n)
    OBVIOUS
  <2> HIDE DEF T, Less
  <2>2. PICK t \in T : \A u \in T : <<u, t>> \notin Less
    BY <1>2, <2>1, WFMin
  <2> USE DEF T, Less
  <2>3. PICK x \in S : t = From(x)
    OBVIOUS
  <2>4. ASSUME NEW y \in S, ~(y <= x)
        PROVE  FALSE
    <3>1. S \subseteq Int
      OBVIOUS
    <3>2. From(y) \in T
      BY <2>4
    <3>3. x \in Int /\ y \in Int /\ \A z \in S : z \in Int
      BY <3>1
    <3>4. x \in t /\ x \notin From(y)
      BY <2>3, <2>4, <3>3
    <3>5. From(y) \subseteq t
      <4>1. \A z \in S : y <= z => x <= z
        BY <2>4, <3>3
      <4> QED
        BY <2>3, <4>1
    <3> QED
      BY <2>1, <2>2, <3>2, <3>4, <3>5 DEF StrictSubsetOrdering
  <2> QED
    BY <2>4
<1> QED
  BY <1>3, <1>4 DEF Min, Max

\* State::next_sequence counts: an organization that holds more has a sequence at
\* least as high, and an equal one only if it holds no other edit of the client.
LEMMA EditsCounted ==
    ASSUME NEW n \in Nat, NEW p \in SUBSET (1..n), NEW o \in SUBSET p, NEW c
    PROVE  /\ NextSequence(c, o) \in Nat
           /\ NextSequence(c, o) > 0
           /\ NextSequence(c, o) <= NextSequence(c, p)
           /\ (NextSequence(c, o) = NextSequence(c, p)
                 => \A k \in p : OwnEdit(c, k) => k \in o)
<1> DEFINE Own(s) == {k \in s : OwnEdit(c, k)}
<1>1. NextSequence(c, o) = Cardinality(Own(o)) + 1
  BY DEF NextSequence, OwnEdit
<1>2. NextSequence(c, p) = Cardinality(Own(p)) + 1
  BY DEF NextSequence, OwnEdit
<1>3. IsFiniteSet(Own(p))
  <2>1. Own(p) \in SUBSET (1..n)
    OBVIOUS
  <2>2. IsFiniteSet(1..n)
    BY FS_Interval
  <2> HIDE DEF Own
  <2> QED
    BY <2>1, <2>2, FS_Subset
<1>4. Own(o) \in SUBSET Own(p)
  OBVIOUS
<1> HIDE DEF Own
<1>5. /\ IsFiniteSet(Own(o))
      /\ Cardinality(Own(o)) <= Cardinality(Own(p))
      /\ Cardinality(Own(p)) = Cardinality(Own(o)) => Own(p) = Own(o)
  BY <1>3, <1>4, FS_Subset
<1>6. Cardinality(Own(o)) \in Nat /\ Cardinality(Own(p)) \in Nat
  BY <1>3, <1>5, FS_CardinalityType
<1>7. Own(p) = Own(o) => \A k \in p : OwnEdit(c, k) => k \in o
  BY DEF Own
<1> QED
  BY <1>1, <1>2, <1>5, <1>6, <1>7

\* A commit that is logged changes nothing of what earlier commits mean.
LEMMA LogGrows ==
    ASSUME TypeOK, NEW e, log' = Append(log, e), NEW o \in SUBSET (1..commits), NEW c
    PROVE  /\ Inventory(o)' = Inventory(o)
           /\ NextSequence(c, o)' = NextSequence(c, o)
           /\ Deletions(o)' = Deletions(o)
           /\ \A k \in o : OwnEdit(c, k)' = OwnEdit(c, k)
<1>1. \A k \in o : log'[k] = log[k]
  BY DEF TypeOK
<1> QED
  BY <1>1 DEF Inventory, NextSequence, Deletions, OwnEdit

-----------------------------------------------------------------------------
(* Every step is a step of the journal.                                    *)

\* The sync worker and the host only ask Journal::sync for revisions they were
\* handed, so what they do to the journal is what its own specification allows.
LEMMA EditStepIsJournalStep ==
    TypeOK /\ RevisionsNest /\ StagedInOrder /\ [Next]_vars
        => [JournalNext]_journalVars
<1> SUFFICES ASSUME TypeOK, RevisionsNest, StagedInOrder, [Next]_vars
             PROVE  [JournalNext]_journalVars
  OBVIOUS
<1> USE EditHostAssumption
<1>1. CASE HostStep
  <2>1. ASSUME NEW client \in Clients,
               \/ Subscribe(client)
               \/ Unsubscribe(client)
               \/ \E commit \in org \cup {0} : EditBegins(client, commit)
        PROVE  UNCHANGED journalVars
    BY <2>1 DEF Subscribe, Unsubscribe, EditBegins
  <2>2. ASSUME NEW client \in Clients, Acknowledge(client)
        PROVE  JournalNext
    BY <2>2 DEF Acknowledge, CommitAs, JournalNext
  <2>3. ASSUME NEW kind \in Kinds, EditCommits(kind)
        PROVE  JournalNext
    BY <2>3 DEF EditCommits, CommitAs, JournalNext
  <2>4. CASE EditReplays \/ EditRefused \/ EditEnds \/ TickEnds \/ Publish
    BY <2>4 DEF EditReplays, EditRefused, EditEnds, TickEnds, Publish
  <2>5. CASE CommitRetained \/ TickCommits
    BY <2>5 DEF CommitRetained, TickCommits, CommitAs, JournalNext
  <2>6. CASE HostSyncs
    BY <2>6 DEF HostSyncs, RevisionsNest, JournalNext
  <2>7. CASE HostRecovers \/ HostRecoveryFails
    BY <2>7 DEF HostRecovers, HostRecoveryFails, JournalNext
  <2> QED
    BY <1>1, <2>1, <2>2, <2>3, <2>4, <2>5, <2>6, <2>7 DEF HostStep
<1>2. CASE WorkerBegins
  <2>1. Head(queue).rev \in issued
    <3>1. queue \in Seq(Job) /\ queue # <<>>
      BY <1>2 DEF WorkerBegins, TypeOK
    <3>2. Head(queue) = queue[1] /\ 1 \in DOMAIN queue
      BY <3>1
    <3> QED
      BY <3>2 DEF StagedInOrder
  <2> QED
    BY <1>2, <2>1 DEF WorkerBegins, JournalNext
<1>3. CASE WorkerReplies \/ WorkerRefuses \/ HostSyncReturns
  BY <1>3 DEF WorkerReplies, WorkerRefuses, HostSyncReturns, JournalNext, SyncStep
<1>4. ASSUME NEW c \in Callers, ThreadStep(c)
      PROVE  [JournalNext]_journalVars
  <2>1. CASE SyncRuns(c)
    BY <2>1 DEF SyncRuns, JournalNext, SyncStep
  <2>2. CASE Release(c)
    BY <2>2 DEF Release
  <2>3. CASE WriteReported(c)
    BY <2>3 DEF WriteReported, JournalNext, SyncStep
  <2> QED
    BY <1>4, <2>1, <2>2, <2>3 DEF ThreadStep
<1>5. CASE ServerRestarts
  BY <1>5 DEF ServerRestarts, JournalNext
<1>6. CASE UNCHANGED vars
  BY <1>6 DEF vars
<1> QED
  BY <1>1, <1>2, <1>3, <1>4, <1>5, <1>6 DEF Next

\* Revisions of an epoch keep nesting: a commit makes a larger one, and a recovery
\* or a restart begins an epoch with one.
LEMMA RevisionsNestInductive ==
    JournalTypeOK /\ JournalInv /\ RevisionsNest /\ [JournalNext]_journalVars
        => RevisionsNest'
<1> SUFFICES ASSUME JournalTypeOK, JournalInv, RevisionsNest,
                    [JournalNext]_journalVars
             PROVE  RevisionsNest'
  OBVIOUS
<1>1. CASE Commit
  <2> DEFINE new == [epoch |-> epoch, number |-> submitted + 1, org |-> org']
  <2>1. /\ issued' = issued \cup {new} /\ epoch' = epoch /\ Latest' = new
        /\ org' = org \cup {commits + 1}
    BY <1>1 DEF Commit, Submit, Latest
  <2>2. \A k \in org : k <= commits /\ k \in Nat /\ commits \in Nat
    BY DEF JournalInv, RecordBehindState, JournalTypeOK
  <2>3. ASSUME NEW r \in issued, r.epoch = epoch
        PROVE  Segment(r.org, org')
    <3>1. Segment(r.org, org)
      BY <2>3 DEF RevisionsNest
    <3> QED
      BY <2>1, <2>2, <3>1 DEF Segment
  <2>4. Segment(new.org, org')
    BY DEF Segment
  <2>5. \A r \in issued' : r.epoch = epoch' => Segment(r.org, org')
    BY <2>1, <2>3, <2>4
  <2>6. ASSUME NEW r \in issued', NEW q \in issued',
               r.epoch = epoch', q.epoch = epoch', r.number <= q.number
        PROVE  r.org \subseteq q.org
    <3>1. CASE r \in issued /\ q \in issued
      BY <2>1, <2>6, <3>1 DEF RevisionsNest
    <3>2. CASE q = new
      BY <2>1, <2>5, <2>6, <3>2 DEF Segment
    <3>3. CASE r = new /\ q \in issued
      <4>1. q.number <= submitted /\ q.number \in Nat /\ submitted \in Nat
        BY <2>1, <2>6, <3>3 DEF JournalInv, IssuedInOrder, JournalTypeOK, Revision
      <4> QED
        BY <2>6, <3>3, <4>1
    <3> QED
      BY <2>1, <2>6, <3>1, <3>2, <3>3
  <2>7. \A r \in issued' : r.org \subseteq 1..commits'
    <3>1. commits' = commits + 1 /\ commits \in Nat
      BY <1>1 DEF Commit, JournalTypeOK
    <3>2. 1..commits \subseteq 1..commits' /\ commits + 1 \in 1..commits'
      BY <3>1
    <3>3. org' \subseteq 1..commits'
      BY <2>1, <3>2 DEF JournalInv, RecordBehindState
    <3>4. \A r \in issued : r.org \subseteq 1..commits
      BY DEF RevisionsNest
    <3> QED
      BY <2>1, <3>2, <3>3, <3>4
  <2> QED
    BY <2>1, <2>5, <2>6, <2>7 DEF RevisionsNest
<1>2. CASE Recover
  <2> DEFINE new == [epoch |-> epoch + 1, number |-> 0, org |-> visible]
  <2>1. /\ issued' = issued \cup {new} /\ epoch' = epoch + 1 /\ Latest' = new
        /\ org' = visible
    BY <1>2 DEF Recover, Latest
  <2>2. \A r \in issued : r.epoch # epoch'
    BY <2>1 DEF JournalInv, IssuedInOrder, JournalTypeOK, Revision
  <2>3. Segment(visible, visible)
    BY DEF Segment
  <2>4. \A r \in issued' : r.org \subseteq 1..commits'
    <3>1. commits' = commits /\ visible \subseteq 1..commits
      BY <1>2 DEF Recover, JournalInv, RecordBehindState
    <3>2. \A r \in issued : r.org \subseteq 1..commits
      BY DEF RevisionsNest
    <3>3. new.org = visible
      OBVIOUS
    <3> HIDE DEF new
    <3> QED
      BY <2>1, <3>1, <3>2, <3>3
  <2> QED
    BY <2>1, <2>2, <2>3, <2>4 DEF RevisionsNest
<1>3. CASE Restart
  BY <1>3 DEF Restart, RevisionsNest, Latest, Segment, JournalInv, RecordBehindState
<1>4. CASE \/ RecoverFails
           \/ \E c \in Callers, r \in issued : SyncCall(c, r)
           \/ \E c \in Callers : SyncStep(c)
           \/ UNCHANGED journalVars
  <2>1. UNCHANGED <<org, commits, epoch, submitted, issued>>
    BY <1>4 DEF RecoverFails, SyncCall, SyncStep, SyncOk, SyncUncertain, SyncWait,
       SyncTake, WriteRename, WriteOk, WriteFails, Reported, progress, journalVars
  <2> QED
    BY <2>1 DEF RevisionsNest, Latest
<1> QED
  BY <1>1, <1>2, <1>3, <1>4 DEF JournalNext

-----------------------------------------------------------------------------
(* What publication does.                                                  *)

\* What a push leaves has the type of what it replaces.
LEMMA PushTypes ==
    ASSUME TypeOK, NEW s \in Staged, Push(s, subscribed)
    PROVE  /\ view' \in [Clients -> [inventory: Organization, next: Nat]]
           /\ published' \in Organization
<1>1. s.rev.org \in Organization /\ Inventory(s.rev.org) \in Organization
  BY DEF Staged, Revision, Organization, Inventory
<1>2. \A c \in Clients : NextSequence(c, s.rev.org) \in Nat
  <2>1. s.rev.org \in SUBSET (1..MaxCommits) /\ MaxCommits \in Nat
    BY <1>1, JournalAssumption DEF Organization
  <2> QED
    BY <2>1, EditsCounted
<1> DEFINE shown(c) == [inventory |-> Inventory(s.rev.org),
                        next |-> NextSequence(c, s.rev.org)]
<1>3. \A c \in Clients : shown(c) \in [inventory: Organization, next: Nat]
  BY <1>1, <1>2
<1>4. \A c \in Clients : view[c] \in [inventory: Organization, next: Nat]
  BY DEF TypeOK
<1>5. /\ view' = [c \in Clients |->
            IF /\ c \in subscribed \cap s.devices
               /\ \/ Inventory(s.rev.org) # published
                  \/ view[c].next # NextSequence(c, s.rev.org)
            THEN shown(c) ELSE view[c]]
      /\ published' = Inventory(s.rev.org)
  BY DEF Push
<1> HIDE DEF shown
<1> QED
  BY <1>1, <1>3, <1>4, <1>5

\* Publication::release in other words: the first n staged inventories leave, each
\* covered or lost, the next one is neither, and the last covered one of those n
\* is pushed if there is one.
LEMMA ReleaseShape ==
    ASSUME TypeOK, NEW c \in Callers, Release(c)
    PROVE  \E n \in 0..Len(staged) :
              /\ staged' = SubSeq(staged, n + 1, Len(staged))
              /\ \A i \in 1..n : Covered(staged[i]) \/ Lost(staged[i])
              /\ n < Len(staged) => ~Covered(staged[n + 1]) /\ ~Lost(staged[n + 1])
              /\ \/ /\ \A i \in 1..n : ~Covered(staged[i])
                    /\ UNCHANGED <<published, view>>
                 \/ \E m \in 1..n :
                       /\ Covered(staged[m])
                       /\ \A i \in 1..n : Covered(staged[i]) => i <= m
                       /\ Push(staged[m], subscribed)
<1> DEFINE kept == {i \in DOMAIN staged : ~Covered(staged[i]) /\ ~Lost(staged[i])}
           n == IF kept = {} THEN Len(staged) ELSE Min(kept) - 1
           covered == {i \in 1..n : Covered(staged[i])}
<1>1. Len(staged) \in Nat /\ DOMAIN staged = 1..Len(staged)
  BY DEF TypeOK
<1>2. /\ staged' = SubSeq(staged, n + 1, Len(staged))
      /\ IF covered = {} THEN UNCHANGED <<published, view>>
         ELSE Push(staged[Max(covered)], subscribed)
  BY DEF Release
<1>3. kept \in SUBSET (1..Len(staged)) /\ \A i \in 1..Len(staged) :
         i \in kept <=> ~Covered(staged[i]) /\ ~Lost(staged[i])
  BY <1>1
<1> HIDE DEF kept
<1>4. CASE kept = {}
  <2>1. n = Len(staged)
    BY <1>4
  <2>2. \A i \in 1..n : Covered(staged[i]) \/ Lost(staged[i])
    BY <1>3, <1>4, <2>1
  <2> HIDE DEF n
  <2>3. n \in 0..Len(staged) /\ ~(n < Len(staged))
    BY <1>1, <2>1
  <2>4. CASE covered = {}
    <3>1. \A i \in 1..n : ~Covered(staged[i])
      BY <2>4
    <3> QED
      BY <1>2, <2>2, <2>3, <2>4, <3>1
  <2>5. CASE covered # {}
    <3>1. n \in Nat /\ covered \in SUBSET (1..n)
      BY <2>3
    <3>2. Max(covered) \in covered /\ \A i \in covered : i <= Max(covered)
      BY <2>5, <3>1, ExtremesExist
    <3>3. /\ Max(covered) \in 1..n
          /\ Covered(staged[Max(covered)])
          /\ \A i \in 1..n : Covered(staged[i]) => i <= Max(covered)
          /\ Push(staged[Max(covered)], subscribed)
      BY <1>2, <2>5, <3>2
    <3> HIDE DEF covered
    <3> QED
      BY <1>2, <2>2, <2>3, <3>3
  <2> QED
    BY <2>4, <2>5
<1>5. CASE kept # {}
  <2>1. Min(kept) \in kept /\ \A i \in kept : Min(kept) <= i
    BY <1>1, <1>3, <1>5, ExtremesExist
  <2>2. n = Min(kept) - 1 /\ Min(kept) \in 1..Len(staged)
    BY <1>3, <1>5, <2>1
  <2> HIDE DEF n
  <2>3. n \in 0..Len(staged) /\ n \in Nat /\ n + 1 = Min(kept)
    BY <1>1, <2>2
  <2>4. ~Covered(staged[n + 1]) /\ ~Lost(staged[n + 1])
    BY <1>3, <2>1, <2>2, <2>3
  <2>5. \A i \in 1..n : Covered(staged[i]) \/ Lost(staged[i])
    <3>1. \A i \in 1..n : i \in 1..Len(staged) /\ ~(Min(kept) <= i)
      BY <1>1, <2>3
    <3> QED
      BY <1>3, <2>1, <3>1
  <2>6. CASE covered = {}
    <3>1. \A i \in 1..n : ~Covered(staged[i])
      BY <2>6
    <3> QED
      BY <1>2, <2>3, <2>4, <2>5, <2>6, <3>1
  <2>7. CASE covered # {}
    <3>1. covered \in SUBSET (1..n)
      OBVIOUS
    <3>2. Max(covered) \in covered /\ \A i \in covered : i <= Max(covered)
      BY <2>3, <2>7, <3>1, ExtremesExist
    <3>3. /\ Max(covered) \in 1..n
          /\ Covered(staged[Max(covered)])
          /\ \A i \in 1..n : Covered(staged[i]) => i <= Max(covered)
          /\ Push(staged[Max(covered)], subscribed)
      BY <1>2, <2>7, <3>2
    <3> HIDE DEF covered
    <3> QED
      BY <1>2, <2>3, <2>4, <2>5, <3>3
  <2> QED
    BY <2>6, <2>7
<1> QED
  BY <1>4, <1>5

-----------------------------------------------------------------------------
(* Types.                                                                  *)

\* The control state says which data the holder of the lock carries.
LEMMA HostCases ==
    ASSUME TypeOK
    PROVE  /\ host.at = "editing" =>
                 host.client \in Clients /\ host.commit \in 0..MaxCommits
           /\ host.at = "replying" => host.job \in Job
<1>1. host \in HostState
  BY DEF TypeOK
<1>2. CASE host = Free
  BY <1>2 DEF Free
<1>3. CASE host \in [at: {"publish"}] \cup [at: {"syncing"}]
  BY <1>3
<1>4. CASE host \in [at: {"editing"}, client: Clients, commit: 0..MaxCommits]
  BY <1>4
<1>5. CASE host \in [at: {"replying"}, job: Job]
  BY <1>5
<1> QED
  BY <1>1, <1>2, <1>3, <1>4, <1>5 DEF HostState

\* A publication keeps its types, whether it stages or pushes.
LEMMA StageTypes ==
    ASSUME TypeOK, Stage
    PROVE  /\ subscribed' = subscribed
           /\ staged' \in Seq(Staged)
           /\ published' \in Organization
           /\ view' \in [Clients -> [inventory: Organization, next: Nat]]
<1> DEFINE s == [rev |-> Latest, devices |-> subscribed]
<1>1. s \in Staged
  BY DEF TypeOK, JournalTypeOK, Latest, Staged, Revision
<1>2. CASE subscribed = {}
  BY <1>2 DEF Stage, publication, TypeOK
<1>3. CASE subscribed # {} /\ Retained(Latest)
  <2>1. staged' = <<>> /\ Push(s, subscribed) /\ subscribed' = subscribed
    BY <1>3 DEF Stage
  <2> QED
    BY <1>1, <2>1, PushTypes
<1>4. CASE subscribed # {} /\ ~Retained(Latest)
  <2>1. /\ staged' = Append(staged, s) /\ UNCHANGED <<published, view>>
        /\ subscribed' = subscribed
    BY <1>4 DEF Stage
  <2> HIDE DEF s
  <2> QED
    BY <1>1, <2>1 DEF TypeOK
<1> QED
  BY <1>2, <1>3, <1>4

\* A commit keeps the log's type and makes a revision the worker can be handed.
LEMMA CommitTypes ==
    ASSUME TypeOK, NEW by \in Clients \cup {Server}, NEW kind \in Kinds,
           CommitAs(by, kind)
    PROVE  /\ log' \in Seq([by: Clients \cup {Server}, kind: Kinds])
           /\ Len(log') = commits'
           /\ commits + 1 \in 1..MaxCommits
           /\ [epoch |-> epoch, number |-> submitted + 1, org |-> org'] \in Revision
<1> DEFINE e == [by |-> by, kind |-> kind]
<1>1. e \in [by: Clients \cup {Server}, kind: Kinds]
  OBVIOUS
<1>2. log' = Append(log, e) /\ commits' = commits + 1
  BY DEF CommitAs, Commit
<1>3. log \in Seq([by: Clients \cup {Server}, kind: Kinds]) /\ Len(log) = commits
  BY DEF TypeOK
<1>4. commits + 1 \in 1..MaxCommits /\ org' = org \cup {commits + 1}
  BY JournalAssumption DEF CommitAs, Commit, TypeOK, JournalTypeOK
<1>5. org' \in Organization /\ epoch \in Nat /\ submitted + 1 \in Nat
  BY <1>4 DEF TypeOK, JournalTypeOK, Organization
<1> HIDE DEF e
<1>6. log' \in Seq([by: Clients \cup {Server}, kind: Kinds]) /\ Len(log') = commits'
  BY <1>1, <1>2, <1>3
<1> QED
  BY <1>4, <1>5, <1>6 DEF Revision

\* The variables keep their types through every request, tick, job, write and
\* restart.
LEMMA EditTypeInductive == TypeOK /\ EditInv /\ [Next]_vars => TypeOK'
<1> SUFFICES ASSUME TypeOK, EditInv, [Next]_vars
             PROVE  TypeOK'
  OBVIOUS
<1>1. JournalTypeOK'
  BY EditStepIsJournalStep, JournalTypeInductive DEF TypeOK, EditInv
<1>2. Latest \in Revision
  BY DEF Latest, Revision, TypeOK, JournalTypeOK
<1>3. [at |-> "publish"] \in HostState /\ Free \in HostState
      /\ [at |-> "syncing"] \in HostState
  BY DEF HostState
<1> USE EditHostAssumption DEF TypeOK
<1>4. ASSUME NEW client \in Clients, Subscribe(client)
      PROVE  TypeOK'
  <2>1. NoView \in [inventory: Organization, next: Nat]
    BY DEF NoView, Organization
  <2> QED
    BY <1>1, <1>3, <1>4, <2>1 DEF Subscribe, journalVars
<1>5. ASSUME NEW client \in Clients, Unsubscribe(client)
      PROVE  TypeOK'
  <2>1. NoView \in [inventory: Organization, next: Nat] /\ {} \in Organization
    BY DEF NoView, Organization
  <2>2. ASSUME NEW i \in DOMAIN queue
        PROVE  [queue[i] EXCEPT !.to = Server] \in Job
    <3>1. queue[i] \in Job
      OBVIOUS
    <3> QED
      BY <3>1 DEF Job
  <2>3. queue' \in Seq(Job)
    <3> DEFINE q(i) == IF queue[i].to = client
                       THEN [queue[i] EXCEPT !.to = Server] ELSE queue[i]
    <3>1. Len(queue) \in Nat /\ DOMAIN queue = 1..Len(queue)
      OBVIOUS
    <3>2. \A i \in 1..Len(queue) : q(i) \in Job
      BY <2>2, <3>1
    <3>3. queue' = [i \in 1..Len(queue) |-> q(i)]
      BY <1>5, <3>1 DEF Unsubscribe
    <3> HIDE DEF q
    <3> QED
      BY <3>1, <3>2, <3>3
  <2> QED
    BY <1>1, <1>5, <2>1, <2>3 DEF Unsubscribe, journalVars
<1>6. ASSUME NEW client \in Clients, NEW commit \in org \cup {0},
             EditBegins(client, commit)
      PROVE  TypeOK'
  <2>1. commit \in 0..MaxCommits
    BY JournalAssumption DEF JournalTypeOK, Organization
  <2>2. [at |-> "editing", client |-> client, commit |-> commit] \in HostState
    BY <2>1 DEF HostState
  <2> QED
    BY <1>1, <1>6, <2>2 DEF EditBegins, journalVars, publication
<1>7. ASSUME NEW client \in Clients, Acknowledge(client)
      PROVE  TypeOK'
  <2> DEFINE r == [epoch |-> epoch, number |-> submitted + 1, org |-> org']
             j == [rev |-> r, commit |-> 0, to |-> Server]
  <2>1. /\ log' \in Seq([by: Clients \cup {Server}, kind: Kinds])
        /\ Len(log') = commits' /\ r \in Revision
    BY <1>7, CommitTypes DEF Acknowledge, Kinds
  <2>2. j \in Job
    BY <2>1, JournalAssumption DEF Job
  <2>3. queue' = Append(queue, j)
    BY <1>7 DEF Acknowledge, Enqueue
  <2> HIDE DEF j
  <2>4. queue' \in Seq(Job)
    BY <2>2, <2>3
  <2> QED
    BY <1>1, <1>7, <2>1, <2>4 DEF Acknowledge, publication
<1>8. ASSUME NEW kind \in Kinds \ {"acknowledgement"}, EditCommits(kind)
      PROVE  TypeOK'
  <2> DEFINE r == [epoch |-> epoch, number |-> submitted + 1, org |-> org']
             j == [rev |-> r, commit |-> commits + 1, to |-> host.client]
  <2>1. host.client \in Clients
    BY <1>8, HostCases DEF EditCommits
  <2>2. /\ log' \in Seq([by: Clients \cup {Server}, kind: Kinds])
        /\ Len(log') = commits' /\ r \in Revision /\ commits + 1 \in 1..MaxCommits
    BY <1>8, <2>1, CommitTypes DEF EditCommits
  <2>3. j \in Job
    BY <2>1, <2>2 DEF Job
  <2>4. host' = [at |-> "replying", job |-> j]
    BY <1>8 DEF EditCommits
  <2> HIDE DEF j
  <2>5. host' \in HostState
    BY <2>3, <2>4 DEF HostState
  <2> QED
    BY <1>1, <1>8, <2>2, <2>5 DEF EditCommits, publication
<1>9. CASE EditReplays
  <2> DEFINE j == [rev |-> Latest, commit |-> host.commit, to |-> host.client]
  <2>1. j \in Job
    BY <1>2, <1>9, HostCases DEF EditReplays, Job
  <2>2. host' = [at |-> "replying", job |-> j]
    BY <1>9 DEF EditReplays
  <2> HIDE DEF j
  <2>3. host' \in HostState
    BY <2>1, <2>2 DEF HostState
  <2> QED
    BY <1>1, <1>9, <2>3 DEF EditReplays, journalVars, publication
<1>10. CASE EditRefused
  BY <1>1, <1>3, <1>10 DEF EditRefused, journalVars, publication
<1>11. CASE EditEnds
  <2>1. queue' \in Seq(Job)
    <3>1. host.job \in Job /\ queue' = Append(queue, host.job)
      BY <1>11, HostCases DEF EditEnds, Enqueue
    <3> QED
      BY <3>1
  <2> QED
    BY <1>1, <1>3, <1>11, <2>1, StageTypes DEF EditEnds, journalVars
<1>12. CASE CommitRetained
  <2>1. Server \in Clients \cup {Server} /\ "accepted" \in Kinds
    BY DEF Kinds
  <2>2. /\ log' \in Seq([by: Clients \cup {Server}, kind: Kinds])
        /\ Len(log') = commits'
    BY <1>12, <2>1, CommitTypes DEF CommitRetained
  <2> QED
    BY <1>1, <1>3, <1>12, <2>2 DEF CommitRetained, publication
<1>13. CASE HostSyncs
  BY <1>1, <1>3, <1>13 DEF HostSyncs, SyncCall, publication
<1>14. CASE TickEnds
  <2>1. killed' \in Organization
    BY <1>14 DEF TickEnds, Deletions, JournalTypeOK, Organization
  <2> QED
    BY <1>1, <1>3, <1>14, <2>1 DEF TickEnds, journalVars, publication
<1>15. CASE TickCommits
  <2> DEFINE r == [epoch |-> epoch, number |-> submitted + 1, org |-> org']
             j == [rev |-> r, commit |-> 0, to |-> Server]
  <2>1. Server \in Clients \cup {Server} /\ "accepted" \in Kinds
    BY DEF Kinds
  <2>2. /\ log' \in Seq([by: Clients \cup {Server}, kind: Kinds])
        /\ Len(log') = commits' /\ r \in Revision
    BY <1>15, <2>1, CommitTypes DEF TickCommits
  <2>3. j \in Job
    BY <2>2, JournalAssumption DEF Job
  <2>4. queue' = Append(queue, j)
    BY <1>15 DEF TickCommits, Enqueue
  <2> HIDE DEF j
  <2>5. queue' \in Seq(Job)
    BY <2>3, <2>4
  <2>6. killed' \in Organization
    BY <1>15 DEF TickCommits, Deletions, JournalTypeOK, Organization
  <2> QED
    BY <1>1, <1>3, <1>15, <2>2, <2>5, <2>6 DEF TickCommits, publication
<1>16. CASE Publish
  BY <1>1, <1>3, <1>16, StageTypes DEF Publish, journalVars
<1>17. CASE HostRecovers
  BY <1>1, <1>17 DEF HostRecovers, Recover, editVars, publication
<1>18. CASE HostRecoveryFails
  BY <1>1, <1>3, <1>18 DEF HostRecoveryFails, RecoverFails, publication
<1>19. CASE WorkerBegins
  BY <1>1, <1>19 DEF WorkerBegins, SyncCall, editVars, publication
<1>20. CASE WorkerReplies
  <2>1. pc[Worker] # "idle"
    BY <1>20 DEF WorkerReplies, SyncOk
  <2>2. queue # <<>> /\ queue \in Seq(Job)
    BY <2>1 DEF EditInv, WorkerRunsFirst
  <2>3. Head(queue) = queue[1] /\ 1 \in DOMAIN queue /\ Tail(queue) \in Seq(Job)
    BY <2>2
  <2>4. Head(queue) \in Job
    BY <2>2
  <2>5. replied' \in [Clients -> Organization]
    <3>1. CASE Head(queue).to = Server
      BY <1>20, <3>1 DEF WorkerReplies
    <3>2. CASE Head(queue).to # Server
      <4>1. Head(queue).to \in Clients
        BY <2>4, <3>2 DEF Job
      <4>2. Head(queue).commit \in Head(queue).rev.org
        BY <2>3, <4>1 DEF EditInv, EveryoneIsShown, Shown
      <4>3. Head(queue).rev.org \in Organization
        BY <2>4 DEF Job, Revision
      <4>4. replied[Head(queue).to] \cup {Head(queue).commit} \in Organization
        BY <4>1, <4>2, <4>3 DEF Organization
      <4> QED
        BY <1>20, <3>2, <4>1, <4>4 DEF WorkerReplies
    <3> QED
      BY <3>1, <3>2
  <2> QED
    BY <1>1, <1>20, <2>3, <2>5 DEF WorkerReplies, SyncOk, publication
<1>21. CASE WorkerRefuses
  <2>1. pc[Worker] # "idle"
    BY <1>21 DEF WorkerRefuses, SyncUncertain
  <2>2. queue # <<>> /\ Tail(queue) \in Seq(Job)
    BY <2>1 DEF EditInv, WorkerRunsFirst
  <2> QED
    BY <1>1, <1>21, <2>2 DEF WorkerRefuses, SyncUncertain, publication
<1>22. CASE HostSyncReturns
  BY <1>1, <1>22 DEF HostSyncReturns, SyncOk, SyncUncertain, editVars, publication
<1>23. ASSUME NEW c \in Callers, SyncRuns(c)
       PROVE  TypeOK'
  BY <1>1, <1>23 DEF SyncRuns, SyncWait, SyncTake, WriteRename, WriteOk, WriteFails,
     editVars, publication
<1>24. ASSUME NEW c \in Callers, Release(c)
       PROVE  TypeOK'
  <2>1. PICK n \in 0..Len(staged) :
           /\ staged' = SubSeq(staged, n + 1, Len(staged))
           /\ \/ UNCHANGED <<published, view>>
              \/ \E m \in 1..n : Push(staged[m], subscribed)
    BY <1>24, ReleaseShape
  <2>2. \A m \in 1..n : staged[m] \in Staged
    OBVIOUS
  <2>3. /\ view' \in [Clients -> [inventory: Organization, next: Nat]]
        /\ published' \in Organization
    <3>1. CASE UNCHANGED <<published, view>>
      BY <3>1
    <3>2. CASE \E m \in 1..n : Push(staged[m], subscribed)
      BY <2>2, <3>2, PushTypes
    <3> QED
      BY <2>1, <3>1, <3>2
  <2>4. staged' \in Seq(Staged)
    BY <2>1
  <2> QED
    BY <1>1, <1>24, <2>3, <2>4 DEF Release, journalVars
<1>25. ASSUME NEW c \in Callers, WriteReported(c)
       PROVE  TypeOK'
  BY <1>1, <1>25 DEF WriteReported, Reported, publication
<1>26. CASE ServerRestarts
  <2>1. NoView \in [inventory: Organization, next: Nat] /\ {} \in Organization
    BY DEF NoView, Organization
  <2>2. commits' = commits
    BY <1>26 DEF ServerRestarts, Restart
  <2>3. /\ view' \in [Clients -> [inventory: Organization, next: Nat]]
        /\ replied' \in [Clients -> Organization]
    BY <1>26, <2>1 DEF ServerRestarts
  <2>4. staged' \in Seq(Staged) /\ queue' \in Seq(Job)
    BY <1>26 DEF ServerRestarts
  <2>5. UNCHANGED <<log, killed>> /\ host' = Free /\ subscribed' = {}
        /\ published' = {} /\ callback' = FALSE
    BY <1>26 DEF ServerRestarts
  <2> QED
    BY <1>1, <1>3, <2>1, <2>2, <2>3, <2>4, <2>5
<1>27. CASE UNCHANGED vars
  BY <1>1, <1>27 DEF vars, journalVars, editVars, publication
<1> QED
  BY <1>4, <1>5, <1>6, <1>7, <1>8, <1>9, <1>10, <1>11, <1>12, <1>13, <1>14, <1>15,
     <1>16, <1>17, <1>18, <1>19, <1>20, <1>21, <1>22, <1>23, <1>24, <1>25, <1>26,
     <1>27
     DEF Next, HostStep, ThreadStep

-----------------------------------------------------------------------------
(* Each part of the invariant is kept by every step.                       *)

\* A publication leaves everything as it is, pushes the newest revision and clears
\* what was staged, or stages the newest revision.
LEMMA StageShape ==
    ASSUME TypeOK, Stage
    PROVE  \/ subscribed = {} /\ UNCHANGED publication
           \/ /\ Retained(Latest) /\ staged' = <<>> /\ subscribed' = subscribed
              /\ Push([rev |-> Latest, devices |-> subscribed], subscribed)
           \/ /\ ~Retained(Latest) /\ UNCHANGED <<subscribed, published, view>>
              /\ staged' = Append(staged, [rev |-> Latest, devices |-> subscribed])
  BY DEF Stage

\* Which steps touch the staged inventories and the worker's queue, and how.
LEMMA StepFrames ==
    ASSUME TypeOK, EditInv, [Next]_vars, ~ServerRestarts
    PROVE  /\ issued \subseteq issued'
           /\ \/ staged' = staged
              \/ Stage /\ UNCHANGED journalVars
              \/ \E c \in Callers : Release(c)
           /\ \/ queue' = queue
              \/ queue # <<>> /\ queue' = Tail(queue)
              \/ \E j \in Job : j.rev \in issued' /\ queue' = Append(queue, j)
              \/ \E client \in Clients : Unsubscribe(client)
<1> USE EditHostAssumption
<1>1. ASSUME NEW client \in Clients,
             \/ Subscribe(client)
             \/ \E commit \in org \cup {0} : EditBegins(client, commit)
      PROVE  UNCHANGED <<issued, staged, queue>>
  BY <1>1 DEF Subscribe, EditBegins, journalVars, publication
<1>2. ASSUME NEW client \in Clients, Unsubscribe(client)
      PROVE  UNCHANGED <<issued, staged>>
  BY <1>2 DEF Unsubscribe, journalVars
<1>3. ASSUME \/ \E client \in Clients : Acknowledge(client)
             \/ TickCommits
      PROVE  /\ issued \subseteq issued' /\ staged' = staged
             /\ \E j \in Job : j.rev \in issued' /\ queue' = Append(queue, j)
  <2> DEFINE r == [epoch |-> epoch, number |-> submitted + 1, org |-> org']
             j == [rev |-> r, commit |-> 0, to |-> Server]
  <2>1. /\ Commit /\ staged' = staged /\ queue' = Append(queue, j)
        /\ \E by \in Clients \cup {Server}, kind \in Kinds : CommitAs(by, kind)
    BY <1>3 DEF Acknowledge, TickCommits, CommitAs, publication, Enqueue, Kinds
  <2>2. issued' = issued \cup {r}
    BY <2>1 DEF Commit, Submit
  <2>3. r \in Revision
    BY <2>1, CommitTypes
  <2>4. j \in Job /\ j.rev = r
    BY <2>3, JournalAssumption DEF Job
  <2> HIDE DEF r, j
  <2> QED
    BY <2>1, <2>2, <2>4
<1>4. ASSUME \/ \E kind \in Kinds : EditCommits(kind)
             \/ CommitRetained
      PROVE  issued \subseteq issued' /\ UNCHANGED <<staged, queue>>
  BY <1>4 DEF EditCommits, CommitRetained, CommitAs, Commit, Submit, publication
<1>5. CASE EditReplays \/ EditRefused \/ TickEnds
  BY <1>5 DEF EditReplays, EditRefused, TickEnds, journalVars, publication
<1>6. CASE EditEnds
  <2>1. host.job \in Job /\ host.job.rev = Latest
    BY <1>6, HostCases DEF EditEnds, EditInv, HostHoldsLock
  <2>2. Latest \in issued /\ UNCHANGED journalVars /\ issued' = issued
    BY <1>6 DEF EditEnds, journalVars, EditInv, RevisionsNest
  <2> QED
    BY <1>6, <2>1, <2>2 DEF EditEnds, Enqueue
<1>7. CASE Publish
  BY <1>7 DEF Publish, journalVars
<1>8. CASE HostSyncs \/ HostRecovers \/ HostRecoveryFails
  BY <1>8 DEF HostSyncs, HostRecovers, HostRecoveryFails, SyncCall, Recover,
     RecoverFails, publication, editVars
<1>9. CASE WorkerBegins \/ HostSyncReturns
  BY <1>9 DEF WorkerBegins, HostSyncReturns, SyncCall, SyncOk, SyncUncertain,
     editVars, publication
<1>10. CASE WorkerReplies \/ WorkerRefuses
  <2>1. pc[Worker] # "idle" /\ queue' = Tail(queue) /\ UNCHANGED <<issued, staged>>
    BY <1>10 DEF WorkerReplies, WorkerRefuses, SyncOk, SyncUncertain, publication
  <2> QED
    BY <2>1 DEF EditInv, WorkerRunsFirst
<1>11. ASSUME NEW c \in Callers, SyncRuns(c) \/ WriteReported(c)
       PROVE  UNCHANGED <<issued, staged, queue>>
  BY <1>11 DEF SyncRuns, WriteReported, SyncWait, SyncTake, WriteRename, WriteOk,
     WriteFails, Reported, editVars, publication
<1>12. ASSUME NEW c \in Callers, Release(c)
       PROVE  UNCHANGED <<issued, queue>>
  BY <1>12 DEF Release, journalVars
<1>13. CASE UNCHANGED vars
  BY <1>13 DEF vars, journalVars, editVars, publication
<1> QED
  BY <1>1, <1>2, <1>3, <1>4, <1>5, <1>6, <1>7, <1>8, <1>9, <1>10, <1>11, <1>12, <1>13
     DEF Next, HostStep, ThreadStep

\* Inventories are staged in the order of their revisions, and no step reorders
\* them.
LEMMA StagedInOrderInductive == TypeOK /\ EditInv /\ [Next]_vars => StagedInOrder'
<1> SUFFICES ASSUME TypeOK, EditInv, [Next]_vars
             PROVE  StagedInOrder'
  OBVIOUS
<1> DEFINE before(r, q) == \/ r.epoch < q.epoch
                           \/ r.epoch = q.epoch /\ r.number <= q.number
<1>1. CASE ServerRestarts
  BY <1>1 DEF ServerRestarts, StagedInOrder
<1>2. CASE ~ServerRestarts
  <2>1. issued \subseteq issued'
    BY <1>2, StepFrames
  <2>2. \A i \in DOMAIN queue : queue[i].rev \in issued
    BY DEF EditInv, StagedInOrder
  <2>3. \A i \in DOMAIN queue' : queue'[i].rev \in issued'
    <3>1. CASE queue' = queue
      BY <2>1, <2>2, <3>1
    <3>2. CASE queue # <<>> /\ queue' = Tail(queue)
      <4>1. \A i \in DOMAIN queue' : i + 1 \in DOMAIN queue /\ queue'[i] = queue[i + 1]
        BY <3>2 DEF TypeOK
      <4> QED
        BY <2>1, <2>2, <4>1
    <3>3. ASSUME NEW j \in Job, j.rev \in issued', queue' = Append(queue, j)
          PROVE  \A i \in DOMAIN queue' : queue'[i].rev \in issued'
      <4>1. \A i \in DOMAIN queue' : (i \in DOMAIN queue /\ queue'[i] = queue[i])
                                     \/ queue'[i] = j
        BY <3>3 DEF TypeOK
      <4> QED
        BY <2>1, <2>2, <3>3, <4>1
    <3>4. ASSUME NEW client \in Clients, Unsubscribe(client)
          PROVE  \A i \in DOMAIN queue' : queue'[i].rev \in issued'
      <4>1. \A i \in DOMAIN queue : queue[i] \in Job
        BY DEF TypeOK
      <4>2. \A i \in DOMAIN queue' : i \in DOMAIN queue
                                     /\ queue'[i].rev = queue[i].rev
        BY <3>4, <4>1 DEF Unsubscribe, Job
      <4> QED
        BY <2>1, <2>2, <4>2
    <3> QED
      BY <1>2, <3>1, <3>2, <3>3, <3>4, StepFrames
  <2>4. /\ \A i \in DOMAIN staged : staged[i].rev \in issued
        /\ \A i, j \in DOMAIN staged : i < j => before(staged[i].rev, staged[j].rev)
    BY DEF EditInv, StagedInOrder
  <2>5. /\ \A i \in DOMAIN staged' : staged'[i].rev \in issued'
        /\ \A i, j \in DOMAIN staged' :
              i < j => before(staged'[i].rev, staged'[j].rev)
    <3>1. CASE staged' = staged
      BY <2>1, <2>4, <3>1
    <3>2. CASE Stage /\ UNCHANGED journalVars
      <4> DEFINE s == [rev |-> Latest, devices |-> subscribed]
      <4>1. s.rev = Latest /\ Latest \in issued
        BY DEF EditInv, RevisionsNest
      <4>2. ASSUME NEW i \in DOMAIN staged
            PROVE  before(staged[i].rev, s.rev)
        <5>1. staged[i].rev \in issued /\ staged[i].rev \in Revision
          BY <2>4 DEF TypeOK, JournalTypeOK
        <5>2. /\ staged[i].rev.epoch <= epoch
              /\ staged[i].rev.epoch = epoch => staged[i].rev.number <= submitted
          BY <5>1 DEF EditInv, JournalInv, IssuedInOrder
        <5>3. staged[i].rev.epoch \in Nat /\ epoch \in Nat
          BY <5>1 DEF Revision, TypeOK, JournalTypeOK
        <5> QED
          BY <4>1, <5>2, <5>3 DEF Latest
      <4> HIDE DEF s, before
      <4>3. CASE staged' = Append(staged, s)
        <5>1. /\ Len(staged) \in Nat /\ DOMAIN staged = 1..Len(staged)
              /\ DOMAIN staged' = 1..(Len(staged) + 1)
              /\ staged'[Len(staged) + 1] = s
              /\ \A i \in DOMAIN staged : staged'[i] = staged[i]
          BY <4>3 DEF TypeOK
        <5>2. \A i \in DOMAIN staged' : i \in DOMAIN staged \/ i = Len(staged) + 1
          BY <5>1
        <5>3. ASSUME NEW i \in DOMAIN staged', NEW j \in DOMAIN staged', i < j
              PROVE  before(staged'[i].rev, staged'[j].rev)
          <6>1. i \in DOMAIN staged
            BY <5>1, <5>3
          <6>2. CASE j \in DOMAIN staged
            BY <2>4, <5>1, <5>3, <6>1, <6>2
          <6>3. CASE j = Len(staged) + 1
            BY <4>2, <5>1, <6>1, <6>3
          <6> QED
            BY <5>2, <5>3, <6>2, <6>3
        <5> QED
          BY <2>1, <2>4, <4>1, <5>1, <5>2, <5>3
      <4>4. CASE staged' = <<>>
        BY <4>4
      <4>5. CASE staged' = staged
        BY <2>1, <2>4, <4>5
      <4> QED
        BY <3>2, <4>3, <4>4, <4>5, StageShape DEF s, publication
    <3>3. ASSUME NEW c \in Callers, Release(c)
          PROVE  /\ \A i \in DOMAIN staged' : staged'[i].rev \in issued'
                 /\ \A i, j \in DOMAIN staged' :
                       i < j => before(staged'[i].rev, staged'[j].rev)
      <4>1. PICK n \in 0..Len(staged) : staged' = SubSeq(staged, n + 1, Len(staged))
        BY <3>3, ReleaseShape
      <4>2. \A i \in DOMAIN staged' : i \in Nat /\ n + i \in DOMAIN staged
                                      /\ staged'[i] = staged[n + i]
        BY <4>1 DEF TypeOK
      <4> HIDE DEF before
      <4>3. \A i, j \in DOMAIN staged' : i < j => n + i < n + j
        BY <4>1, <4>2
      <4> QED
        BY <2>1, <2>4, <4>2, <4>3
    <3> HIDE DEF before
    <3> QED
      BY <1>2, <3>1, <3>2, <3>3, StepFrames
  <2> QED
    BY <2>3, <2>5 DEF StagedInOrder
<1> QED
  BY <1>1, <1>2

\* The write's callback releases every inventory the write covers before anybody
\* can read that it is durable.
LEMMA ReleasedInTimeInductive == TypeOK /\ EditInv /\ [Next]_vars => ReleasedInTime'
<1> SUFFICES ASSUME TypeOK, EditInv, [Next]_vars
             PROVE  ReleasedInTime'
  OBVIOUS
<1> USE EditHostAssumption
<1>0. ReleasedInTime
  BY DEF EditInv
<1>1. \A i \in DOMAIN staged :
         /\ staged[i].rev.epoch \in Nat /\ staged[i].rev.number \in Nat
         /\ staged[i].rev.epoch <= epoch
  <2>1. \A i \in DOMAIN staged : staged[i].rev \in issued
    BY DEF EditInv, StagedInOrder
  <2> QED
    BY <2>1 DEF EditInv, JournalInv, IssuedInOrder, TypeOK, JournalTypeOK, Revision
<1>2. epoch \in Nat /\ durable \in Nat /\ submitted \in Nat
  BY DEF TypeOK, JournalTypeOK
<1>3. CASE UNCHANGED <<callback, reporting, durable, epoch, staged>>
  BY <1>0, <1>3 DEF ReleasedInTime, Covered
<1>4. CASE Stage /\ UNCHANGED <<journalVars, callback>>
  <2>1. UNCHANGED <<callback, reporting, durable, epoch>>
    BY <1>4 DEF journalVars, progress
  <2>2. CASE staged' = staged
    BY <1>3, <2>1, <2>2
  <2>3. CASE staged' = <<>>
    BY <1>0, <2>1, <2>3 DEF ReleasedInTime
  <2>4. CASE /\ ~Retained(Latest)
             /\ staged' = Append(staged, [rev |-> Latest, devices |-> subscribed])
    <3> DEFINE s == [rev |-> Latest, devices |-> subscribed]
    <3>1. ~Covered(s)
      BY <2>4 DEF Covered, Retained, Latest
    <3>2. \A i \in DOMAIN staged' : (i \in DOMAIN staged /\ staged'[i] = staged[i])
                                    \/ staged'[i] = s
      <4> HIDE DEF s
      <4>1. staged' = Append(staged, s)
        BY <2>4 DEF s
      <4> QED
        BY <4>1 DEF TypeOK
    <3> HIDE DEF s
    <3> QED
      BY <1>0, <2>1, <3>1, <3>2 DEF ReleasedInTime, Covered
  <2> QED
    BY <1>4, <2>2, <2>3, <2>4, StageShape DEF publication
<1>5. ASSUME NEW c \in Callers, Release(c)
      PROVE  ReleasedInTime'
  <2>1. PICK n \in 0..Len(staged) :
           /\ staged' = SubSeq(staged, n + 1, Len(staged))
           /\ n < Len(staged) => ~Covered(staged[n + 1]) /\ ~Lost(staged[n + 1])
    BY <1>5, ReleaseShape
  <2>2. reporting' /\ UNCHANGED <<durable, epoch>>
    BY <1>5 DEF Release, journalVars, progress, EditInv, JournalInv, OneWriter
  <2>3. /\ Len(staged) \in Nat /\ DOMAIN staged = 1..Len(staged)
        /\ \A i \in DOMAIN staged' : i \in Nat \ {0} /\ n + i \in DOMAIN staged
                                      /\ staged'[i] = staged[n + i]
    BY <2>1 DEF TypeOK
  <2>4. ASSUME NEW i \in DOMAIN staged'
        PROVE  ~Covered(staged'[i])
    <3>1. n + 1 \in DOMAIN staged /\ n < Len(staged)
      BY <2>3
    <3>2. /\ staged[n + 1].rev.epoch = epoch
          /\ staged[n + 1].rev.number > durable
      <4>1. ~Covered(staged[n + 1]) /\ ~Lost(staged[n + 1])
        BY <2>1, <3>1
      <4> QED
        BY <1>1, <1>2, <3>1, <4>1 DEF Covered, Lost
    <3>3. CASE i = 1
      BY <2>1, <2>3, <3>1, <3>3
    <3>4. CASE i # 1
      <4>1. n + 1 < n + i /\ n + i \in DOMAIN staged
        BY <2>3, <3>4
      <4>2. \/ staged[n + 1].rev.epoch < staged[n + i].rev.epoch
            \/ staged[n + 1].rev.number <= staged[n + i].rev.number
        BY <3>1, <4>1 DEF EditInv, StagedInOrder
      <4> QED
        BY <1>1, <1>2, <2>3, <3>1, <3>2, <4>1, <4>2 DEF Covered
    <3> QED
      BY <3>3, <3>4
  <2> QED
    BY <2>2, <2>4 DEF ReleasedInTime, Covered
<1>6. ASSUME NEW c \in Callers, WriteReported(c)
      PROVE  ReleasedInTime'
  BY <1>0, <1>6 DEF WriteReported, Reported, publication, ReleasedInTime, Covered
<1>7. ASSUME NEW c \in Callers, SyncRuns(c)
      PROVE  ReleasedInTime'
  <2>1. CASE WriteOk(c)
    <3>1. writing /\ ~reporting
      BY <2>1 DEF WriteOk, EditInv, JournalInv, OneWriter, Writing
    <3>2. ~callback /\ callback' = callback /\ reporting'
      BY <1>0, <1>7, <2>1, <3>1 DEF WriteOk, SyncRuns, editVars, ReleasedInTime
    <3> QED
      BY <3>2 DEF ReleasedInTime
  <2>2. CASE ~WriteOk(c)
    BY <1>3, <1>7, <2>2 DEF SyncRuns, SyncWait, SyncTake, WriteRename, WriteFails,
       progress, editVars, publication
  <2> QED
    BY <2>1, <2>2
<1>8. CASE HostRecovers
  <2>1. UNCHANGED <<callback, reporting, staged>> /\ epoch' = epoch + 1
    BY <1>8 DEF HostRecovers, Recover, editVars, publication
  <2> QED
    BY <1>0, <1>1, <1>2, <2>1 DEF ReleasedInTime, Covered
<1>9. CASE ServerRestarts
  BY <1>9 DEF ServerRestarts, ReleasedInTime
<1>10. CASE \/ \E client \in Clients :
                  \/ Subscribe(client) \/ Unsubscribe(client) \/ Acknowledge(client)
                  \/ \E commit \in org \cup {0} : EditBegins(client, commit)
            \/ \E kind \in Kinds : EditCommits(kind)
            \/ EditReplays \/ EditRefused \/ CommitRetained
  <2>1. UNCHANGED <<callback, reporting, durable, epoch, staged>>
    BY <1>10 DEF Subscribe, Unsubscribe, Acknowledge, EditBegins, EditCommits,
       EditReplays, EditRefused, CommitRetained, CommitAs, Commit, Submit,
       journalVars, progress, publication
  <2> QED
    BY <1>3, <2>1
<1>11. CASE \/ HostSyncs \/ TickEnds \/ TickCommits \/ HostRecoveryFails
            \/ WorkerBegins \/ WorkerReplies \/ WorkerRefuses \/ HostSyncReturns
            \/ UNCHANGED vars
  <2>1. UNCHANGED <<callback, reporting, durable, epoch, staged>>
    BY <1>11 DEF HostSyncs, TickEnds, TickCommits, HostRecoveryFails, WorkerBegins,
       WorkerReplies, WorkerRefuses, HostSyncReturns, CommitAs, Commit, Submit,
       SyncCall, SyncOk, SyncUncertain, RecoverFails, journalVars, progress,
       publication, editVars, vars
  <2> QED
    BY <1>3, <2>1
<1>12. CASE EditEnds \/ Publish
  BY <1>4, <1>12 DEF EditEnds, Publish
<1> QED
  BY <1>5, <1>6, <1>7, <1>8, <1>9, <1>10, <1>11, <1>12
     DEF Next, HostStep, ThreadStep

\* Nothing but its own steps changes what the holder of the lock decided on: writes
\* and jobs run beside it, but leave the state and the connections alone.
LEMMA HostHoldsLockInductive == TypeOK /\ EditInv /\ [Next]_vars => HostHoldsLock'
<1> SUFFICES ASSUME TypeOK, EditInv, [Next]_vars
             PROVE  HostHoldsLock'
  OBVIOUS
<1> USE EditHostAssumption
<1>0. HostHoldsLock /\ (host = Free => host.at = "free")
  BY DEF EditInv, Free
<1>1. CASE UNCHANGED <<host, subscribed, org, log, epoch, submitted>>
  BY <1>0, <1>1 DEF HostHoldsLock, OwnEdit, Latest
<1>2. CASE host' = [at |-> "publish"] \/ host' = Free \/ host' = [at |-> "syncing"]
  BY <1>2 DEF HostHoldsLock, Free
<1>3. CASE host = Free /\ host' = host
  BY <1>3 DEF HostHoldsLock, Free
<1>4. ASSUME NEW client \in Clients, NEW commit \in org \cup {0},
             EditBegins(client, commit)
      PROVE  HostHoldsLock'
  <2>1. /\ host' = [at |-> "editing", client |-> client, commit |-> commit]
        /\ client \in subscribed'
        /\ commit # 0 => /\ commit \in org' /\ log'[commit].by = client
                         /\ log'[commit].kind # "acknowledgement"
    BY <1>4 DEF EditBegins, journalVars, publication
  <2> QED
    BY <2>1 DEF HostHoldsLock, OwnEdit
<1>5. ASSUME NEW kind \in Kinds \ {"acknowledgement"}, EditCommits(kind)
      PROVE  HostHoldsLock'
  <2> DEFINE r == [epoch |-> epoch, number |-> submitted + 1, org |-> org']
             j == [rev |-> r, commit |-> commits + 1, to |-> host.client]
  <2>1. host' = [at |-> "replying", job |-> j] /\ host.at = "editing"
    BY <1>5 DEF EditCommits
  <2>2. /\ Latest' = r /\ commits + 1 \in org'
        /\ log' = Append(log, [by |-> host.client, kind |-> kind])
        /\ subscribed' = subscribed
    BY <1>5 DEF EditCommits, CommitAs, Commit, Submit, Latest, publication
  <2>3. host.client \in subscribed
    BY <1>0, <2>1 DEF HostHoldsLock
  <2>4. log'[commits + 1] = [by |-> host.client, kind |-> kind]
    <3> DEFINE e == [by |-> host.client, kind |-> kind]
    <3>1. log' = Append(log, e) /\ Len(log) = commits
          /\ log \in Seq([by: Clients \cup {Server}, kind: Kinds])
      BY <2>2 DEF TypeOK
    <3> HIDE DEF e
    <3>2. log'[commits + 1] = e
      BY <3>1
    <3> QED
      BY <3>2 DEF e
  <2>5. /\ host'.at = "replying" /\ host'.job.rev = r /\ host'.job.to = host.client
        /\ host'.job.commit = commits + 1
    BY <2>1
  <2>6. OwnEdit(host.job.to, host.job.commit)'
    BY <2>4, <2>5 DEF OwnEdit
  <2> HIDE DEF j, r
  <2> QED
    BY <2>2, <2>3, <2>5, <2>6 DEF HostHoldsLock
<1>6. CASE EditReplays
  <2> DEFINE j == [rev |-> Latest, commit |-> host.commit, to |-> host.client]
  <2>1. host' = [at |-> "replying", job |-> j] /\ host.at = "editing"
        /\ host.commit # 0 /\ UNCHANGED <<subscribed, org, log, epoch, submitted>>
    BY <1>6 DEF EditReplays, journalVars, progress, publication
  <2>2. /\ host.client \in subscribed /\ host.commit \in org
        /\ OwnEdit(host.client, host.commit)
    BY <1>0, <2>1 DEF HostHoldsLock
  <2>3. /\ host'.at = "replying" /\ host'.job.rev = Latest
        /\ host'.job.to = host.client /\ host'.job.commit = host.commit
    BY <2>1
  <2> QED
    BY <2>1, <2>2, <2>3 DEF HostHoldsLock, OwnEdit, Latest
<1>7. ASSUME NEW client \in Clients, Subscribe(client)
      PROVE  HostHoldsLock'
  BY <1>2, <1>7 DEF Subscribe
<1>8. ASSUME NEW client \in Clients, Unsubscribe(client) \/ Acknowledge(client)
      PROVE  HostHoldsLock'
  BY <1>3, <1>8 DEF Unsubscribe, Acknowledge, TakeLock
<1>9. CASE \/ EditRefused \/ EditEnds \/ CommitRetained \/ HostSyncs \/ TickEnds
           \/ TickCommits \/ Publish \/ HostRecoveryFails \/ ServerRestarts
  BY <1>2, <1>9 DEF EditRefused, EditEnds, CommitRetained, HostSyncs, TickEnds,
     TickCommits, Publish, HostRecoveryFails, ServerRestarts
<1>10. CASE HostRecovers
  BY <1>3, <1>10 DEF HostRecovers, editVars
<1>11. CASE WorkerBegins \/ WorkerReplies \/ WorkerRefuses \/ HostSyncReturns
            \/ UNCHANGED vars
  <2>1. UNCHANGED <<host, subscribed, org, log, epoch, submitted>>
    BY <1>11 DEF WorkerBegins, WorkerReplies, WorkerRefuses, HostSyncReturns,
       SyncCall, SyncOk, SyncUncertain, editVars, publication, progress,
       journalVars, vars
  <2> QED
    BY <1>1, <2>1
<1>12. ASSUME NEW c \in Callers, ThreadStep(c)
       PROVE  HostHoldsLock'
  <2>1. UNCHANGED <<host, subscribed, org, log, epoch, submitted>>
    BY <1>12 DEF ThreadStep, SyncRuns, Release, WriteReported, SyncWait, SyncTake,
       WriteRename, WriteOk, WriteFails, Reported, editVars, publication, progress,
       journalVars
  <2> QED
    BY <1>1, <2>1
<1> QED
  BY <1>4, <1>5, <1>6, <1>7, <1>8, <1>9, <1>10, <1>11, <1>12 DEF Next, HostStep

\* The worker syncs the revision of its first job: jobs are added behind it, and a
\* connection that leaves only redirects their replies.
LEMMA WorkerRunsFirstInductive ==
    TypeOK /\ EditInv /\ [Next]_vars => WorkerRunsFirst'
<1> SUFFICES ASSUME TypeOK, EditInv, [Next]_vars, pc'[Worker] # "idle"
             PROVE  queue' # <<>> /\ rev'[Worker] = Head(queue').rev
  BY DEF WorkerRunsFirst
<1> USE EditHostAssumption
<1>0. /\ pc[Worker] # "idle" => queue # <<>> /\ rev[Worker] = Head(queue).rev
      /\ queue \in Seq(Job)
      /\ pc \in [Callers -> PC] /\ rev \in [Callers -> Revision]
  BY DEF EditInv, WorkerRunsFirst, TypeOK, JournalTypeOK
<1>1. CASE WorkerBegins
  BY <1>0, <1>1 DEF WorkerBegins, SyncCall, editVars
<1>2. CASE WorkerReplies \/ WorkerRefuses
  BY <1>0, <1>2 DEF WorkerReplies, WorkerRefuses, SyncOk, SyncUncertain
<1>3. CASE ServerRestarts
  BY <1>3 DEF ServerRestarts, Restart
<1>4. ASSUME pc[Worker] # "idle", rev'[Worker] = rev[Worker],
             \/ queue' = queue
             \/ \E j : queue' = Append(queue, j)
      PROVE  queue' # <<>> /\ rev'[Worker] = Head(queue').rev
  <2>1. queue # <<>> /\ rev'[Worker] = Head(queue).rev
    BY <1>0, <1>4
  <2>2. ASSUME NEW j, queue' = Append(queue, j)
        PROVE  queue' # <<>> /\ Head(queue') = Head(queue)
    BY <1>0, <2>1, <2>2
  <2> QED
    BY <1>4, <2>1, <2>2
<1>5. ASSUME NEW client \in Clients, Unsubscribe(client)
      PROVE  queue' # <<>> /\ rev'[Worker] = Head(queue').rev
  <2>1. UNCHANGED <<pc, rev>> /\ DOMAIN queue' = DOMAIN queue /\ queue' \in Seq(Job)
    <3>1. TypeOK'
      BY EditTypeInductive
    <3> QED
      BY <1>5, <3>1 DEF Unsubscribe, journalVars, callers, TypeOK
  <2>2. queue # <<>> /\ rev[Worker] = Head(queue).rev
    BY <1>0, <2>1
  <2>3. 1 \in DOMAIN queue /\ Head(queue) = queue[1] /\ queue[1] \in Job
    BY <1>0, <2>2
  <2>4. queue'[1].rev = queue[1].rev
    BY <1>5, <2>3 DEF Unsubscribe, Job
  <2>5. queue' # <<>> /\ Head(queue') = queue'[1]
    BY <2>1, <2>3
  <2> QED
    BY <2>1, <2>2, <2>3, <2>4, <2>5
<1>6. ASSUME NEW c \in Callers, ThreadStep(c)
      PROVE  queue' # <<>> /\ rev'[Worker] = Head(queue').rev
  <2>1. rev' = rev /\ queue' = queue
    BY <1>6 DEF ThreadStep, SyncRuns, Release, WriteReported, SyncWait, SyncTake,
       WriteRename, WriteOk, WriteFails, Reported, editVars, journalVars, callers
  <2>2. \A d \in Callers : pc'[d] # "idle" => pc[d] # "idle"
    BY <1>0, <1>6 DEF ThreadStep, SyncRuns, Release, WriteReported, SyncWait,
       SyncTake, WriteRename, WriteOk, WriteFails, Reported, NotifyAll, journalVars,
       callers
  <2> QED
    BY <1>4, <2>1, <2>2
<1>7. CASE HostSyncs \/ HostSyncReturns
  BY <1>0, <1>4, <1>7 DEF HostSyncs, HostSyncReturns, SyncCall, SyncOk,
     SyncUncertain, editVars
<1>8. CASE \/ \E client \in Clients :
                 \/ Subscribe(client) \/ Acknowledge(client)
                 \/ \E commit \in org \cup {0} : EditBegins(client, commit)
           \/ \E kind \in Kinds : EditCommits(kind)
           \/ EditReplays \/ EditRefused \/ EditEnds \/ CommitRetained \/ TickEnds
           \/ TickCommits \/ Publish \/ HostRecovers \/ HostRecoveryFails
           \/ UNCHANGED vars
  <2>1. UNCHANGED <<pc, rev>>
    BY <1>8 DEF Subscribe, Acknowledge, EditBegins, EditCommits, EditReplays,
       EditRefused, EditEnds, CommitRetained, TickEnds, TickCommits, Publish,
       HostRecovers, HostRecoveryFails, CommitAs, Commit, Recover, RecoverFails,
       journalVars, callers, vars
  <2>2. queue' = queue \/ \E j : queue' = Append(queue, j)
    BY <1>8 DEF Subscribe, Acknowledge, EditBegins, EditCommits, EditReplays,
       EditRefused, EditEnds, CommitRetained, TickEnds, TickCommits, Publish,
       HostRecovers, HostRecoveryFails, Enqueue, editVars, vars
  <2> QED
    BY <1>4, <2>1, <2>2
<1> QED
  BY <1>1, <1>2, <1>3, <1>5, <1>6, <1>7, <1>8 DEF Next, HostStep

\* A tick ends the processes of deletions only when the whole state is on disk, and
\* the disk never takes it back.
LEMMA EndedOnlyWhenStableInductive ==
    TypeOK /\ EditInv /\ [Next]_vars => EndedOnlyWhenStable'
<1> SUFFICES ASSUME TypeOK, EditInv, [Next]_vars
             PROVE  EndedOnlyWhenStable'
  OBVIOUS
<1> USE EditHostAssumption
<1>1. stable \subseteq stable' /\ killed \subseteq stable
  BY EditStepIsJournalStep, RecordGrows DEF EditInv, TypeOK, EndedOnlyWhenStable
<1>2. Settled => org \subseteq stable
  <2> SUFFICES ASSUME Settled
               PROVE  org \subseteq stable
    OBVIOUS
  <2>1. durable = submitted /\ submitted \in Nat
    BY DEF Settled, EditInv, JournalInv, PendingIsNewest, TypeOK, JournalTypeOK
  <2>2. Retained(Latest) /\ Latest \in issued
    BY <2>1 DEF Retained, Latest, EditInv, RevisionsNest
  <2> QED
    BY <2>2 DEF EditInv, JournalInv, IssuedInOrder, Latest
<1>3. CASE TickEnds \/ TickCommits
  BY <1>1, <1>2, <1>3 DEF TickEnds, TickCommits, Deletions, EndedOnlyWhenStable
<1>4. CASE ~TickEnds /\ ~TickCommits
  <2>1. killed' = killed
    BY <1>4 DEF Next, HostStep, ThreadStep, Subscribe, Unsubscribe, EditBegins,
       Acknowledge, EditCommits, EditReplays, EditRefused, EditEnds, CommitRetained,
       HostSyncs, Publish, HostRecovers, HostRecoveryFails, WorkerBegins,
       WorkerReplies, WorkerRefuses, HostSyncReturns, SyncRuns, Release,
       WriteReported, ServerRestarts, editVars, vars
  <2> QED
    BY <1>1, <2>1 DEF EndedOnlyWhenStable
<1> QED
  BY <1>3, <1>4

-----------------------------------------------------------------------------
(* What every connection was shown.                                        *)

\* State::push moves a connection from the organization it was shown to the staged
\* one, or leaves it: then it has every edit of its own that the staged one holds.
LEMMA PushShows ==
    ASSUME TypeOK, NEW s \in Staged, NEW c \in Clients, NEW o \in SUBSET s.rev.org,
           ShownAs(c, o), Push(s, subscribed), log' = log
    PROVE  \E p \in {o, s.rev.org} :
              /\ ShownAs(c, p)'
              /\ c \in subscribed \cap s.devices =>
                    \A k \in s.rev.org : OwnEdit(c, k) => k \in p
              /\ c \notin subscribed => view'[c] = view[c]
<1> DEFINE q == s.rev.org
           next == NextSequence(c, q)
           moved == /\ c \in subscribed \cap s.devices
                    /\ Inventory(q) # published \/ view[c].next # next
<1>1. q \in SUBSET (1..MaxCommits) /\ MaxCommits \in Nat
  BY JournalAssumption DEF Staged, Revision, Organization
<1>2. view'[c] = IF moved THEN [inventory |-> Inventory(q), next |-> next]
                 ELSE view[c]
  BY DEF Push
<1>3. \A x : (Inventory(x)' = Inventory(x)
             /\ NextSequence(c, x)' = NextSequence(c, x))
  BY DEF Inventory, NextSequence
<1>4. CASE moved
  <2>1. ShownAs(c, q)'
    BY <1>2, <1>3, <1>4 DEF ShownAs
  <2> QED
    BY <1>4, <2>1
<1>5. CASE ~moved
  <2>1. view'[c] = view[c]
    BY <1>2, <1>5
  <2>2. ShownAs(c, o)'
    BY <1>3, <2>1 DEF ShownAs, NoView
  <2>3. ASSUME c \in subscribed \cap s.devices
        PROVE  \A k \in q : OwnEdit(c, k) => k \in o
    <3>1. view[c].next = next
      BY <1>5, <2>3
    <3>2. /\ NextSequence(c, o) = next => \A k \in q : OwnEdit(c, k) => k \in o
          /\ next \in Nat /\ next > 0
      BY <1>1, EditsCounted
    <3>3. view[c] # NoView
      BY <3>1, <3>2 DEF NoView
    <3>4. view[c].next = NextSequence(c, o)
      BY <3>3 DEF ShownAs
    <3> QED
      BY <3>1, <3>2, <3>4
  <2> QED
    BY <2>1, <2>2, <2>3
<1> QED
  BY <1>4, <1>5

\* What a connection was shown stays an initial part of the state: a commit comes
\* after it, and a recovery keeps it.
LEMMA SegmentKept ==
    ASSUME TypeOK, EditInv, Commit \/ Recover \/ org' = org,
           NEW o \in SUBSET stable, Segment(o, org)
    PROVE  Segment(o, org')
<1>1. /\ org \subseteq 1..commits /\ commits \in Nat
      /\ stable \subseteq visible /\ visible \subseteq org
  BY DEF EditInv, JournalInv, RecordBehindState, TypeOK, JournalTypeOK
<1>2. CASE Commit
  <2>1. org' = org \cup {commits + 1}
    BY <1>2 DEF Commit
  <2>2. \A k \in o : k \in Nat /\ k <= commits
    BY <1>1
  <2> QED
    BY <1>1, <2>1, <2>2 DEF Segment
<1>3. CASE Recover
  BY <1>1, <1>3 DEF Recover, Segment
<1> QED
  BY <1>2, <1>3

\* A job that waits keeps waiting, and when a recovery ends its epoch it is lost:
\* all that the write covered was pushed before the failure.
LEMMA DeliveredKept ==
    ASSUME TypeOK, EditInv, Recover \/ UNCHANGED <<epoch, ended>>, staged' = staged,
           NEW j \in Job, j.rev \in issued, NEW o, Delivered(j, o)
    PROVE  Delivered(j, o)'
<1>1. /\ j.rev.epoch \in Nat /\ j.rev.number \in Nat /\ j.rev.epoch <= epoch
      /\ epoch \in Nat /\ durable \in Nat
  BY DEF EditInv, JournalInv, IssuedInOrder, TypeOK, JournalTypeOK, Revision
<1>2. CASE UNCHANGED <<epoch, ended>>
  BY <1>2 DEF Delivered, Waits, Retained
<1>3. CASE Recover
  <2>1. epoch' = epoch + 1 /\ ended' = EndEpoch /\ failed
    BY <1>3 DEF Recover
  <2>2. j.rev.epoch # epoch'
    BY <1>1, <2>1
  <2>3. CASE j.commit \in o
    BY <2>3 DEF Delivered
  <2>4. CASE j.rev.epoch = epoch /\ Waits(j)
    <3>1. PICK i \in DOMAIN staged : staged[i].rev = j.rev
      BY <2>4 DEF Waits
    <3>2. ~reporting
      BY <2>1 DEF EditInv, JournalInv, OneWriter
    <3>3. ~Covered(staged[i])
      BY <3>2 DEF EditInv, ReleasedInTime
    <3>4. ~(j.rev.number <= durable)
      BY <2>4, <3>1, <3>3 DEF Covered
    <3>5. j.rev.epoch \in DOMAIN ended' => ended'[j.rev.epoch] = durable
      BY <2>1, <2>4 DEF EndEpoch
    <3>6. ~Retained(j.rev)'
      BY <2>2, <3>4, <3>5 DEF Retained
    <3> QED
      BY <2>2, <3>6 DEF Delivered
  <2>5. CASE j.rev.epoch # epoch /\ ~Retained(j.rev)
    <3>1. j.rev.epoch \in DOMAIN ended' =>
             j.rev.epoch \in DOMAIN ended /\ ended'[j.rev.epoch] = ended[j.rev.epoch]
      BY <2>1, <2>5 DEF EndEpoch
    <3>2. ~Retained(j.rev)'
      BY <2>2, <2>5, <3>1 DEF Retained
    <3> QED
      BY <2>2, <3>2 DEF Delivered
  <2> QED
    BY <2>3, <2>4, <2>5 DEF Delivered
<1> QED
  BY <1>2, <1>3

\* A step that pushes nothing leaves a connection with what it was shown, whatever
\* else it commits, writes, recovers or answers.
LEMMA StillShown ==
    ASSUME TypeOK, EditInv, NEW c \in Clients, NEW o \in SUBSET stable, Shown(c, o),
           Commit \/ Recover \/ UNCHANGED <<org, epoch, ended>>,
           log' = log \/ \E e : log' = Append(log, e),
           view'[c] = view[c], c \in subscribed' <=> c \in subscribed,
           staged' = staged,
           \A k \in replied'[c] : k \in o /\ OwnEdit(c, k),
           c \notin subscribed => replied'[c] = {},
           \A i \in DOMAIN queue' : queue'[i].to = c =>
              \E n \in DOMAIN queue : queue[n] = queue'[i]
    PROVE  Shown(c, o)'
<1>1. o \in SUBSET (1..commits)
  BY DEF EditInv, JournalInv, RecordBehindState
<1>2. \A k \in 1..commits : OwnEdit(c, k)' <=> OwnEdit(c, k)
  <2>1. CASE log' = log
    BY <2>1 DEF OwnEdit
  <2>2. ASSUME NEW e, log' = Append(log, e)
        PROVE  \A k \in 1..commits : OwnEdit(c, k)' <=> OwnEdit(c, k)
    <3>1. \A k \in 1..commits : log'[k] = log[k]
      BY <2>2 DEF TypeOK
    <3> QED
      BY <3>1 DEF OwnEdit
  <2> QED
    BY <2>1, <2>2
<1>3. Inventory(o)' = Inventory(o) /\ NextSequence(c, o)' = NextSequence(c, o)
  <2>1. CASE log' = log
    BY <2>1 DEF Inventory, NextSequence
  <2>2. ASSUME NEW e, log' = Append(log, e)
        PROVE  Inventory(o)' = Inventory(o) /\ NextSequence(c, o)' = NextSequence(c, o)
    BY <1>1, <2>2, LogGrows
  <2> QED
    BY <2>1, <2>2
<1>4. ShownAs(c, o)'
  BY <1>3 DEF Shown, ShownAs, NoView
<1>5. Segment(o, org')
  BY SegmentKept DEF Shown
<1>6. c \notin subscribed' => view'[c] = NoView' /\ replied'[c] = {}
  BY DEF Shown, NoView
<1>7. replied'[c] \subseteq o /\ \A k \in replied'[c] : OwnEdit(c, k)'
  BY <1>1, <1>2
<1>8. \A i \in DOMAIN staged' :
         staged'[i].rev.epoch = epoch' => o \subseteq staged'[i].rev.org
  <2>1. CASE epoch' = epoch
    BY <2>1 DEF Shown
  <2>2. CASE Recover
    <3>1. \A i \in DOMAIN staged : staged[i].rev \in issued /\ staged[i].rev \in Revision
      BY DEF EditInv, StagedInOrder, TypeOK, JournalTypeOK
    <3>2. \A i \in DOMAIN staged : staged[i].rev.epoch # epoch + 1
      BY <3>1 DEF EditInv, JournalInv, IssuedInOrder, Revision, TypeOK, JournalTypeOK
    <3> QED
      BY <2>2, <3>2 DEF Recover
  <2>3. Commit => epoch' = epoch
    BY DEF Commit, Submit
  <2> QED
    BY <2>1, <2>2, <2>3
<1>9. Recover \/ UNCHANGED <<epoch, ended>>
  BY DEF Commit, Submit
<1>10. ASSUME NEW i \in DOMAIN queue', queue'[i].to = c
       PROVE  /\ c \in subscribed'
              /\ queue'[i].commit \in queue'[i].rev.org
              /\ OwnEdit(c, queue[i].commit)'
              /\ Delivered(queue[i], o)'
  <2>1. PICK n \in DOMAIN queue : queue[n] = queue'[i]
    BY <1>10
  <2>2. PICK j \in Job : j = queue[n]
    BY DEF TypeOK
  <2>3. /\ j.to = c /\ c \in subscribed /\ j.commit \in j.rev.org
        /\ OwnEdit(c, j.commit) /\ Delivered(j, o)
    BY <1>10, <2>1, <2>2 DEF Shown
  <2>4. j.rev \in issued /\ j.rev.org \subseteq 1..commits
    BY <2>2 DEF EditInv, StagedInOrder, RevisionsNest
  <2>5. Delivered(j, o)'
    BY <1>9, <2>3, <2>4, DeliveredKept
  <2>6. OwnEdit(c, j.commit)'
    BY <1>2, <2>3, <2>4
  <2>7. queue'[i] = j
    BY <2>1, <2>2
  <2>8. OwnEdit(c, queue[i].commit)'
    BY <2>6, <2>7 DEF OwnEdit
  <2>9. Delivered(queue[i], o)'
    BY <2>5, <2>7 DEF Delivered, Waits, Retained
  <2> QED
    BY <2>3, <2>7, <2>8, <2>9
<1> QED
  BY <1>4, <1>5, <1>6, <1>7, <1>8, <1>10 DEF Shown

\* A publication shows every connection what it pushes or stages, and the edit whose
\* reply is queued with it.
LEMMA StageShows ==
    ASSUME TypeOK, EditInv, Stage, UNCHANGED <<journalVars, log, replied>>,
           \/ queue' = queue
           \/ host.at = "replying" /\ queue' = Append(queue, host.job),
           NEW c \in Clients
    PROVE  \E o \in SUBSET stable' : Shown(c, o)'
<1>1. PICK o \in SUBSET stable : Shown(c, o)
  BY DEF EditInv, EveryoneIsShown
<1>2. UNCHANGED <<org, commits, epoch, ended, durable, submitted, stable, issued>>
  BY DEF journalVars, progress, record
<1>3. stable \subseteq org /\ org \subseteq 1..commits
  BY DEF EditInv, JournalInv, RecordBehindState
<1>4. \A i \in DOMAIN queue' : (i \in DOMAIN queue /\ queue'[i] = queue[i])
                               \/ (host.at = "replying" /\ queue'[i] = host.job)
  <2>1. CASE queue' = queue
    BY <2>1
  <2>2. CASE host.at = "replying" /\ queue' = Append(queue, host.job)
    BY <2>2 DEF TypeOK
  <2> QED
    BY <2>1, <2>2
<1>5. host.at = "replying" =>
         /\ host.job \in Job /\ host.job.rev = Latest /\ host.job.to \in subscribed
         /\ host.job.commit \in org /\ OwnEdit(host.job.to, host.job.commit)
  BY HostCases DEF EditInv, HostHoldsLock
<1>6. Latest.org = org /\ Latest.epoch = epoch /\ Latest \in issued
  BY DEF Latest, EditInv, RevisionsNest
<1>7. \A k : OwnEdit(c, k)' <=> OwnEdit(c, k)
  BY DEF OwnEdit
\* what a job of the connection is, before and after
<1>8. ASSUME NEW i \in DOMAIN queue', queue'[i].to = c
      PROVE  /\ c \in subscribed
             /\ queue'[i].commit \in queue'[i].rev.org
             /\ OwnEdit(c, queue'[i].commit)
             /\ queue'[i].rev \in issued
             /\ \/ Delivered(queue'[i], o)
                \/ queue'[i].rev = Latest
  <2>1. CASE i \in DOMAIN queue /\ queue'[i] = queue[i]
    BY <1>1, <1>8, <2>1 DEF Shown, EditInv, StagedInOrder
  <2>2. CASE host.at = "replying" /\ queue'[i] = host.job
    BY <1>5, <1>6, <1>8, <2>2
  <2> QED
    BY <1>4, <1>8, <2>1, <2>2
<1>9. CASE subscribed = {} /\ UNCHANGED publication
  <2>1. UNCHANGED <<subscribed, staged, view>>
    BY <1>9 DEF publication
  <2>2. \A i \in DOMAIN queue' : queue'[i].to # c
    BY <1>8, <1>9
  <2>3. Shown(c, o)'
    BY <1>1, <1>2, <2>1, <2>2, StillShown DEF Shown
  <2> QED
    BY <1>2, <2>3
<1>10. CASE /\ Retained(Latest) /\ staged' = <<>> /\ subscribed' = subscribed
            /\ Push([rev |-> Latest, devices |-> subscribed], subscribed)
  <2> DEFINE s == [rev |-> Latest, devices |-> subscribed]
  <2>1. s \in Staged /\ s.rev.org = org /\ s.devices = subscribed
    BY DEF Staged, Latest, Revision, TypeOK, JournalTypeOK
  <2>2. org \subseteq stable
    BY <1>6, <1>10 DEF EditInv, JournalInv, IssuedInOrder
  <2>3. Push(s, subscribed) /\ o \in SUBSET s.rev.org /\ ShownAs(c, o)
    BY <1>1, <1>3, <1>10, <2>1 DEF Shown
  <2> HIDE DEF s
  <2>4. PICK p \in {o, s.rev.org} :
           /\ ShownAs(c, p)'
           /\ c \in subscribed \cap s.devices =>
                 \A k \in s.rev.org : OwnEdit(c, k) => k \in p
           /\ c \notin subscribed => view'[c] = view[c]
    BY <2>1, <2>3, PushShows
  <2>5. o \subseteq p /\ p \subseteq stable'
    BY <1>2, <1>3, <2>1, <2>2
  <2>6. Segment(p, org')
    BY <1>1, <1>2, <2>1 DEF Shown, Segment
  <2>7. c \notin subscribed' => view'[c] = NoView' /\ replied'[c] = {}
    BY <1>1, <1>10, <2>4 DEF Shown, NoView
  <2>8. replied'[c] \subseteq p /\ \A k \in replied'[c] : OwnEdit(c, k)'
    BY <1>1, <1>7, <2>5 DEF Shown
  <2>9. ASSUME NEW i \in DOMAIN queue', queue'[i].to = c
        PROVE  /\ c \in subscribed'
               /\ queue'[i].commit \in queue'[i].rev.org
               /\ OwnEdit(c, queue[i].commit)'
               /\ Delivered(queue[i], p)'
    <3>1. \A k \in org : OwnEdit(c, k) => k \in p
      BY <1>8, <2>1, <2>4, <2>9
    <3>2. CASE queue'[i].rev.epoch = epoch
      <4>1. queue'[i].rev.org \subseteq org
        BY <1>8, <2>9, <3>2 DEF EditInv, RevisionsNest, Segment
      <4>2. queue'[i].commit \in p
        BY <1>8, <2>9, <3>1, <4>1
      <4>3. Delivered(queue[i], p)'
        BY <4>2 DEF Delivered
      <4> QED
        BY <1>8, <1>10, <2>9, <4>3 DEF OwnEdit
    <3>3. CASE queue'[i].rev.epoch # epoch
      <4>1. queue'[i].commit \in o \/ ~Retained(queue'[i].rev)
        BY <1>6, <1>8, <2>9, <3>3 DEF Delivered
      <4>2. Delivered(queue[i], p)'
        BY <1>2, <2>5, <3>3, <4>1 DEF Delivered, Retained
      <4> QED
        BY <1>8, <1>10, <2>9, <4>2 DEF OwnEdit
    <3> QED
      BY <3>2, <3>3
  <2>10. Shown(c, p)'
    BY <1>10, <2>4, <2>6, <2>7, <2>8, <2>9 DEF Shown
  <2> QED
    BY <2>5, <2>10
<1>11. CASE /\ ~Retained(Latest) /\ UNCHANGED <<subscribed, published, view>>
            /\ staged' = Append(staged, [rev |-> Latest, devices |-> subscribed])
  <2> DEFINE s == [rev |-> Latest, devices |-> subscribed]
  <2>1. s.rev = Latest /\ s.devices = subscribed
    OBVIOUS
  <2> HIDE DEF s
  <2>2. /\ Len(staged) \in Nat /\ DOMAIN staged = 1..Len(staged)
        /\ DOMAIN staged' = 1..(Len(staged) + 1) /\ Len(staged') = Len(staged) + 1
        /\ staged'[Len(staged) + 1] = s
        /\ \A i \in DOMAIN staged : staged'[i] = staged[i]
    <3>1. staged' = Append(staged, s) /\ staged \in Seq(Staged)
      BY <1>11 DEF s, TypeOK
    <3> QED
      BY <3>1
  <2>3. \A i \in DOMAIN staged' : i \in DOMAIN staged \/ i = Len(staged) + 1
    BY <2>2
  <2>4. \A i \in DOMAIN staged' :
           staged'[i].rev.epoch = epoch' => o \subseteq staged'[i].rev.org
    <3>1. \A i \in DOMAIN staged : staged[i].rev.epoch = epoch
                                     => o \subseteq staged[i].rev.org
      BY <1>1 DEF Shown
    <3> QED
      BY <1>2, <1>3, <1>6, <2>1, <2>2, <2>3, <3>1
  <2>5. ASSUME NEW i \in DOMAIN queue', queue'[i].to = c
        PROVE  /\ c \in subscribed'
               /\ queue'[i].commit \in queue'[i].rev.org
               /\ OwnEdit(c, queue[i].commit)'
               /\ Delivered(queue[i], o)'
    <3>1. CASE queue'[i].rev = Latest
      <4>1. \A n \in (Len(staged) + 1)..Len(staged') : staged'[n] = s
        BY <2>2
      <4>2. /\ Len(staged) + 1 \in DOMAIN staged'
            /\ staged'[Len(staged) + 1].rev = queue'[i].rev
        BY <2>1, <2>2, <3>1
      <4>3. Waits(queue[i])'
        BY <1>8, <2>1, <2>5, <4>1, <4>2 DEF Waits
      <4>4. Delivered(queue[i], o)'
        BY <1>2, <1>6, <3>1, <4>3 DEF Delivered
      <4> QED
        BY <1>8, <1>11, <2>5, <4>4 DEF OwnEdit
    <3>2. CASE queue'[i].commit \in o
      <4>1. Delivered(queue[i], o)'
        BY <3>2 DEF Delivered
      <4> QED
        BY <1>8, <1>11, <2>5, <4>1 DEF OwnEdit
    <3>3. CASE queue'[i].rev.epoch = epoch /\ Waits(queue'[i])
      <4>1. PICK n \in DOMAIN staged :
               /\ staged[n].rev = queue'[i].rev
               /\ \A m \in n..Len(staged) : queue'[i].to \in staged[m].devices
        BY <3>3 DEF Waits
      <4>2. ASSUME NEW m \in n..Len(staged')
            PROVE  queue'[i].to \in staged'[m].devices
        <5>1. m \in n..Len(staged) \/ m = Len(staged) + 1
          BY <2>2, <4>2
        <5>2. CASE m = Len(staged) + 1
          BY <1>8, <2>1, <2>2, <2>5, <5>2
        <5>3. CASE m \in n..Len(staged)
          <6>1. m \in DOMAIN staged
            BY <2>2, <4>1, <5>3
          <6> QED
            BY <2>2, <4>1, <5>3, <6>1
        <5> QED
          BY <5>1, <5>2, <5>3
      <4>3. n \in DOMAIN staged' /\ staged'[n].rev = queue'[i].rev
        BY <2>2, <4>1
      <4>4. Waits(queue[i])'
        BY <4>2, <4>3 DEF Waits
      <4>5. Delivered(queue[i], o)'
        BY <1>2, <3>3, <4>4 DEF Delivered
      <4> QED
        BY <1>8, <1>11, <2>5, <4>5 DEF OwnEdit
    <3>4. CASE queue'[i].rev.epoch # epoch /\ ~Retained(queue'[i].rev)
      <4>1. Delivered(queue[i], o)'
        BY <1>2, <3>4 DEF Delivered, Retained
      <4> QED
        BY <1>8, <1>11, <2>5, <4>1 DEF OwnEdit
    <3> QED
      BY <1>8, <2>5, <3>1, <3>2, <3>3, <3>4 DEF Delivered
  <2>6. ShownAs(c, o)'
    <3>1. Inventory(o)' = Inventory(o) /\ NextSequence(c, o)' = NextSequence(c, o)
      BY DEF Inventory, NextSequence
    <3> QED
      BY <1>1, <1>11, <3>1 DEF Shown, ShownAs, NoView
  <2>7. Shown(c, o)'
    BY <1>1, <1>2, <1>7, <1>11, <2>4, <2>5, <2>6 DEF Shown, NoView
  <2> QED
    BY <1>2, <2>7
<1> QED
  BY <1>9, <1>10, <1>11, StageShape

\* The callback of a write shows every connection the newest covered inventory: no
\* job that waits for one of those that leave is passed over.
LEMMA ReleaseShows ==
    ASSUME TypeOK, EditInv, NEW d \in Callers, Release(d), NEW c \in Clients
    PROVE  \E o \in SUBSET stable' : Shown(c, o)'
<1>1. PICK o \in SUBSET stable : Shown(c, o)
  BY DEF EditInv, EveryoneIsShown
<1>2. /\ UNCHANGED <<org, commits, epoch, ended, durable, submitted, stable, issued>>
      /\ UNCHANGED <<log, subscribed, queue, replied>>
  BY DEF Release, journalVars, progress, record
<1>3. PICK n \in 0..Len(staged) :
         /\ staged' = SubSeq(staged, n + 1, Len(staged))
         /\ \A i \in 1..n : Covered(staged[i]) \/ Lost(staged[i])
         /\ \/ /\ \A i \in 1..n : ~Covered(staged[i])
               /\ UNCHANGED <<published, view>>
            \/ \E m \in 1..n :
                  /\ Covered(staged[m])
                  /\ \A i \in 1..n : Covered(staged[i]) => i <= m
                  /\ Push(staged[m], subscribed)
  BY ReleaseShape
<1>4. /\ Len(staged) \in Nat /\ DOMAIN staged = 1..Len(staged) /\ n \in Nat
      /\ Len(staged') = Len(staged) - n /\ DOMAIN staged' = 1..(Len(staged) - n)
      /\ \A i \in DOMAIN staged' : n + i \in DOMAIN staged
                                   /\ staged'[i] = staged[n + i]
  BY <1>3 DEF TypeOK
<1>5. \A i \in DOMAIN staged :
         /\ staged[i] \in Staged /\ staged[i].rev \in issued
         /\ staged[i].rev.epoch \in Nat /\ staged[i].rev.number \in Nat
  <2>1. \A i \in DOMAIN staged : staged[i] \in Staged /\ staged[i].rev \in issued
    BY DEF TypeOK, EditInv, StagedInOrder
  <2> QED
    BY <2>1 DEF Staged, Revision
<1>6. epoch \in Nat /\ durable \in Nat
  BY DEF TypeOK, JournalTypeOK
\* among the inventories of this epoch, a later one holds more
<1>7. ASSUME NEW i \in DOMAIN staged, NEW j \in DOMAIN staged, i <= j,
             staged[i].rev.epoch = epoch, staged[j].rev.epoch = epoch
      PROVE  staged[i].rev.org \subseteq staged[j].rev.org
  <2>1. CASE i = j
    BY <2>1
  <2>2. CASE i # j
    <3>1. i < j
      BY <1>4, <1>7, <2>2
    <3>2. staged[i].rev.number <= staged[j].rev.number
      BY <1>5, <1>6, <1>7, <3>1 DEF EditInv, StagedInOrder
    <3> QED
      BY <1>5, <1>7, <3>2 DEF EditInv, RevisionsNest
  <2> QED
    BY <2>1, <2>2
\* a job that waits for an inventory that stays still waits for it
<1>8. ASSUME NEW j \in Job, NEW i \in DOMAIN staged, n < i, staged[i].rev = j.rev,
             \A x \in i..Len(staged) : j.to \in staged[x].devices
      PROVE  Waits(j)'
  <2>1. i - n \in DOMAIN staged' /\ staged'[i - n] = staged[i]
    <3>1. i - n \in DOMAIN staged' /\ n + (i - n) = i
      BY <1>4, <1>8
    <3> QED
      BY <1>4, <3>1
  <2>2. ASSUME NEW x \in (i - n)..Len(staged')
        PROVE  j.to \in staged'[x].devices
    <3>1. x \in DOMAIN staged' /\ n + x \in i..Len(staged)
      BY <1>4, <1>8, <2>2
    <3> QED
      BY <1>4, <1>8, <3>1
  <2> QED
    BY <1>8, <2>1, <2>2 DEF Waits
<1>9. CASE /\ \A i \in 1..n : ~Covered(staged[i])
           /\ UNCHANGED <<published, view>>
  <2>1. ShownAs(c, o)'
    <3>1. Inventory(o)' = Inventory(o) /\ NextSequence(c, o)' = NextSequence(c, o)
      BY <1>2 DEF Inventory, NextSequence
    <3> QED
      BY <1>1, <1>9, <3>1 DEF Shown, ShownAs, NoView
  <2>2. \A i \in DOMAIN staged' :
           staged'[i].rev.epoch = epoch' => o \subseteq staged'[i].rev.org
    BY <1>1, <1>2, <1>4 DEF Shown
  <2>3. ASSUME NEW i \in DOMAIN queue, queue[i].to = c
        PROVE  Delivered(queue[i], o)'
    <3>1. PICK j \in Job : j = queue[i]
      BY DEF TypeOK
    <3>2. Delivered(j, o)
      BY <1>1, <2>3, <3>1 DEF Shown
    <3>3. CASE j.commit \in o
      BY <1>2, <3>1, <3>3 DEF Delivered
    <3>4. CASE j.rev.epoch = epoch /\ Waits(j)
      <4>1. PICK x \in DOMAIN staged :
               /\ staged[x].rev = j.rev
               /\ \A y \in x..Len(staged) : j.to \in staged[y].devices
        BY <3>4 DEF Waits
      <4>2. n < x
        <5>1. ~Lost(staged[x])
          BY <1>6, <3>4, <4>1 DEF Lost
        <5>2. x \notin 1..n
          BY <1>3, <1>9, <5>1
        <5> QED
          BY <1>4, <5>2
      <4>3. Waits(j)'
        BY <1>8, <4>1, <4>2
      <4>4. queue'[i] = j
        BY <1>2, <3>1
      <4> QED
        BY <1>2, <3>4, <4>3, <4>4 DEF Delivered, Waits
    <3>5. CASE j.rev.epoch # epoch /\ ~Retained(j.rev)
      BY <1>2, <3>1, <3>5 DEF Delivered, Retained
    <3> QED
      BY <3>2, <3>3, <3>4, <3>5 DEF Delivered
  <2>4. Shown(c, o)'
    BY <1>1, <1>2, <1>9, <2>1, <2>2, <2>3 DEF Shown, OwnEdit, NoView
  <2> QED
    BY <1>2, <2>4
<1>10. ASSUME NEW m \in 1..n, Covered(staged[m]),
              \A i \in 1..n : Covered(staged[i]) => i <= m,
              Push(staged[m], subscribed)
       PROVE  \E p \in SUBSET stable' : Shown(c, p)'
  <2> m \in DOMAIN staged
    BY <1>4
  <2>1. PICK s \in Staged : s = staged[m]
    BY <1>5
  <2>2. /\ m \in DOMAIN staged /\ s.rev \in issued
        /\ s.rev.epoch = epoch /\ s.rev.number <= durable
    BY <1>3, <1>4, <1>5, <1>10, <2>1 DEF Covered
  <2>3. s.rev.org \subseteq stable
    BY <2>2 DEF EditInv, JournalInv, IssuedInOrder, Retained
  <2>4. o \in SUBSET s.rev.org
    BY <1>1, <2>1, <2>2 DEF Shown
  <2>5. PICK p \in {o, s.rev.org} :
           /\ ShownAs(c, p)'
           /\ c \in subscribed \cap s.devices =>
                 \A k \in s.rev.org : OwnEdit(c, k) => k \in p
           /\ c \notin subscribed => view'[c] = view[c]
    BY <1>1, <1>2, <1>10, <2>1, <2>4, PushShows DEF Shown
  <2>6. o \subseteq p /\ p \subseteq s.rev.org /\ p \subseteq stable'
    BY <1>2, <2>3, <2>4
  <2>7. Segment(p, org')
    BY <1>1, <1>2, <2>2, <2>5 DEF Shown, EditInv, RevisionsNest
  <2>8. \A i \in DOMAIN staged' :
           staged'[i].rev.epoch = epoch' => p \subseteq staged'[i].rev.org
    <3>1. ASSUME NEW i \in DOMAIN staged', staged'[i].rev.epoch = epoch
          PROVE  p \subseteq staged'[i].rev.org
      <4>1. m <= n + i /\ n + i \in DOMAIN staged /\ staged'[i] = staged[n + i]
        BY <1>4
      <4>2. s.rev.org \subseteq staged[n + i].rev.org
        BY <1>7, <2>1, <2>2, <3>1, <4>1
      <4> QED
        BY <2>6, <4>1, <4>2
    <3> QED
      BY <1>2, <3>1
  <2>9. ASSUME NEW i \in DOMAIN queue, queue[i].to = c
        PROVE  Delivered(queue[i], p)'
    <3>1. PICK j \in Job : j = queue[i]
      BY DEF TypeOK
    <3>2. /\ Delivered(j, o) /\ c \in subscribed /\ j.commit \in j.rev.org
          /\ OwnEdit(c, j.commit) /\ j.to = c
      BY <1>1, <2>9, <3>1 DEF Shown
    <3>3. queue'[i] = j
      BY <1>2, <3>1
    <3>4. CASE j.commit \in o
      BY <2>6, <3>3, <3>4 DEF Delivered
    <3>5. CASE j.rev.epoch = epoch /\ Waits(j)
      <4>1. PICK x \in DOMAIN staged :
               /\ staged[x].rev = j.rev
               /\ \A y \in x..Len(staged) : j.to \in staged[y].devices
        BY <3>5 DEF Waits
      <4>2. CASE n < x
        <5>1. Waits(j)'
          BY <1>8, <4>1, <4>2
        <5> QED
          BY <1>2, <3>3, <3>5, <5>1 DEF Delivered, Waits
      <4>3. CASE ~(n < x)
        <5>1. x \in 1..n
          BY <1>4, <4>3
        <5>2. ~Lost(staged[x])
          BY <1>6, <3>5, <4>1 DEF Lost
        <5>3. x <= m
          BY <1>3, <1>10, <5>1, <5>2
        <5>4. m \in x..Len(staged)
          BY <1>4, <2>2, <5>1, <5>3
        <5>5. c \in s.devices
          BY <2>1, <3>2, <4>1, <5>4
        <5>6. j.rev.org \subseteq s.rev.org
          BY <1>7, <2>1, <2>2, <3>5, <4>1, <5>3
        <5>7. j.commit \in p
          BY <2>5, <3>2, <5>5, <5>6
        <5> QED
          BY <3>3, <5>7 DEF Delivered
      <4> QED
        BY <4>2, <4>3
    <3>6. CASE j.rev.epoch # epoch /\ ~Retained(j.rev)
      BY <1>2, <3>3, <3>6 DEF Delivered, Retained
    <3> QED
      BY <3>2, <3>4, <3>5, <3>6 DEF Delivered
  <2>10. c \notin subscribed' => view'[c] = NoView' /\ replied'[c] = {}
    BY <1>1, <1>2, <2>5 DEF Shown, NoView
  <2>11. replied'[c] \subseteq p /\ \A k \in replied'[c] : OwnEdit(c, k)'
    BY <1>1, <1>2, <2>6 DEF Shown, OwnEdit
  <2>12. \A i \in DOMAIN queue' : queue'[i].to = c =>
            /\ c \in subscribed'
            /\ queue'[i].commit \in queue'[i].rev.org
            /\ OwnEdit(c, queue[i].commit)'
    BY <1>1, <1>2 DEF Shown, OwnEdit
  <2>13. Shown(c, p)'
    BY <1>2, <2>5, <2>7, <2>8, <2>9, <2>10, <2>11, <2>12 DEF Shown
  <2> QED
    BY <2>6, <2>13
<1> QED
  BY <1>3, <1>9, <1>10

\* A connection that was pushed nothing and is owed nothing was shown nothing.
LEMMA NothingShown ==
    ASSUME NEW c, view'[c] = NoView, replied'[c] = {},
           \A i \in DOMAIN queue' : queue'[i].to # c
    PROVE  \E o \in SUBSET stable' : Shown(c, o)'
<1>1. Segment({}, org)'
  BY DEF Segment
<1>2. ShownAs(c, {})'
  BY DEF ShownAs, NoView
<1>3. Shown(c, {})'
  BY <1>1, <1>2 DEF Shown, NoView
<1> QED
  BY <1>3

\* The sync worker replies only with an outcome its connection was shown: the
\* inventory of a revision that sync reads as retained has left the queue, by the
\* callback that pushed it.
LEMMA RepliedIsShown ==
    ASSUME TypeOK, EditInv, WorkerReplies, NEW c \in Clients, Head(queue).to = c,
           NEW o, Shown(c, o)
    PROVE  Head(queue).commit \in o /\ OwnEdit(c, Head(queue).commit)
           /\ c \in subscribed
<1>1. /\ pc[Worker] = "sync" /\ ReadsOk(rev[Worker])
      /\ queue # <<>> /\ rev[Worker] = Head(queue).rev
  BY DEF WorkerReplies, SyncOk, EditInv, WorkerRunsFirst
<1>2. 1 \in DOMAIN queue /\ queue[1] = Head(queue)
  BY <1>1 DEF TypeOK
<1>3. PICK j \in Job : j = queue[1]
  BY <1>2 DEF TypeOK
<1>4. ReadsOk(j.rev) /\ j.to = c /\ Delivered(j, o) /\ OwnEdit(c, j.commit)
      /\ c \in subscribed
  BY <1>1, <1>2, <1>3 DEF Shown
<1>5. ~(j.rev.epoch = epoch /\ Waits(j))
  <2> SUFFICES ASSUME j.rev.epoch = epoch, Waits(j)
               PROVE  FALSE
    OBVIOUS
  <2>1. j.rev.number <= durable /\ ~reporting
    BY <1>4 DEF ReadsOk
  <2>2. PICK i \in DOMAIN staged : staged[i].rev = j.rev
    BY DEF Waits
  <2>3. ~Covered(staged[i])
    BY <2>1 DEF EditInv, ReleasedInTime
  <2> QED
    BY <2>1, <2>2, <2>3 DEF Covered
<1>6. ~(j.rev.epoch # epoch /\ ~Retained(j.rev))
  BY <1>4 DEF ReadsOk, Retained
<1> QED
  BY <1>2, <1>3, <1>4, <1>5, <1>6 DEF Delivered

\* Every step leaves every connection shown some initial part of the state, with
\* all it was replied to.
LEMMA EveryoneIsShownInductive ==
    TypeOK /\ EditInv /\ [Next]_vars => EveryoneIsShown'
<1> SUFFICES ASSUME TypeOK, EditInv, [Next]_vars, NEW c \in Clients
             PROVE  \E o \in SUBSET stable' : Shown(c, o)'
  BY DEF EveryoneIsShown
<1> USE EditHostAssumption
<1>1. PICK o \in SUBSET stable : Shown(c, o)
  BY DEF EditInv, EveryoneIsShown
<1>2. stable \subseteq stable'
  BY EditStepIsJournalStep, RecordGrows DEF EditInv, TypeOK
<1>3. c # Server /\ queue \in Seq(Job)
  BY DEF TypeOK
\* what is left to show of a step that pushes nothing
<1>4. ASSUME Commit \/ Recover \/ UNCHANGED <<org, epoch, ended>>,
             log' = log \/ \E e : log' = Append(log, e),
             UNCHANGED <<view, subscribed, staged, replied>>,
             \A i \in DOMAIN queue' : queue'[i].to = c =>
                \E n \in DOMAIN queue : queue[n] = queue'[i]
      PROVE  \E p \in SUBSET stable' : Shown(c, p)'
  <2>1. Shown(c, o)'
    BY <1>1, <1>4, StillShown DEF Shown
  <2> QED
    BY <1>2, <2>1
<1>5. ASSUME NEW j \in Job, j.to = Server, queue' = Append(queue, j)
      PROVE  \A i \in DOMAIN queue' : queue'[i].to = c =>
                \E n \in DOMAIN queue : queue[n] = queue'[i]
  <2>1. \A i \in DOMAIN queue' : IF i \in DOMAIN queue THEN queue'[i] = queue[i]
                                 ELSE queue'[i] = j
    BY <1>3, <1>5
  <2> QED
    BY <1>3, <1>5, <2>1
<1>6. ASSUME queue # <<>>, queue' = Tail(queue)
      PROVE  \A i \in DOMAIN queue' :
                i + 1 \in DOMAIN queue /\ queue[i + 1] = queue'[i]
  BY <1>3, <1>6
<1>7. ASSUME NEW client \in Clients, Subscribe(client)
      PROVE  \E p \in SUBSET stable' : Shown(c, p)'
  <2>1. /\ UNCHANGED <<org, epoch, ended, log, staged, queue, replied>>
        /\ subscribed' = subscribed \cup {client} /\ client \notin subscribed
        /\ view' = [view EXCEPT ![client] = NoView]
    BY <1>7 DEF Subscribe, journalVars, progress
  <2>2. CASE c = client
    <3>1. view'[c] = NoView /\ replied'[c] = {}
      BY <1>1, <2>1, <2>2 DEF TypeOK, Shown
    <3>2. \A i \in DOMAIN queue' : queue'[i].to # c
      BY <1>1, <2>1, <2>2 DEF Shown
    <3> QED
      BY <3>1, <3>2, NothingShown
  <2>3. CASE c # client
    <3>1. view'[c] = view[c] /\ (c \in subscribed' <=> c \in subscribed)
      BY <2>1, <2>3 DEF TypeOK
    <3>2. Shown(c, o)'
      BY <1>1, <2>1, <3>1, StillShown DEF Shown
    <3> QED
      BY <1>2, <3>2
  <2> QED
    BY <2>2, <2>3
<1>8. ASSUME NEW client \in Clients, Unsubscribe(client)
      PROVE  \E p \in SUBSET stable' : Shown(c, p)'
  <2>1. /\ UNCHANGED <<org, epoch, ended, log, staged>>
        /\ subscribed' = subscribed \ {client}
        /\ view' = [view EXCEPT ![client] = NoView]
        /\ replied' = [replied EXCEPT ![client] = {}]
        /\ queue' = [i \in DOMAIN queue |->
                        IF queue[i].to = client
                        THEN [queue[i] EXCEPT !.to = Server] ELSE queue[i]]
    BY <1>8 DEF Unsubscribe, journalVars, progress
  <2>2. CASE c = client
    <3>1. view'[c] = NoView /\ replied'[c] = {}
      BY <2>1, <2>2 DEF TypeOK
    <3>2. \A i \in DOMAIN queue' : queue'[i].to # c
      <4>1. \A i \in DOMAIN queue : queue[i] \in Job
        BY <1>3
      <4> QED
        BY <1>3, <2>1, <2>2, <4>1 DEF Job
    <3> QED
      BY <3>1, <3>2, NothingShown
  <2>3. CASE c # client
    <3>1. /\ view'[c] = view[c] /\ (c \in subscribed' <=> c \in subscribed)
          /\ replied'[c] = replied[c]
      BY <2>1, <2>3 DEF TypeOK
    <3>2. \A i \in DOMAIN queue' : queue'[i].to = c =>
             \E n \in DOMAIN queue : queue[n] = queue'[i]
      <4> SUFFICES ASSUME NEW i \in DOMAIN queue', queue'[i].to = c
                   PROVE  i \in DOMAIN queue /\ queue[i] = queue'[i]
        OBVIOUS
      <4>1. i \in DOMAIN queue /\ queue[i] \in Job
        BY <1>3, <2>1
      <4>2. CASE queue[i].to = client
        BY <1>3, <2>1, <4>1, <4>2 DEF Job
      <4>3. CASE queue[i].to # client
        BY <2>1, <4>1, <4>3
      <4> QED
        BY <4>1, <4>2, <4>3
    <3>3. Shown(c, o)'
      BY <1>1, <2>1, <3>1, <3>2, StillShown DEF Shown
    <3> QED
      BY <1>2, <3>3
  <2> QED
    BY <2>2, <2>3
<1>9. CASE \/ \E client \in Clients, commit \in org \cup {0} : EditBegins(client, commit)
           \/ EditReplays \/ EditRefused \/ TickEnds \/ HostSyncs
           \/ HostRecovers \/ HostRecoveryFails
  <2>1. UNCHANGED <<log, view, subscribed, staged, replied, queue>>
    BY <1>9 DEF EditBegins, EditReplays, EditRefused, TickEnds, HostSyncs,
                HostRecovers, HostRecoveryFails, editVars, publication
  <2>2. Commit \/ Recover \/ UNCHANGED <<org, epoch, ended>>
    BY <1>9 DEF EditBegins, EditReplays, EditRefused, TickEnds, HostSyncs, SyncCall,
                HostRecovers, HostRecoveryFails, RecoverFails, journalVars, progress
  <2> QED
    BY <1>4, <2>1, <2>2
<1>10. CASE CommitRetained \/ \E kind \in Kinds \ {"acknowledgement"} : EditCommits(kind)
  BY <1>4, <1>10 DEF CommitRetained, EditCommits, CommitAs, publication
<1>11. CASE TickCommits \/ \E client \in Clients : Acknowledge(client)
  <2>1. PICK by \in Clients \cup {Server}, kind \in Kinds : CommitAs(by, kind)
    BY <1>11 DEF TickCommits, Acknowledge, Kinds
  <2> DEFINE j == [rev |-> [epoch |-> epoch, number |-> submitted + 1, org |-> org'],
                   commit |-> 0, to |-> Server]
  <2>2. /\ queue' = Append(queue, j)
        /\ UNCHANGED <<view, subscribed, staged, replied>>
    BY <1>11 DEF TickCommits, Acknowledge, Enqueue, publication
  <2>3. j \in Job /\ j.to = Server
    BY <2>1, CommitTypes, JournalAssumption DEF Job
  <2> HIDE DEF j
  <2>4. Commit /\ \E e : log' = Append(log, e)
    BY <2>1 DEF CommitAs
  <2> QED
    BY <1>4, <1>5, <2>2, <2>3, <2>4
<1>12. CASE EditEnds \/ Publish
  BY <1>12, StageShows DEF EditEnds, Publish, Enqueue
<1>13. CASE WorkerBegins \/ HostSyncReturns
  <2>1. UNCHANGED <<log, view, subscribed, staged, replied, queue, org, epoch, ended>>
    BY <1>13 DEF WorkerBegins, HostSyncReturns, SyncCall, SyncOk, SyncUncertain,
                 editVars, publication, progress
  <2> QED
    BY <1>4, <2>1
<1>14. CASE WorkerRefuses
  <2>1. /\ UNCHANGED <<log, view, subscribed, staged, replied, org, epoch, ended>>
        /\ queue' = Tail(queue) /\ queue # <<>>
    BY <1>14 DEF WorkerRefuses, SyncUncertain, publication, progress, EditInv,
                 WorkerRunsFirst
  <2> QED
    BY <1>4, <1>6, <2>1
<1>15. CASE WorkerReplies
  <2>1. /\ UNCHANGED <<log, view, subscribed, staged, org, epoch, ended>>
        /\ queue' = Tail(queue) /\ queue # <<>>
        /\ replied' = IF Head(queue).to = Server THEN replied
                      ELSE [replied EXCEPT ![Head(queue).to] =
                                                @ \cup {Head(queue).commit}]
    BY <1>15 DEF WorkerReplies, SyncOk, publication, progress, EditInv,
                 WorkerRunsFirst
  <2>2. CASE Head(queue).to = c
    <3>1. Head(queue).commit \in o /\ OwnEdit(c, Head(queue).commit)
          /\ c \in subscribed
      BY <1>1, <1>15, <2>2, RepliedIsShown
    <3>2. replied'[c] = replied[c] \cup {Head(queue).commit}
      BY <1>3, <2>1, <2>2 DEF TypeOK
    <3>3. /\ \A k \in replied'[c] : k \in o /\ OwnEdit(c, k)
          /\ c \notin subscribed => replied'[c] = {}
      BY <1>1, <3>1, <3>2 DEF Shown
    <3>4. Shown(c, o)'
      BY <1>1, <1>6, <2>1, <3>3, StillShown
    <3> QED
      BY <1>2, <3>4
  <2>3. CASE Head(queue).to # c
    <3>1. replied'[c] = replied[c]
      BY <2>1, <2>3 DEF TypeOK
    <3>2. /\ \A k \in replied'[c] : k \in o /\ OwnEdit(c, k)
          /\ c \notin subscribed => replied'[c] = {}
      BY <1>1, <3>1 DEF Shown
    <3>3. Shown(c, o)'
      BY <1>1, <1>6, <2>1, <3>2, StillShown
    <3> QED
      BY <1>2, <3>3
  <2> QED
    BY <2>2, <2>3
<1>16. ASSUME NEW d \in Callers, ThreadStep(d)
       PROVE  \E p \in SUBSET stable' : Shown(c, p)'
  <2>1. CASE Release(d)
    BY <2>1, ReleaseShows
  <2>2. CASE SyncRuns(d) \/ WriteReported(d)
    <3>1. UNCHANGED <<log, view, subscribed, staged, replied, queue>>
      BY <2>2 DEF SyncRuns, WriteReported, editVars, publication
    <3>2. UNCHANGED <<org, epoch, ended>>
      BY <2>2 DEF SyncRuns, WriteReported, SyncWait, SyncTake, WriteRename, WriteOk,
                  WriteFails, Reported, progress
    <3> QED
      BY <1>4, <3>1, <3>2
  <2> QED
    BY <1>16, <2>1, <2>2 DEF ThreadStep
<1>17. CASE ServerRestarts
  <2>1. view'[c] = NoView /\ replied'[c] = {} /\ queue' = <<>>
    BY <1>17 DEF ServerRestarts
  <2> QED
    BY <2>1, NothingShown
<1>18. CASE UNCHANGED vars
  <2>1. UNCHANGED <<log, view, subscribed, staged, replied, queue, org, epoch, ended>>
    BY <1>18 DEF vars, editVars, publication, journalVars, progress
  <2> QED
    BY <1>4, <2>1
<1>19. CASE HostStep
  BY <1>7, <1>8, <1>9, <1>10, <1>11, <1>12, <1>19 DEF HostStep
<1> QED
  BY <1>13, <1>14, <1>15, <1>16, <1>17, <1>18, <1>19 DEF Next

-----------------------------------------------------------------------------
(* The theorems.                                                           *)

\* The initial state is of its type and satisfies the invariant.
LEMMA EditInvInitial == Init => TypeOK /\ EditInv
<1> SUFFICES ASSUME Init
             PROVE  TypeOK /\ EditInv
  OBVIOUS
<1>1. JournalInit
  BY DEF Init
<1>2. JournalTypeOK /\ JournalInv
  BY <1>1, JournalTypeInitial, JournalInvInitial
<1>3. TypeOK
  <2>1. NoView \in [inventory: Organization, next: Nat]
    BY DEF NoView, Organization
  <2>2. log = <<>> /\ commits = 0 /\ staged = <<>> /\ queue = <<>>
    BY DEF Init, JournalInit
  <2>3. published \in Organization /\ killed \in Organization
        /\ replied \in [Clients -> Organization]
    BY DEF Init, Organization
  <2>4. view \in [Clients -> [inventory: Organization, next: Nat]]
    BY <2>1 DEF Init
  <2>5. host \in HostState /\ subscribed \in SUBSET Clients /\ callback \in BOOLEAN
    BY DEF Init, HostState
  <2> QED
    BY <1>2, <2>2, <2>3, <2>4, <2>5 DEF TypeOK
<1>4. RevisionsNest
  BY <1>1 DEF JournalInit, RevisionsNest, Latest, Segment
<1>5. StagedInOrder /\ ReleasedInTime
  BY <1>1 DEF Init, JournalInit, StagedInOrder, ReleasedInTime
<1>6. HostHoldsLock
  BY DEF Init, HostHoldsLock, Free
<1>7. WorkerRunsFirst
  BY <1>1, EditHostAssumption DEF JournalInit, WorkerRunsFirst
<1>8. EveryoneIsShown
  <2> SUFFICES ASSUME NEW c \in Clients
               PROVE  Shown(c, {})
    BY DEF EveryoneIsShown
  <2>1. view[c] = NoView /\ replied[c] = {} /\ queue = <<>> /\ staged = <<>>
    BY DEF Init
  <2> QED
    BY <2>1 DEF Shown, ShownAs, Segment
<1>9. EndedOnlyWhenStable
  BY DEF Init, EndedOnlyWhenStable
<1> QED
  BY <1>2, <1>3, <1>4, <1>5, <1>6, <1>7, <1>8, <1>9 DEF EditInv

\* Every step keeps the invariant.
LEMMA EditInvInductive == TypeOK /\ EditInv /\ [Next]_vars => TypeOK' /\ EditInv'
<1> SUFFICES ASSUME TypeOK, EditInv, [Next]_vars
             PROVE  TypeOK' /\ EditInv'
  OBVIOUS
<1>1. [JournalNext]_journalVars
  BY EditStepIsJournalStep DEF EditInv
<1>2. JournalInv' /\ RevisionsNest'
  BY <1>1, JournalInvInductive, RevisionsNestInductive DEF EditInv, TypeOK
<1> QED
  BY <1>2, EditTypeInductive, StagedInOrderInductive, ReleasedInTimeInductive,
     HostHoldsLockInductive, WorkerRunsFirstInductive, EveryoneIsShownInductive,
     EndedOnlyWhenStableInductive
  DEF EditInv

\* The invariant holds of every behaviour of the edits on the host.
THEOREM EditInvHolds == Spec => [](TypeOK /\ EditInv)
<1>1. Init => TypeOK /\ EditInv
  BY EditInvInitial
<1>2. TypeOK /\ EditInv /\ [Next]_vars => (TypeOK /\ EditInv)'
  BY EditInvInductive
<1> QED
  BY <1>1, <1>2, PTL DEF Spec

\* Requests, ticks, the sync worker, the callback of a write and a restart keep
\* the types of the host, its publication and its worker.
THEOREM EditTypeCorrect == Spec => []TypeOK
  BY EditInvHolds, PTL

\* WorkspaceHost and its sync worker use the journal as Journal allows: they ask
\* Journal::sync only for revisions they were handed, commit only through
\* Journal::submit, and recover only what failed.  All that is proved of the
\* journal alone therefore holds of it inside the host.
THEOREM EditImplementsJournal == Spec => JournalSpec
<1>1. Init => JournalInit
  BY DEF Init
<1>2. TypeOK /\ EditInv /\ [Next]_vars => [JournalNext]_journalVars
  BY EditStepIsJournalStep DEF EditInv
<1> QED
  BY <1>1, <1>2, EditInvHolds, PTL DEF Spec, JournalSpec

\* Nothing Publication::push or Publication::release shows a connection is lost by
\* a crash or by a write that fails.
THEOREM PushedStaysStable == Spec => []PushedIsStable
<1>1. TypeOK /\ EditInv => PushedIsStable
  <2> SUFFICES ASSUME TypeOK, EditInv, NEW c \in Clients
               PROVE  view[c].inventory \subseteq stable
    BY DEF PushedIsStable
  <2>1. PICK o \in SUBSET stable : Shown(c, o)
    BY DEF EditInv, EveryoneIsShown
  <2>2. CASE view[c] = NoView
    BY <2>2 DEF NoView
  <2>3. CASE view[c] = [inventory |-> Inventory(o), next |-> NextSequence(c, o)]
    BY <2>1, <2>3 DEF Inventory
  <2> QED
    BY <2>1, <2>2, <2>3 DEF Shown, ShownAs
<1> QED
  BY <1>1, EditInvHolds, PTL

\* No reply of the sync worker overtakes the inventory that shows its outcome,
\* whichever thread wrote the revision and pushed it.
THEOREM ReplyAlwaysFollowsPush == Spec => []ReplyFollowsPush
<1>1. TypeOK /\ EditInv => ReplyFollowsPush
  <2> SUFFICES ASSUME TypeOK, EditInv, NEW c \in Clients, NEW k \in replied[c]
               PROVE  /\ {k} \cap Inventory({k}) \subseteq view[c].inventory
                      /\ view[c].next > NextSequence(c, {i \in stable : i < k})
    BY DEF ReplyFollowsPush
  <2>1. PICK o \in SUBSET stable : Shown(c, o)
    BY DEF EditInv, EveryoneIsShown
  <2>2. k \in o /\ OwnEdit(c, k) /\ Segment(o, org) /\ ShownAs(c, o)
    BY <2>1 DEF Shown
  <2>3. view[c] = [inventory |-> Inventory(o), next |-> NextSequence(c, o)]
    BY <2>2 DEF ShownAs
  <2>4. {k} \cap Inventory({k}) \subseteq Inventory(o)
    BY <2>2 DEF Inventory
  <2> DEFINE earlier == {i \in stable : i < k}
  <2>5. /\ o \in SUBSET (1..commits) /\ commits \in Nat
        /\ stable \subseteq org /\ org \subseteq 1..commits
    BY DEF EditInv, JournalInv, RecordBehindState, TypeOK, JournalTypeOK
  <2>6. earlier \in SUBSET o /\ k \notin earlier
    <3>1. k \in Nat /\ ~(k < k)
      BY <2>2, <2>5
    <3>2. \A i \in stable : i < k => i \in o
      BY <2>2, <2>5 DEF Segment
    <3> QED
      BY <3>1, <3>2
  <2> HIDE DEF earlier
  <2>7. /\ NextSequence(c, earlier) \in Nat
        /\ NextSequence(c, earlier) <= NextSequence(c, o)
        /\ (NextSequence(c, earlier) = NextSequence(c, o)
              => \A i \in o : OwnEdit(c, i) => i \in earlier)
    <3>1. /\ commits \in Nat /\ o \in SUBSET (1..commits)
          /\ earlier \in SUBSET o
      BY <2>5, <2>6
    <3> QED
      BY <3>1, EditsCounted, Zenon
  <2>8. NextSequence(c, o) \in Nat
    BY <2>5, EditsCounted
  <2>9. NextSequence(c, o) > NextSequence(c, earlier)
    BY <2>2, <2>6, <2>7, <2>8
  <2> QED
    BY <2>3, <2>4, <2>9 DEF earlier
<1> QED
  BY <1>1, EditInvHolds, PTL

\* WorkspaceHost::synchronize ends the processes of a deletion only once the
\* deletion is on disk.
THEOREM EndedStaysStable == Spec => []EndedOnlyWhenStable
<1>1. EditInv => EndedOnlyWhenStable
  BY DEF EditInv
<1> QED
  BY <1>1, EditInvHolds, PTL

\* A push never shows a connection less than it was shown before.
LEMMA PushMovesForward ==
    ASSUME TypeOK, NEW s \in Staged, NEW c \in Clients, NEW o \in SUBSET s.rev.org,
           ShownAs(c, o), Push(s, subscribed), log' = log,
           view[c] # NoView, view'[c] # NoView
    PROVE  /\ view[c].inventory \subseteq view'[c].inventory
           /\ view[c].next <= view'[c].next
<1>1. PICK p \in {o, s.rev.org} : ShownAs(c, p)'
  BY PushShows
<1>2. p \in SUBSET (1..MaxCommits) /\ o \in SUBSET p /\ MaxCommits \in Nat
  BY JournalAssumption DEF Staged, Revision, Organization
<1>3. view[c] = [inventory |-> Inventory(o), next |-> NextSequence(c, o)]
  BY DEF ShownAs
<1>4. view'[c] = [inventory |-> Inventory(p), next |-> NextSequence(c, p)]
  <2>1. Inventory(p)' = Inventory(p) /\ NextSequence(c, p)' = NextSequence(c, p)
    BY DEF Inventory, NextSequence
  <2> QED
    BY <1>1, <2>1 DEF ShownAs, NoView
<1>5. Inventory(o) \subseteq Inventory(p)
  BY <1>2 DEF Inventory
<1>6. NextSequence(c, o) <= NextSequence(c, p)
  BY <1>2, EditsCounted
<1> QED
  BY <1>3, <1>4, <1>5, <1>6

\* Which steps touch what the connections were pushed, and how.
LEMMA ViewFrames ==
    ASSUME TypeOK, [Next]_vars, NEW c \in Clients
    PROVE  \/ view'[c] = view[c]
           \/ view'[c] = NoView
           \/ Stage /\ log' = log
           \/ \E d \in Callers : Release(d)
<1> USE EditHostAssumption
<1>1. ASSUME NEW client \in Clients, Subscribe(client) \/ Unsubscribe(client)
      PROVE  view'[c] = view[c] \/ view'[c] = NoView
  BY <1>1 DEF Subscribe, Unsubscribe, TypeOK
<1>2. ASSUME NEW client \in Clients,
             \/ \E commit \in org \cup {0} : EditBegins(client, commit)
             \/ Acknowledge(client)
      PROVE  view' = view
  BY <1>2 DEF EditBegins, Acknowledge, publication
<1>3. CASE EditEnds \/ Publish
  BY <1>3 DEF EditEnds, Publish
<1>4. CASE \/ \E kind \in Kinds \ {"acknowledgement"} : EditCommits(kind)
           \/ EditReplays \/ EditRefused \/ CommitRetained \/ HostSyncs \/ TickEnds
           \/ TickCommits \/ HostRecovers \/ HostRecoveryFails
  BY <1>4 DEF EditCommits, EditReplays, EditRefused, CommitRetained, HostSyncs,
              TickEnds, TickCommits, HostRecovers, HostRecoveryFails, editVars,
              publication
<1>5. CASE HostStep
  BY <1>1, <1>2, <1>3, <1>4, <1>5 DEF HostStep
<1>6. CASE WorkerBegins \/ WorkerReplies \/ WorkerRefuses \/ HostSyncReturns
  BY <1>6 DEF WorkerBegins, WorkerReplies, WorkerRefuses, HostSyncReturns, editVars,
              publication
<1>7. ASSUME NEW d \in Callers, ThreadStep(d)
      PROVE  view' = view \/ Release(d)
  BY <1>7 DEF ThreadStep, SyncRuns, WriteReported, editVars, publication
<1>8. CASE ServerRestarts
  BY <1>8 DEF ServerRestarts
<1>9. CASE UNCHANGED vars
  BY <1>9 DEF vars, editVars, publication
<1> QED
  BY <1>5, <1>6, <1>7, <1>8, <1>9 DEF Next

\* No connection is ever pushed an older inventory, or an earlier next sequence,
\* after a newer one, although the lock's holder pushes in Publication::stage and
\* the writer's callback in Publication::release.
THEOREM PushesOnlyMoveForward == Spec => PushesMoveForward
<1> DEFINE Forward(c) == /\ view[c].inventory \subseteq view'[c].inventory
                         /\ view[c].next <= view'[c].next
           Moves == \A c \in Clients :
                       view[c] # NoView /\ view'[c] # NoView => Forward(c)
<1>1. TypeOK /\ EditInv /\ [Next]_vars => Moves
  <2> SUFFICES ASSUME TypeOK, EditInv, [Next]_vars, NEW c \in Clients,
                      view[c] # NoView, view'[c] # NoView
               PROVE  Forward(c)
    BY DEF NoView
  <2>1. PICK o \in SUBSET stable : Shown(c, o)
    BY DEF EditInv, EveryoneIsShown
  <2>2. CASE view'[c] = view[c]
    BY <2>2 DEF TypeOK
  <2>3. CASE Stage /\ log' = log
    <3> DEFINE s == [rev |-> Latest, devices |-> subscribed]
    <3>1. s \in Staged /\ s.rev = Latest /\ s.rev.org = org
      BY DEF TypeOK, JournalTypeOK, Latest, Staged, Revision
    <3>2. o \in SUBSET s.rev.org
      BY <3>1 DEF EditInv, JournalInv, RecordBehindState
    <3>3. view' = view \/ Push(s, subscribed)
      BY <2>3, StageShape DEF publication
    <3> HIDE DEF s
    <3>4. CASE Push(s, subscribed)
      BY <2>1, <2>3, <3>1, <3>2, <3>4, PushMovesForward DEF Shown
    <3> QED
      BY <2>2, <3>3, <3>4
  <2>4. ASSUME NEW d \in Callers, Release(d)
        PROVE  Forward(c)
    <3>1. PICK n \in 0..Len(staged) :
             \/ UNCHANGED <<published, view>>
             \/ \E m \in 1..n : Covered(staged[m]) /\ Push(staged[m], subscribed)
      BY <2>4, ReleaseShape
    <3>2. ASSUME NEW m \in 1..n, Covered(staged[m]), Push(staged[m], subscribed)
          PROVE  Forward(c)
      <4>1. m \in DOMAIN staged /\ staged[m] \in Staged
        BY DEF TypeOK
      <4>2. o \in SUBSET staged[m].rev.org
        BY <2>1, <3>2, <4>1 DEF Shown, Covered
      <4>3. log' = log
        BY <2>4 DEF Release
      <4> QED
        BY <2>1, <3>2, <4>1, <4>2, <4>3, PushMovesForward DEF Shown
    <3> QED
      BY <2>2, <3>1, <3>2
  <2> QED
    BY <2>2, <2>3, <2>4, ViewFrames
<1> QED
  BY <1>1, EditInvHolds, PTL DEF Spec, PushesMoveForward
=============================================================================
