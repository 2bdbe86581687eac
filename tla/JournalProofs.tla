---------------------------- MODULE JournalProofs ----------------------------
(***************************************************************************)
(* Proofs about Journal, for every number of threads, commits, recoveries  *)
(* and kept verdicts.                                                      *)
(***************************************************************************)
EXTENDS Journal, TLAPS

\* A server that starts has a journal of the right types.
LEMMA JournalTypeInitial == JournalInit => JournalTypeOK
<1> SUFFICES ASSUME JournalInit
             PROVE  JournalTypeOK
  OBVIOUS
<1> USE JournalAssumption DEF JournalInit
<1>1. {} \in Organization /\ 0 \in 0..MaxCommits
  BY DEF Organization
<1>2. Nothing \in Envelope /\ NoRevision \in Revision
  BY <1>1 DEF Nothing, NoRevision, Envelope, Revision
<1>3. issued \in SUBSET Revision
  BY <1>1 DEF Latest, Revision
<1>4. DOMAIN ended = {}
  OBVIOUS
<1> QED
  BY <1>1, <1>2, <1>3, <1>4 DEF JournalTypeOK, PC

\* Every step of commit, sync, recover and restart keeps the journal's types.
LEMMA JournalTypeInductive ==
    JournalTypeOK /\ [JournalNext]_journalVars => JournalTypeOK'
<1> SUFFICES ASSUME JournalTypeOK, [JournalNext]_journalVars
             PROVE  JournalTypeOK'
  OBVIOUS
<1> USE JournalAssumption DEF JournalTypeOK, Organization, Envelope, Revision,
        Nothing, NoRevision, Latest, PC
<1>1. CASE Commit
  <2>1. org' \in Organization /\ commits' \in 0..MaxCommits
    BY <1>1 DEF Commit
  <2>2. pending' \in Envelope /\ submitted' \in Nat
    BY <1>1, <2>1 DEF Commit, Submit
  <2>3. issued' \in SUBSET Revision
    <3> DEFINE r == [epoch |-> epoch, number |-> submitted + 1, org |-> org']
    <3>1. r \in Revision
      BY <2>1
    <3>2. issued' = issued \cup {r}
      BY <1>1 DEF Commit, Submit
    <3> HIDE DEF r, Revision
    <3> QED
      BY <3>1, <3>2
  <2> QED
    BY <1>1, <2>1, <2>2, <2>3 DEF Commit, Submit, record, callers
<1>2. CASE Recover
  <2>1. DOMAIN ended' \subseteq Nat /\ \A e \in DOMAIN ended' : ended'[e] \in Nat
    BY <1>2 DEF Recover, EndEpoch
  <2>2. issued' \in SUBSET Revision
    <3> DEFINE r == [epoch |-> epoch + 1, number |-> 0, org |-> visible]
    <3>1. r \in Revision
      OBVIOUS
    <3>2. issued' = issued \cup {r}
      BY <1>2 DEF Recover
    <3> HIDE DEF r, Revision
    <3> QED
      BY <3>1, <3>2
  <2> QED
    BY <1>2, <2>1, <2>2 DEF Recover, callers
<1>3. CASE RecoverFails
  BY <1>3 DEF RecoverFails, progress, callers
<1>4. ASSUME NEW c \in Callers, NEW r \in issued, SyncCall(c, r)
      PROVE  JournalTypeOK'
  BY <1>4 DEF SyncCall, progress, record
<1>5. ASSUME NEW c \in Callers, SyncStep(c)
      PROVE  JournalTypeOK'
  <2>1. CASE SyncOk(c)
    BY <2>1 DEF SyncOk, progress, record
  <2>2. CASE SyncUncertain(c)
    BY <2>2 DEF SyncUncertain, progress, record
  <2>3. CASE SyncWait(c)
    BY <2>3 DEF SyncWait, progress, record
  <2>4. CASE SyncTake(c)
    BY <2>4 DEF SyncTake, record
  <2>5. CASE WriteRename(c)
    BY <2>5 DEF WriteRename, progress
  <2>6. CASE WriteOk(c)
    BY <2>6 DEF WriteOk
  <2>7. CASE WriteFails(c)
    BY <2>7 DEF WriteFails, NotifyAll, record
  <2>8. CASE Reported(c)
    BY <2>8 DEF Reported, NotifyAll, record
  <2> QED
    BY <1>5, <2>1, <2>2, <2>3, <2>4, <2>5, <2>6, <2>7, <2>8 DEF SyncStep
<1>6. CASE Restart
  <2>1. visible' \in Organization
    BY <1>6 DEF Restart
  <2>2. issued' \in SUBSET Revision
    BY <1>6, <2>1 DEF Restart
  <2>3. DOMAIN ended' = {}
    BY <1>6 DEF Restart
  <2> QED
    BY <1>6, <2>1, <2>2, <2>3 DEF Restart
<1>7. CASE UNCHANGED journalVars
  BY <1>7 DEF journalVars, progress, record, callers
<1> QED
  BY <1>1, <1>2, <1>3, <1>4, <1>5, <1>6, <1>7 DEF JournalNext

\* The journal's variables keep their types through every step of
\* WorkspaceHost::commit, Journal::sync, Journal::recover and a restart.
THEOREM JournalTypeCorrect == JournalSpec => []JournalTypeOK
  BY JournalTypeInitial, JournalTypeInductive, PTL DEF JournalSpec

\* The host's state and the record only ever hold commits that happened, in
\* order, so the invariant is inductive: each step of commit, sync, recover and
\* restart keeps every part of it.
LEMMA JournalInvInductive ==
    JournalTypeOK /\ JournalInv /\ [JournalNext]_journalVars => JournalInv'
<1> SUFFICES ASSUME JournalTypeOK, JournalInv, [JournalNext]_journalVars
             PROVE  JournalInv'
  OBVIOUS
<1> USE JournalAssumption DEF JournalTypeOK, JournalInv
<1>1. CASE Commit
  <2>1. OneWriter'
    BY <1>1 DEF Commit, Submit, record, callers, OneWriter, Writing, PC
  <2>2. PendingIsNewest'
    BY <1>1 DEF Commit, Submit, record, callers, PendingIsNewest, Nothing,
       Envelope
  <2>3. WriterHoldsNewer'
    BY <1>1 DEF Commit, Submit, record, callers, WriterHoldsNewer, OneWriter,
       Writing, PendingIsNewest, RecordBehindState, IssuedInOrder, Envelope,
       Revision, Nothing
  <2>4. RecordBehindState'
    BY <1>1 DEF Commit, Submit, record, callers, RecordBehindState, OneWriter,
       WriterHoldsNewer, Writing
  <2>5. IssuedInOrder'
    <3>1. ASSUME NEW r \in issued'
          PROVE  /\ r.epoch <= epoch'
                 /\ r.epoch = epoch' => r.number <= submitted' /\ r.org \subseteq org'
                 /\ Retained(r)' => r.org \subseteq stable'
      <4>1. CASE r \in issued
        BY <1>1, <4>1 DEF Commit, Submit, record, IssuedInOrder, Retained,
           Revision
      <4>2. CASE r = [epoch |-> epoch, number |-> submitted + 1, org |-> org']
        BY <1>1, <4>2 DEF Commit, Submit, record, PendingIsNewest, Retained
      <4> QED
        BY <1>1, <3>1, <4>1, <4>2 DEF Commit, Submit
    <3> QED
      BY <1>1, <3>1 DEF Commit, Submit, callers, IssuedInOrder
  <2>6. AckedIsStable'
    BY <1>1 DEF Commit, Submit, record, callers, AckedIsStable,
       RecordBehindState, IssuedInOrder, Retained
  <2> QED
    BY <2>1, <2>2, <2>3, <2>4, <2>5, <2>6
<1>2. CASE Recover
  <2>1. OneWriter'
    BY <1>2 DEF Recover, EndEpoch, callers, OneWriter, Writing, PC
  <2>2. PendingIsNewest'
    BY <1>2 DEF Recover, EndEpoch, callers, PendingIsNewest, Nothing, Envelope
  <2>3. WriterHoldsNewer'
    BY <1>2 DEF Recover, EndEpoch, callers, WriterHoldsNewer, OneWriter,
       Writing, PendingIsNewest, RecordBehindState, IssuedInOrder, Envelope,
       Revision, Nothing
  <2>4. RecordBehindState'
    BY <1>2 DEF Recover, EndEpoch, callers, RecordBehindState, OneWriter,
       WriterHoldsNewer, Writing
  <2>5. IssuedInOrder'
    <3>1. DOMAIN ended' \subseteq {e \in Nat : e < epoch'}
      BY <1>2 DEF Recover, EndEpoch, IssuedInOrder
    <3>2. ASSUME NEW r \in issued'
          PROVE  /\ r.epoch <= epoch'
                 /\ r.epoch = epoch' => r.number <= submitted' /\ r.org \subseteq org'
                 /\ Retained(r)' => r.org \subseteq stable'
      <4>1. CASE r \in issued
        <5>1. r \in Revision /\ r.epoch < epoch'
          BY <1>2, <4>1 DEF Recover, IssuedInOrder, Revision
        <5>2. Retained(r)' => Retained(r)
          BY <1>2, <5>1 DEF Recover, EndEpoch, Retained, IssuedInOrder, Revision
        <5>3. stable \subseteq stable' /\ r.epoch \in Nat /\ epoch' \in Nat
          BY <1>2, <5>1 DEF Recover, RecordBehindState, Revision
        <5>4. Retained(r) => r.org \subseteq stable
          BY <4>1 DEF IssuedInOrder
        <5> QED
          BY <5>1, <5>2, <5>3, <5>4
      <4>2. CASE r = [epoch |-> epoch + 1, number |-> 0, org |-> visible]
        BY <1>2, <4>2 DEF Recover
      <4> QED
        BY <1>2, <3>2, <4>1, <4>2 DEF Recover
    <3> QED
      BY <1>2, <3>1, <3>2 DEF Recover, callers, IssuedInOrder
  <2>6. AckedIsStable'
    BY <1>2 DEF Recover, EndEpoch, callers, AckedIsStable, RecordBehindState,
       IssuedInOrder, Retained
  <2> QED
    BY <2>1, <2>2, <2>3, <2>4, <2>5, <2>6
<1>3. CASE RecoverFails
  <2>1. OneWriter'
    BY <1>3 DEF RecoverFails, progress, callers, OneWriter, Writing, PC
  <2>2. PendingIsNewest'
    BY <1>3 DEF RecoverFails, progress, callers, PendingIsNewest, Nothing,
       Envelope
  <2>3. WriterHoldsNewer'
    BY <1>3 DEF RecoverFails, progress, callers, WriterHoldsNewer, OneWriter,
       Writing, PendingIsNewest, RecordBehindState, IssuedInOrder, Envelope,
       Revision, Nothing
  <2>4. RecordBehindState'
    BY <1>3 DEF RecoverFails, progress, callers, RecordBehindState, OneWriter,
       WriterHoldsNewer, Writing
  <2>5. IssuedInOrder'
    BY <1>3 DEF RecoverFails, progress, callers, IssuedInOrder, Retained,
       RecordBehindState, WriterHoldsNewer, Writing, Revision
  <2>6. AckedIsStable'
    BY <1>3 DEF RecoverFails, progress, callers, AckedIsStable,
       RecordBehindState, IssuedInOrder, Retained
  <2> QED
    BY <2>1, <2>2, <2>3, <2>4, <2>5, <2>6
<1>4. ASSUME NEW c \in Callers, NEW r \in issued, SyncCall(c, r)
      PROVE  JournalInv'
  <2>1. OneWriter'
    BY <1>4 DEF SyncCall, progress, record, OneWriter, Writing, PC
  <2>2. PendingIsNewest'
    BY <1>4 DEF SyncCall, progress, record, PendingIsNewest, Nothing, Envelope
  <2>3. WriterHoldsNewer'
    BY <1>4 DEF SyncCall, progress, record, WriterHoldsNewer, OneWriter,
       Writing, PendingIsNewest, RecordBehindState, IssuedInOrder, Envelope,
       Revision, Nothing
  <2>4. RecordBehindState'
    BY <1>4 DEF SyncCall, progress, record, RecordBehindState, OneWriter,
       WriterHoldsNewer, Writing
  <2>5. IssuedInOrder'
    BY <1>4 DEF SyncCall, progress, record, IssuedInOrder, Retained,
       RecordBehindState, WriterHoldsNewer, Writing, Revision
  <2>6. AckedIsStable'
    BY <1>4 DEF SyncCall, progress, record, AckedIsStable, RecordBehindState,
       IssuedInOrder, Retained
  <2> QED
    BY <2>1, <2>2, <2>3, <2>4, <2>5, <2>6
<1>5. ASSUME NEW c \in Callers, SyncStep(c)
      PROVE  JournalInv'
  <2>1. CASE SyncOk(c)
    <3>1. OneWriter'
      BY <2>1 DEF SyncOk, ReadsOk, progress, record, OneWriter, Writing, PC
    <3>2. PendingIsNewest'
      BY <2>1 DEF SyncOk, ReadsOk, progress, record, PendingIsNewest, Nothing,
         Envelope
    <3>3. WriterHoldsNewer'
      BY <2>1 DEF SyncOk, ReadsOk, progress, record, WriterHoldsNewer,
         OneWriter, Writing, PendingIsNewest, RecordBehindState, IssuedInOrder,
         Envelope, Revision, Nothing
    <3>4. RecordBehindState'
      BY <2>1 DEF SyncOk, ReadsOk, progress, record, RecordBehindState,
         OneWriter, WriterHoldsNewer, Writing
    <3>5. IssuedInOrder'
      BY <2>1 DEF SyncOk, ReadsOk, progress, record, IssuedInOrder, Retained,
         RecordBehindState, WriterHoldsNewer, Writing, Revision
    <3>6. AckedIsStable'
      BY <2>1 DEF SyncOk, ReadsOk, progress, record, AckedIsStable,
         RecordBehindState, IssuedInOrder, Retained
    <3> QED
      BY <3>1, <3>2, <3>3, <3>4, <3>5, <3>6
  <2>2. CASE SyncUncertain(c)
    <3>1. OneWriter'
      BY <2>2 DEF SyncUncertain, progress, record, OneWriter, Writing, PC
    <3>2. PendingIsNewest'
      BY <2>2 DEF SyncUncertain, progress, record, PendingIsNewest, Nothing,
         Envelope
    <3>3. WriterHoldsNewer'
      BY <2>2 DEF SyncUncertain, progress, record, WriterHoldsNewer, OneWriter,
         Writing, PendingIsNewest, RecordBehindState, IssuedInOrder, Envelope,
         Revision, Nothing
    <3>4. RecordBehindState'
      BY <2>2 DEF SyncUncertain, progress, record, RecordBehindState, OneWriter,
         WriterHoldsNewer, Writing
    <3>5. IssuedInOrder'
      BY <2>2 DEF SyncUncertain, progress, record, IssuedInOrder, Retained,
         RecordBehindState, WriterHoldsNewer, Writing, Revision
    <3>6. AckedIsStable'
      BY <2>2 DEF SyncUncertain, progress, record, AckedIsStable,
         RecordBehindState, IssuedInOrder, Retained
    <3> QED
      BY <3>1, <3>2, <3>3, <3>4, <3>5, <3>6
  <2>3. CASE SyncWait(c)
    <3>1. OneWriter'
      BY <2>3 DEF SyncWait, progress, record, OneWriter, Writing, PC
    <3>2. PendingIsNewest'
      BY <2>3 DEF SyncWait, progress, record, PendingIsNewest, Nothing, Envelope
    <3>3. WriterHoldsNewer'
      BY <2>3 DEF SyncWait, progress, record, WriterHoldsNewer, OneWriter,
         Writing, PendingIsNewest, RecordBehindState, IssuedInOrder, Envelope,
         Revision, Nothing
    <3>4. RecordBehindState'
      BY <2>3 DEF SyncWait, progress, record, RecordBehindState, OneWriter,
         WriterHoldsNewer, Writing
    <3>5. IssuedInOrder'
      BY <2>3 DEF SyncWait, progress, record, IssuedInOrder, Retained,
         RecordBehindState, WriterHoldsNewer, Writing, Revision
    <3>6. AckedIsStable'
      BY <2>3 DEF SyncWait, progress, record, AckedIsStable, RecordBehindState,
         IssuedInOrder, Retained
    <3> QED
      BY <3>1, <3>2, <3>3, <3>4, <3>5, <3>6
  <2>4. CASE SyncTake(c)
    <3>1. OneWriter'
      BY <2>4 DEF SyncTake, record, OneWriter, Writing, PC
    <3>2. PendingIsNewest'
      BY <2>4 DEF SyncTake, record, PendingIsNewest, Nothing, Envelope
    <3>3. WriterHoldsNewer'
      BY <2>4 DEF SyncTake, record, WriterHoldsNewer, OneWriter, Writing,
         PendingIsNewest, RecordBehindState, IssuedInOrder, Envelope, Revision,
         Nothing
    <3>4. RecordBehindState'
      BY <2>4 DEF SyncTake, record, RecordBehindState, OneWriter,
         WriterHoldsNewer, Writing
    <3>5. IssuedInOrder'
      BY <2>4 DEF SyncTake, record, IssuedInOrder, Retained, RecordBehindState,
         WriterHoldsNewer, Writing, Revision
    <3>6. AckedIsStable'
      BY <2>4 DEF SyncTake, record, AckedIsStable, RecordBehindState,
         IssuedInOrder, Retained
    <3> QED
      BY <3>1, <3>2, <3>3, <3>4, <3>5, <3>6
  <2>5. CASE WriteRename(c)
    <3>1. OneWriter'
      BY <2>5 DEF WriteRename, progress, OneWriter, Writing, PC
    <3>2. PendingIsNewest'
      BY <2>5 DEF WriteRename, progress, PendingIsNewest, Nothing, Envelope
    <3>3. WriterHoldsNewer'
      BY <2>5 DEF WriteRename, progress, WriterHoldsNewer, OneWriter, Writing,
         PendingIsNewest, RecordBehindState, IssuedInOrder, Envelope, Revision,
         Nothing
    <3>4. RecordBehindState'
      BY <2>5 DEF WriteRename, progress, RecordBehindState, OneWriter,
         WriterHoldsNewer, Writing
    <3>5. IssuedInOrder'
      BY <2>5 DEF WriteRename, progress, IssuedInOrder, Retained,
         RecordBehindState, WriterHoldsNewer, Writing, Revision
    <3>6. AckedIsStable'
      BY <2>5 DEF WriteRename, progress, AckedIsStable, RecordBehindState,
         IssuedInOrder, Retained
    <3> QED
      BY <3>1, <3>2, <3>3, <3>4, <3>5, <3>6
  <2>6. CASE WriteOk(c)
    <3>1. OneWriter'
      BY <2>6 DEF WriteOk, OneWriter, Writing, PC
    <3>2. PendingIsNewest'
      BY <2>6 DEF WriteOk, PendingIsNewest, WriterHoldsNewer, Writing, Envelope,
         OneWriter
    <3>3. WriterHoldsNewer'
      BY <2>6 DEF WriteOk, WriterHoldsNewer, OneWriter, Writing,
         PendingIsNewest, RecordBehindState, IssuedInOrder, Envelope, Revision,
         Nothing
    <3>4. RecordBehindState'
      BY <2>6 DEF WriteOk, RecordBehindState, OneWriter, WriterHoldsNewer,
         Writing
    <3>5. IssuedInOrder'
      <4>1. ASSUME NEW r \in issued
            PROVE  Retained(r)' => r.org \subseteq stable'
        <5>1. stable \subseteq stable' /\ stable' = job[c].org
          BY <2>6 DEF WriteOk, RecordBehindState, WriterHoldsNewer, Writing
        <5>2. CASE r.epoch = epoch
          BY <2>6, <5>1, <5>2 DEF WriteOk, Retained, WriterHoldsNewer, Writing
        <5>3. CASE r.epoch # epoch
          <6>1. Retained(r)' => Retained(r)
            BY <2>6, <5>3 DEF WriteOk, Retained
          <6> QED
            BY <5>1, <6>1 DEF IssuedInOrder
        <5> QED
          BY <5>2, <5>3
      <4> QED
        BY <2>6, <4>1 DEF WriteOk, IssuedInOrder
    <3>6. AckedIsStable'
      BY <2>6 DEF WriteOk, AckedIsStable, RecordBehindState, IssuedInOrder,
         Retained
    <3> QED
      BY <3>1, <3>2, <3>3, <3>4, <3>5, <3>6
  <2>7. CASE WriteFails(c)
    <3>1. OneWriter'
      BY <2>7 DEF WriteFails, NotifyAll, record, OneWriter, Writing, PC
    <3>2. PendingIsNewest'
      BY <2>7 DEF WriteFails, NotifyAll, record, PendingIsNewest, Nothing,
         Envelope
    <3>3. WriterHoldsNewer'
      BY <2>7 DEF WriteFails, NotifyAll, record, WriterHoldsNewer, OneWriter,
         Writing, PendingIsNewest, RecordBehindState, IssuedInOrder, Envelope,
         Revision, Nothing
    <3>4. RecordBehindState'
      BY <2>7 DEF WriteFails, NotifyAll, record, RecordBehindState, OneWriter,
         WriterHoldsNewer, Writing
    <3>5. IssuedInOrder'
      BY <2>7 DEF WriteFails, NotifyAll, record, IssuedInOrder, Retained,
         RecordBehindState, WriterHoldsNewer, Writing, Revision
    <3>6. AckedIsStable'
      BY <2>7 DEF WriteFails, NotifyAll, record, AckedIsStable,
         RecordBehindState, IssuedInOrder, Retained
    <3> QED
      BY <3>1, <3>2, <3>3, <3>4, <3>5, <3>6
  <2>8. CASE Reported(c)
    <3>1. OneWriter'
      BY <2>8 DEF Reported, NotifyAll, record, OneWriter, Writing, PC
    <3>2. PendingIsNewest'
      BY <2>8 DEF Reported, NotifyAll, record, PendingIsNewest, Nothing,
         Envelope
    <3>3. WriterHoldsNewer'
      BY <2>8 DEF Reported, NotifyAll, record, WriterHoldsNewer, OneWriter,
         Writing, PendingIsNewest, RecordBehindState, IssuedInOrder, Envelope,
         Revision, Nothing
    <3>4. RecordBehindState'
      BY <2>8 DEF Reported, NotifyAll, record, RecordBehindState, OneWriter,
         WriterHoldsNewer, Writing
    <3>5. IssuedInOrder'
      BY <2>8 DEF Reported, NotifyAll, record, IssuedInOrder, Retained,
         RecordBehindState, WriterHoldsNewer, Writing, Revision
    <3>6. AckedIsStable'
      BY <2>8 DEF Reported, NotifyAll, record, AckedIsStable, RecordBehindState,
         IssuedInOrder, Retained
    <3> QED
      BY <3>1, <3>2, <3>3, <3>4, <3>5, <3>6
  <2> QED
    BY <1>5, <2>1, <2>2, <2>3, <2>4, <2>5, <2>6, <2>7, <2>8 DEF SyncStep
<1>6. CASE Restart
  <2>1. OneWriter'
    BY <1>6 DEF Restart, NoRevision, OneWriter, Writing, PC
  <2>2. PendingIsNewest'
    BY <1>6 DEF Restart, NoRevision, PendingIsNewest, Nothing, Envelope
  <2>3. WriterHoldsNewer'
    BY <1>6 DEF Restart, NoRevision, WriterHoldsNewer, OneWriter, Writing,
       PendingIsNewest, RecordBehindState, IssuedInOrder, Envelope, Revision,
       Nothing
  <2>4. RecordBehindState'
    BY <1>6 DEF Restart, NoRevision, RecordBehindState, OneWriter,
       WriterHoldsNewer, Writing
  <2>5. IssuedInOrder'
    BY <1>6 DEF Restart, NoRevision, IssuedInOrder, Retained, RecordBehindState,
       WriterHoldsNewer, Writing, Revision
  <2>6. AckedIsStable'
    BY <1>6 DEF Restart, NoRevision, AckedIsStable, RecordBehindState,
       IssuedInOrder, Retained
  <2> QED
    BY <2>1, <2>2, <2>3, <2>4, <2>5, <2>6
<1>7. CASE UNCHANGED journalVars
  BY <1>7 DEF journalVars, progress, record, callers, OneWriter, Writing,
     PendingIsNewest, WriterHoldsNewer, RecordBehindState, IssuedInOrder, Retained,
     AckedIsStable
<1> QED
  BY <1>1, <1>2, <1>3, <1>4, <1>5, <1>6, <1>7 DEF JournalNext

\* A server that starts on the record it read satisfies the invariant.
LEMMA JournalInvInitial == JournalInit => JournalInv
<1> SUFFICES ASSUME JournalInit
             PROVE  JournalInv
  OBVIOUS
<1>1. OneWriter /\ PendingIsNewest /\ WriterHoldsNewer
  BY DEF JournalInit, OneWriter, PendingIsNewest, WriterHoldsNewer, Writing
<1>2. RecordBehindState /\ IssuedInOrder /\ AckedIsStable
  BY DEF JournalInit, RecordBehindState, IssuedInOrder, AckedIsStable, Retained,
     Latest
<1> QED
  BY <1>1, <1>2 DEF JournalInv

\* The invariant holds in every state of the journal.
LEMMA JournalInvHolds == JournalSpec => [](JournalTypeOK /\ JournalInv)
  BY JournalInvInitial, JournalTypeCorrect, JournalInvInductive, PTL DEF JournalSpec

\* No commit that Journal::sync confirmed is ever missing from the record that a
\* crash leaves, whatever writes fail and whenever the server restarts.
THEOREM AckedStaysStable == JournalSpec => []AckedIsStable
<1>1. JournalInv => AckedIsStable
  BY DEF JournalInv
<1> QED
  BY <1>1, JournalInvHolds, PTL

\* A revision Journal::retained calls retained is on disk.  Publication relies
\* on it to push an inventory at once.
THEOREM RetainedStaysStable == JournalSpec => []RetainedIsStable
<1>1. JournalInv => RetainedIsStable
  BY DEF JournalInv, RetainedIsStable, IssuedInOrder
<1> QED
  BY <1>1, JournalInvHolds, PTL

\* The ok_or(Uncertain) on an empty pending slot of Journal::sync is never
\* reached before a write has failed.
THEOREM NeverUncertainWithoutFailure == JournalSpec => []UncertainOnlyAfterFailure
<1>1. JournalTypeOK /\ JournalInv => UncertainOnlyAfterFailure
  <2> SUFFICES ASSUME JournalTypeOK, JournalInv, NEW c \in Callers,
                      pc[c] = "sync", rev[c].epoch = epoch,
                      ReadsUncertain(rev[c]), ~failed
               PROVE  FALSE
    BY DEF UncertainOnlyAfterFailure
  <2>1. ~writing /\ ~reporting /\ pending = Nothing
    BY DEF ReadsUncertain
  <2>2. rev[c].number <= durable
    BY <2>1 DEF JournalInv, PendingIsNewest, IssuedInOrder
  <2> QED
    BY <2>1, <2>2 DEF ReadsUncertain, ReadsOk
<1> QED
  BY <1>1, JournalInvHolds, PTL

\* Every step of the journal is a step of its promise.
LEMMA JournalStepKeepsPromise ==
    JournalTypeOK /\ JournalInv /\ [JournalNext]_journalVars
        => [Promise!AbstractNext]_(Promise!abstractVars)
<1> SUFFICES ASSUME JournalTypeOK, JournalInv, [JournalNext]_journalVars
             PROVE  [Promise!AbstractNext]_(Promise!abstractVars)
  OBVIOUS
<1> USE DEF JournalTypeOK, JournalInv, RecordBehindState, Promise!AbstractNext,
        Promise!abstractVars
<1>1. CASE Commit
  <2>1. commits + 1 \notin org
    BY <1>1, JournalAssumption DEF Commit
  <2> QED
    BY <1>1, <2>1 DEF Commit, record, Promise!Change
<1>2. CASE Recover
  BY <1>2 DEF Recover, Promise!Lose
<1>3. CASE RecoverFails
  BY <1>3 DEF RecoverFails, Promise!Keep
<1>4. ASSUME NEW c \in Callers, NEW r \in issued, SyncCall(c, r)
      PROVE  UNCHANGED Promise!abstractVars
  BY <1>4 DEF SyncCall, record
<1>5. ASSUME NEW c \in Callers, SyncStep(c)
      PROVE  [Promise!AbstractNext]_(Promise!abstractVars)
  <2>1. CASE SyncOk(c)
    <3>1. rev[c] \in issued /\ Retained(rev[c])
      BY <2>1 DEF SyncOk, ReadsOk, Retained, IssuedInOrder
    <3>2. acked' \subseteq stable
      BY <2>1, <3>1 DEF SyncOk, IssuedInOrder, AckedIsStable
    <3> QED
      BY <2>1, <3>2 DEF SyncOk, record, Promise!Tell
  <2>2. CASE SyncUncertain(c) \/ SyncWait(c) \/ SyncTake(c)
    BY <2>2 DEF SyncUncertain, SyncWait, SyncTake, record
  <2>3. CASE WriteRename(c) \/ WriteFails(c) \/ Reported(c)
    BY <2>3 DEF WriteRename, WriteFails, Reported, record
  <2>4. CASE WriteOk(c)
    BY <2>4 DEF WriteOk, Promise!Keep
  <2> QED
    BY <1>5, <2>1, <2>2, <2>3, <2>4 DEF SyncStep
<1>6. CASE Restart
  BY <1>6 DEF Restart, Promise!Lose
<1>7. CASE UNCHANGED journalVars
  BY <1>7 DEF journalVars, record
<1> QED
  BY <1>1, <1>2, <1>3, <1>4, <1>5, <1>6, <1>7 DEF JournalNext

\* The journal implements the abstract retained organization: it tells only what
\* it keeps, and every loss is all at once and spares what it told.
THEOREM JournalKeepsPromise == JournalSpec => ImplementsPromise
<1>1. JournalInit => Promise!AbstractInit
  BY DEF JournalInit, Promise!AbstractInit
<1> QED
  BY <1>1, JournalInvHolds, JournalStepKeepsPromise, PTL
     DEF JournalSpec, ImplementsPromise, Promise!AbstractSpec

\* A step of the journal takes nothing from the stable record.
LEMMA RecordGrows ==
    JournalTypeOK /\ JournalInv /\ [JournalNext]_journalVars => stable \subseteq stable'
  BY JournalStepKeepsPromise DEF Promise!AbstractNext, Promise!abstractVars,
     Promise!Change, Promise!Keep, Promise!Tell, Promise!Lose

\* The stable record never loses a commit: an older envelope is never written
\* over a newer one, by any thread.
THEOREM RecordNeverShrinks == JournalSpec => RecordOnlyGrows
  BY RecordGrows, JournalInvHolds, PTL DEF JournalSpec, RecordOnlyGrows
=============================================================================
