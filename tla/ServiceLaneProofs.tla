-------------------------- MODULE ServiceLaneProofs -------------------------
(***************************************************************************)
(* Proofs about ServiceLane, for any clients, and any number of            *)
(* operations, records, Sessions, server runs and faults.                  *)
(***************************************************************************)
EXTENDS ServiceLane, TLAPS

Ledgers == [Ids -> Record \cup {Absent}]

\* What a record keeps while its state moves.
SameOperation(r, old) ==
    /\ r.boot = old.boot
    /\ r.seen = old.seen
    /\ r.action = old.action

\* A record is not the absence of one: no state of State is "absent".
LEMMA RecordIsPresent == \A r \in Record : r # Absent
  BY DEF Record, Absent, Unclaimed, Terminal

\* Ledger::change: each record is what it was, what the change makes of it, or
\* gone because it is settled and orphaned; a change that succeeded left none
\* as it was, and one that failed counts as a fault.
LEMMA ChangeMoves ==
    ASSUME ledger \in Ledgers, faults \in 0..MaxFaults,
           NEW next \in Ledgers, NEW ok \in BOOLEAN, Change(next, ok)
    PROVE  /\ ledger' \in Ledgers
           /\ faults' \in 0..MaxFaults
           /\ ok => faults' = faults
           /\ ~ok => faults' # 0
           /\ faults' = 0 => faults = 0
           /\ \A id \in Ids :
                 \/ ledger'[id] = next[id]
                 \/ /\ ledger'[id] = Absent
                    /\ next[id] \in Record /\ next[id].state \in Terminal
                 \/ ~ok /\ ledger'[id] = ledger[id]
<1> DEFINE kept == [id \in Ids |->
                      IF next[id] # Absent /\ next[id].orphaned
                            /\ next[id].state \in Terminal
                      THEN Absent ELSE next[id]]
<1>1. kept \in Ledgers
  BY DEF Ledgers
<1>2. \A id \in Ids : \/ kept[id] = next[id]
                      \/ /\ kept[id] = Absent
                         /\ next[id] \in Record /\ next[id].state \in Terminal
  BY DEF Ledgers
<1>3. \/ ok /\ ledger' = kept /\ faults' = faults
      \/ ~ok /\ ledger' \in {ledger, kept} /\ Fault
  BY DEF Change
<1>4. MaxFaults \in Nat
  BY ServiceLaneAssumption
<1>5. Fault => faults' \in 0..MaxFaults /\ faults' # 0
  BY <1>4 DEF Fault
<1> QED
  BY <1>1, <1>2, <1>3, <1>5

\* Ledger::mark: only a record that is not settled moves, to the state it is
\* marked with, and Launched follows only Admitted.
LEMMA MarkMoves ==
    ASSUME ledger \in Ledgers, NEW i \in Ids,
           NEW state \in Terminal \cup {"launched"}
    PROVE  /\ Mark(i, state) \in Ledgers
           /\ \A id \in Ids \ {i} : Mark(i, state)[id] = ledger[id]
           /\ \/ /\ Mark(i, state)[i] = ledger[i]
                 /\ \/ ledger[i] = Absent
                    \/ ledger[i].state \in Terminal
                    \/ state = "launched" /\ ledger[i].state # "admitted"
              \/ /\ ledger[i] \in Record /\ ledger[i].state \notin Terminal
                 /\ state = "launched" => ledger[i].state = "admitted"
                 /\ Mark(i, state)[i] \in Record
                 /\ Mark(i, state)[i].state = state
                 /\ SameOperation(Mark(i, state)[i], ledger[i])
<1>1. CASE IsTerminal(ledger[i])
             \/ (state = "launched" /\ ledger[i].state # "admitted")
  BY <1>1 DEF Mark, IsTerminal
<1>2. CASE ~(IsTerminal(ledger[i])
             \/ (state = "launched" /\ ledger[i].state # "admitted"))
  <2>1. ledger[i] \in Record /\ ledger[i].state \notin Terminal
    BY <1>2 DEF Ledgers, IsTerminal
  <2>2. Mark(i, state) = [ledger EXCEPT ![i].state = state]
    BY <1>2 DEF Mark
  <2>3. [ledger[i] EXCEPT !.state = state] \in Record
    BY <2>1 DEF Record, Unclaimed, Terminal
  <2>4. SameOperation([ledger[i] EXCEPT !.state = state], ledger[i])
    BY <2>1 DEF Record, SameOperation
  <2>5. [ledger[i] EXCEPT !.state = state].state = state
    BY <2>1 DEF Record
  <2> QED
    BY <1>2, <2>1, <2>2, <2>3, <2>4, <2>5 DEF Ledgers
<1> QED
  BY <1>1, <1>2

\* What a settlement makes of one record.
SettlesTo(r, old, active) ==
    \/ r = old
    \/ /\ r = Absent /\ old \in Record
       /\ old.state \in Terminal \/ ~active
    \/ /\ r \in Record /\ old \in Record
       /\ SameOperation(r, old)
       /\ \/ r.state = old.state
          \/ /\ ~active
             /\ old.state \notin Terminal /\ r.state \in Terminal
             /\ r.state = "not_performed" => old.state \in Unclaimed

\* Ledger::settle moves nothing that is settled and nothing while a helper is
\* active, and calls not performed only what no helper claimed.
LEMMA SettleMoves ==
    ASSUME ledger \in Ledgers, NEW run, NEW active \in BOOLEAN,
           NEW expired \in BOOLEAN
    PROVE  /\ Settle(run, active, expired) \in Ledgers
           /\ \A id \in Ids :
                 SettlesTo(Settle(run, active, expired)[id], ledger[id], active)
<1> DEFINE next == Settle(run, active, expired)
<1>1. ASSUME NEW id \in Ids
      PROVE  /\ next[id] \in Record \cup {Absent}
             /\ SettlesTo(next[id], ledger[id], active)
  <2>1. CASE ledger[id] = Absent
    BY <2>1 DEF Settle, SettlesTo
  <2>2. CASE ledger[id] # Absent /\ (active \/ ledger[id].state \in Terminal)
    BY <2>2 DEF Settle, SettlesTo, Ledgers
  <2>3. CASE ledger[id] # Absent /\ ~active /\ ledger[id].state \notin Terminal
    <3>1. ledger[id] \in Record
      BY <2>3 DEF Ledgers
    <3>2. next[id] = [ledger[id] EXCEPT !.state = SettledState(id, run, expired)]
      BY <2>3 DEF Settle
    <3>3. /\ SettledState(id, run, expired)
                \in Unclaimed \cup Terminal \cup {"running"}
          /\ \/ SettledState(id, run, expired) \in Terminal
             \/ SettledState(id, run, expired) = ledger[id].state
          /\ SettledState(id, run, expired) = "not_performed"
                => ledger[id].state \in Unclaimed
      BY <2>3, <3>1 DEF SettledState, ActivationOutcome, Terminal, Unclaimed,
         Record
    <3> QED
      BY <2>3, <3>1, <3>2, <3>3 DEF SettlesTo, SameOperation, Record
  <2> QED
    BY <2>1, <2>2, <2>3
<1> QED
  BY <1>1 DEF Ledgers, Settle

-----------------------------------------------------------------------------
(* Types.                                                                  *)

\* Every step keeps the types.
LEMMA TypeOKInductive == TypeOK /\ [Next]_vars => TypeOK'
<1> SUFFICES ASSUME TypeOK, [Next]_vars
             PROVE  TypeOK'
  OBVIOUS
<1> USE DEF Ledgers
<1>a. /\ MaxOps \in Nat /\ MAX_RECORDS \in Nat /\ MaxSessions \in Nat
      /\ MaxBoots \in Nat /\ MaxFaults \in Nat
  BY ServiceLaneAssumption
<1>b. /\ ledger \in Ledgers /\ faults \in 0..MaxFaults /\ boot \in 1..MaxBoots
      /\ Absent \in Record \cup {Absent}
  BY DEF TypeOK
<1>c. NoToken \in Observation
  BY <1>a DEF NoToken, Observation
<1>d. \A state \in Unclaimed \cup Terminal \cup {"running"} : \A r \in Record :
         [r EXCEPT !.state = state] \in Record
  BY DEF Record
<1> HIDE DEF Ledgers
<1>e. ASSUME NEW next \in Ledgers, NEW ok \in BOOLEAN, Change(next, ok)
      PROVE  ledger' \in [Ids -> Record \cup {Absent}] /\ faults' \in 0..MaxFaults
  BY <1>b, <1>e, ChangeMoves DEF Ledgers
<1>f. HelperActive \in BOOLEAN
  BY DEF HelperActive
<1>1. CASE StartSession
  BY <1>1, <1>a DEF StartSession, TypeOK, service, ghosts
<1>2. CASE Crash
  BY <1>2, <1>c DEF Crash, ServerEnds, Tasks, TypeOK, service, ghosts
<1>3. CASE Boot
  <2>1. Change(Settle(boot + 1, HelperActive, FALSE), TRUE)
    BY <1>3, Zenon DEF Boot, ServerStarts
  <2>3. boot' \in 1..MaxBoots
    BY <1>3, <1>a, <1>b DEF Boot, ServerStarts
  <2>2. Settle(boot + 1, HelperActive, FALSE) \in Ledgers
    BY <1>b, <1>f, SettleMoves
  <2> QED
    BY <1>3, <1>e, <2>1, <2>2, <2>3 DEF Boot, ServerStarts, TypeOK, service, ghosts
<1>4. CASE Recovers
  <2>1. Change(Settle(boot + 1, TRUE, FALSE), TRUE)
    BY <1>4, Zenon DEF Recovers, ServerStarts
  <2>3. boot' \in 1..MaxBoots
    BY <1>4, <1>a, <1>b DEF Recovers, ServerStarts
  <2>2. Settle(boot + 1, TRUE, FALSE) \in Ledgers
    BY <1>b, SettleMoves
  <2> QED
    BY <1>4, <1>e, <2>1, <2>2, <2>3 DEF Recovers, ServerStarts, ActivationEnds,
       RestOfHelper, TypeOK, service, ghosts
<1>5. CASE NetworkChanges
  BY <1>5 DEF NetworkChanges, server, TypeOK, service, ghosts
<1>6. CASE \E expired \in BOOLEAN : Watch(expired)
  <2>1. PICK expired \in BOOLEAN : Watch(expired)
    BY <1>6
  <2>2. PICK ok \in BOOLEAN :
           LET next == Settle(boot, HelperActive, expired) IN
           Change(next, ok) /\ Release(ok /\ AllTerminal(next))
    BY <2>1 DEF Watch
  <2>3. Settle(boot, HelperActive, expired) \in Ledgers
    BY <1>b, <1>f, SettleMoves
  <2> QED
    BY <1>e, <2>1, <2>2, <2>3 DEF Watch, Release, TypeOK, service, ghosts
<1>7. CASE \E s \in live : SessionExits(s)
  BY <1>7 DEF SessionExits, TypeOK, service, ghosts
<1>8. CASE \E c \in Clients : Revoke(c)
  <2>1. PICK c \in Clients : Revoke(c)
    BY <1>8
  <2> DEFINE next == [id \in Ids |->
                        IF ledger[id] # Absent /\ ledger[id].actor = c
                        THEN [ledger[id] EXCEPT !.orphaned = TRUE]
                        ELSE ledger[id]]
  <2>2. \A r \in Record : [r EXCEPT !.orphaned = TRUE] \in Record
    BY DEF Record
  <2>3. next \in Ledgers
    BY <1>b, <2>2 DEF Ledgers
  <2>4. PICK ok \in BOOLEAN : Change(next, ok)
    BY <2>1 DEF Revoke
  <2> HIDE DEF next
  <2> QED
    BY <1>e, <2>1, <2>3, <2>4 DEF Revoke, server, TypeOK, service, ghosts
<1>9. ASSUME NEW id \in Ids,
             \/ \E c \in Clients, action \in Actions : Preview(id, c, action)
             \/ Execute(id) \/ RestartSilently(id)
             \/ \E expired \in BOOLEAN : Resolve(id, expired)
             \/ Acknowledge(id)
             \/ ThreadStep(id) \/ HelperStep(id)
      PROVE  TypeOK'
  <2>1. CASE \E c \in Clients, action \in Actions : Preview(id, c, action)
    <3>1. PICK c \in Clients, action \in Actions : Preview(id, c, action)
      BY <2>1
    <3>2. Observes(action) \in Observation
      BY <1>a, ServiceLaneAssumption DEF Observes, Observation, TypeOK
    <3>3. used' \in 0..MaxOps
      BY <1>a, <3>1 DEF Preview, Fresh, Ids, TypeOK
    <3> QED
      BY <3>1, <3>2, <3>3 DEF Preview, TypeOK, service, ghosts
  <2>2. CASE Execute(id)
    <3> DEFINE r == Admitted(request[id].actor, ActionOf(id), tokens[id])
    <3>d. request[id] \in [actor: Clients, action: Actions]
      <4>1. request[id] # [action |-> "none"]
        BY <2>2 DEF Execute
      <4> QED
        BY <4>1 DEF TypeOK
    <3>a. /\ request[id] \in [actor: Clients, action: Actions]
          /\ request[id].action \in {"stop", "restart", "network"}
      BY <3>d, ServiceLaneAssumption
    <3>b. ActionOf(id) \in {"stop", "restart", "update", "network"}
      BY <3>a DEF ActionOf
    <3>c. tokens[id] \in Observation /\ request[id].actor \in Clients
      BY <3>a DEF TypeOK
    <3>1. r \in Record
      BY <1>b, <3>b, <3>c DEF Admitted, Record, Unclaimed
    <3>2. [ledger EXCEPT ![id] = r] \in Ledgers
      BY <1>b, <3>1 DEF Ledgers
    <3> HIDE DEF r
    <3>3. tokens' \in [Ids -> Observation]
      BY <2>2, <1>c DEF Execute, Redeem, TypeOK
    <3>4. CASE StillAsPreviewed(id) /\ Admits
      <4>1. PICK ok \in BOOLEAN :
               /\ Change([ledger EXCEPT ![id] = r], ok)
               /\ fence' = (fence \/ (ok /\ r.action # "network"))
               /\ task' = IF ok
                          THEN [task EXCEPT ![id] =
                                   IF request[id].action = "network"
                                   THEN "network" ELSE "launch"]
                          ELSE task
        BY <2>2, <3>4 DEF Execute, AdmitFenced, r
      <4> QED
        BY <1>e, <2>2, <3>2, <3>3, <4>1 DEF Execute, Tasks, TypeOK, service, ghosts
    <3>5. CASE ~(StillAsPreviewed(id) /\ Admits)
      BY <2>2, <3>3, <3>5 DEF Execute, TypeOK, service, ghosts
    <3> QED
      BY <3>4, <3>5
  <2>3. CASE RestartSilently(id)
    <3> DEFINE seen == [boot |-> boot, live |-> {}, flag |-> TRUE]
               r == Admitted(Core, "update", seen)
    <3>1. r \in Record
      BY <1>a, <1>b DEF Admitted, Record, Observation, Unclaimed
    <3>2. [ledger EXCEPT ![id] = r] \in Ledgers
      BY <1>b, <3>1 DEF Ledgers
    <3>3. used' \in 0..MaxOps
      BY <1>a, <2>3 DEF RestartSilently, Fresh, Ids, TypeOK
    <3> HIDE DEF r
    <3>4. PICK ok \in BOOLEAN :
             /\ Change([ledger EXCEPT ![id] = r], ok)
             /\ fence' = (fence \/ (ok /\ r.action # "network"))
             /\ task' = IF ok THEN [task EXCEPT ![id] = "launch"] ELSE task
      BY <2>3 DEF RestartSilently, AdmitFenced, r
    <3> QED
      BY <1>e, <2>3, <3>2, <3>3, <3>4 DEF RestartSilently, Tasks, TypeOK, service, ghosts
  <2>4. CASE \E expired \in BOOLEAN : Resolve(id, expired)
    <3>1. PICK expired \in BOOLEAN : Resolve(id, expired)
      BY <2>4
    <3>2. PICK ok \in BOOLEAN : Change(Settle(boot, HelperActive, expired), ok)
      BY <3>1 DEF Resolve
    <3>3. Settle(boot, HelperActive, expired) \in Ledgers
      BY <1>b, <1>f, SettleMoves
    <3> QED
      BY <1>e, <3>1, <3>2, <3>3 DEF Resolve, server, TypeOK, service, ghosts
  <2>5. CASE Acknowledge(id)
    <3>1. PICK ok \in BOOLEAN : /\ Change([ledger EXCEPT ![id] = Absent], ok)
                                /\ told' = IF ok THEN told \cup {id} ELSE told
      BY <2>5 DEF Acknowledge
    <3>2. [ledger EXCEPT ![id] = Absent] \in Ledgers
      BY <1>b DEF Ledgers
    <3> QED
      BY <1>e, <2>5, <3>1, <3>2 DEF Acknowledge, server, TypeOK, service, ghosts
  <2>6. CASE Launch(id)
    <3>1. faults' \in 0..MaxFaults
      BY <1>a, <1>b, <2>6 DEF Launch, Fault
    <3> QED
      BY <2>6, <3>1 DEF Launch, Tasks, Helpers, TypeOK, service, ghosts
  <2>7. CASE MarkLaunch(id)
    <3> DEFINE state == IF task[id] = "launched" THEN "launched"
                        ELSE "not_performed"
    <3>1. PICK ok \in BOOLEAN : Change(Mark(id, state), ok)
      BY <2>7 DEF MarkLaunch
    <3>2. Mark(id, state) \in Ledgers
      BY <1>b, MarkMoves DEF Terminal
    <3> QED
      BY <1>e, <2>7, <3>1, <3>2 DEF MarkLaunch, Tasks, TypeOK, service, ghosts
  <2>8. CASE StartWatcher(id)
    <3>1. faults' \in 0..MaxFaults
      BY <1>a, <1>b, <2>8 DEF StartWatcher, Fault
    <3> QED
      BY <2>8, <3>1 DEF StartWatcher, Tasks, TypeOK, service, ghosts
  <2>9. CASE NetworkApplies(id)
    <3> DEFINE claimed == [ledger EXCEPT ![id].state = "running"]
    <3>1. Claimable(id) => claimed \in Ledgers
      BY <1>b, <1>d DEF Claimable, Ledgers
    <3>2. \/ UNCHANGED <<ledger, faults>>
          \/ Claimable(id) /\ \E ok \in BOOLEAN : Change(claimed, ok)
      BY <2>9 DEF NetworkApplies
    <3>3. ledger' \in [Ids -> Record \cup {Absent}] /\ faults' \in 0..MaxFaults
      <4>1. CASE UNCHANGED <<ledger, faults>>
        BY <4>1 DEF TypeOK
      <4>2. CASE Claimable(id) /\ \E ok \in BOOLEAN : Change(claimed, ok)
        <5> HIDE DEF claimed
        <5> QED
          BY <1>e, <3>1, <4>2
      <4> QED
        BY <3>2, <4>1, <4>2
    <3>4. \/ UNCHANGED <<performed, net>>
          \/ performed' = [performed EXCEPT ![id] = @ + 1] /\ net' = ~net
      BY <2>9, Zenon DEF NetworkApplies
    <3>5. \E next \in Tasks : task' = [task EXCEPT ![id] = next]
      BY <2>9 DEF NetworkApplies, Tasks
    <3>6. performed' \in [Ids -> Nat]
      BY <3>4 DEF TypeOK
    <3>8. net' \in BOOLEAN
      <4>1. net \in BOOLEAN
        BY DEF TypeOK
      <4> QED
        BY <3>4, <4>1, Zenon
    <3>7. task' \in [Ids -> Tasks]
      BY <3>5 DEF TypeOK
    <3> QED
      BY <2>9, <3>3, <3>6, <3>7, <3>8 DEF NetworkApplies, TypeOK, service, ghosts
  <2>10. CASE NetworkMarks(id)
    <3> DEFINE state == IF task[id] = "refused" THEN "failed" ELSE task[id]
    <3>1. PICK ok \in BOOLEAN : Change(Mark(id, state), ok)
      BY <2>10 DEF NetworkMarks
    <3>2. Mark(id, state) \in Ledgers
      BY <1>b, <2>10, MarkMoves DEF NetworkMarks, Terminal
    <3> QED
      BY <1>e, <2>10, <3>1, <3>2 DEF NetworkMarks, Tasks, TypeOK, service, ghosts
  <2>11. CASE HelperLocks(id)
    BY <2>11 DEF HelperLocks, RestOfHelper, server, Helpers, TypeOK, service, ghosts
  <2>12. CASE HelperClaims(id)
    <3> DEFINE claimed == [ledger EXCEPT ![id].state = "running"]
    <3>1. Claimable(id) => claimed \in Ledgers /\ ledger[id] \in Record
      BY <1>b, <1>d DEF Claimable, Ledgers
    <3>2. CASE Claimable(id)
      <4>1. PICK ok \in BOOLEAN :
               /\ Change(claimed, ok)
               /\ helper' = [helper EXCEPT ![id] = IF ok THEN "claimed" ELSE "gone"]
               /\ copy' = IF ok THEN [copy EXCEPT ![id] = ledger[id]] ELSE copy
        BY <2>12, <3>2 DEF HelperClaims
      <4> HIDE DEF claimed
      <4> QED
        BY <1>e, <2>12, <3>1, <3>2, <4>1
           DEF HelperClaims, RestOfHelper, server, Helpers, TypeOK, service, ghosts
    <3>3. CASE ~Claimable(id)
      BY <2>12, <3>3 DEF HelperClaims, RestOfHelper, server, Helpers, TypeOK, service, ghosts
    <3> QED
      BY <3>2, <3>3
  <2>13. CASE HelperStops(id)
    <3>1. /\ performed' \in [Ids -> Nat] /\ helper' \in [Ids -> Helpers]
          /\ activation' \in {"none", "activating", "completed", "returned"}
      BY <2>13 DEF HelperStops, Helpers, TypeOK
    <3>2. /\ task' \in [Ids -> Tasks] /\ tokens' \in [Ids -> Observation]
          /\ live' \subseteq 1..MaxSessions
      BY <1>c, <2>13 DEF HelperStops, ServerEnds, Tasks
    <3> QED
      BY <2>13, <3>1, <3>2 DEF HelperStops, ServerEnds, RestOfHelper, TypeOK, service, ghosts
  <2>14. CASE HelperRefuses(id) \/ HelperFindsUpdated(id)
    BY <2>14 DEF HelperRefuses, HelperFindsUpdated, RestOfHelper, server, Helpers, TypeOK, service, ghosts
  <2>15. CASE HelperStarts(id)
    <3>1. Change(Settle(boot + 1, TRUE, FALSE), TRUE)
      BY <2>15, Zenon DEF HelperStarts, ServerStarts
    <3>3. boot' \in 1..MaxBoots
      BY <2>15, <1>a, <1>b DEF HelperStarts, ServerStarts
    <3>2. Settle(boot + 1, TRUE, FALSE) \in Ledgers
      BY <1>b, SettleMoves
    <3> QED
      BY <1>e, <2>15, <3>1, <3>2, <3>3 DEF HelperStarts, ServerStarts, ActivationEnds,
         RestOfHelper, Helpers, TypeOK, service, ghosts
  <2>16. CASE HelperStartFails(id)
    BY <2>16 DEF HelperStartFails, RestOfHelper, server, Helpers, TypeOK, service, ghosts
  <2>17. CASE HelperMarks(id)
    <3>1. PICK ok \in BOOLEAN : Change(Mark(id, helper[id]), ok)
      BY <2>17 DEF HelperMarks
    <3>2. Mark(id, helper[id]) \in Ledgers
      BY <1>b, <2>17, MarkMoves DEF HelperMarks, Terminal
    <3> QED
      BY <1>b, <1>e, <2>17, <3>1, <3>2
         DEF HelperMarks, RestOfHelper, server, Helpers, TypeOK, service, ghosts
  <2>18. CASE HelperDies(id)
    BY <2>18, <1>b DEF HelperDies, RestOfHelper, server, Helpers, TypeOK, service, ghosts
  <2> QED
    BY <1>9, <2>1, <2>2, <2>3, <2>4, <2>5, <2>6, <2>7, <2>8, <2>9, <2>10, <2>11,
       <2>12, <2>13, <2>14, <2>15, <2>16, <2>17, <2>18 DEF ThreadStep, HelperStep
<1>10. CASE UNCHANGED vars
  BY <1>10 DEF vars, server, TypeOK, service, ghosts
<1> QED
  BY <1>1, <1>2, <1>3, <1>4, <1>5, <1>6, <1>7, <1>8, <1>9, <1>10 DEF Next

\* The lane's variables keep their types through every step of the server's
\* threads, its clients, its helpers and its crashes.
THEOREM LaneTypeCorrect == Spec => []TypeOK
<1>1. Init => TypeOK
  <2> SUFFICES ASSUME Init
               PROVE  TypeOK
    OBVIOUS
  <2>1. 1 \in 1..MaxBoots /\ 0 \in 0..MaxOps /\ 0 \in 0..MaxSessions
          /\ 0 \in 0..MaxFaults /\ 0 \in 0..MaxBoots
    BY ServiceLaneAssumption
  <2>2. NoToken \in Observation
    BY <2>1 DEF NoToken, Observation
  <2>3. /\ boot \in 1..MaxBoots /\ used \in 0..MaxOps /\ born \in 0..MaxSessions
        /\ faults \in 0..MaxFaults
    BY <2>1 DEF Init
  <2> QED
    BY <2>2, <2>3 DEF Init, TypeOK, Tasks, Helpers
<1> QED
  BY <1>1, TypeOKInductive, PTL DEF Spec

-----------------------------------------------------------------------------
(* The invariant.                                                          *)

\* NotPerformedIsTrue, and the invariant, of one operation.
NotPerformed(id) ==
    id \notin misreported /\ ledger[id] # Absent
            /\ ledger[id].state = "not_performed"
        => /\ performed[id] = 0
           /\ helper[id] \notin {"claimed", "stopped", "done"}

Lane(id) ==
    /\ TokenIsUnused(id) /\ OneActor(id) /\ ActingIsRunning(id)
    /\ UnclaimedIsUndone(id) /\ ToldIsGone(id) /\ FencedUnderWay(id)
    /\ ClaimedCopy(id) /\ WorkedFor(id) /\ NotPerformed(id)

\* The invariant, taken apart by operation.
LEMMA LaneInvParts ==
    LaneInv <=> /\ watching = watcher
                /\ FenceIsWatched
                /\ \A id \in Ids : Lane(id)
  BY Zenon DEF LaneInv, NotPerformedIsTrue, NotPerformed, Lane

\* A change that settles does to each record what a settlement does.
LEMMA SettledChange ==
    ASSUME TypeOK, NEW run, NEW active \in BOOLEAN, NEW expired \in BOOLEAN,
           NEW ok \in BOOLEAN, Change(Settle(run, active, expired), ok)
    PROVE  /\ \A id \in Ids : SettlesTo(ledger'[id], ledger[id], active)
           /\ faults' = 0 => faults = 0
           /\ ok /\ AllTerminal(Settle(run, active, expired))
                 => AllTerminal(ledger)'
<1> DEFINE next == Settle(run, active, expired)
<1>1. ledger \in Ledgers /\ faults \in 0..MaxFaults
  BY DEF TypeOK, Ledgers
<1>2. /\ next \in Ledgers
      /\ \A id \in Ids : SettlesTo(next[id], ledger[id], active)
  BY <1>1, SettleMoves
<1> HIDE DEF next
<1>3. Change(next, ok)
  BY DEF next
<1>4. /\ faults' = 0 => faults = 0
      /\ \A id \in Ids :
            \/ ledger'[id] = next[id]
            \/ /\ ledger'[id] = Absent
               /\ next[id] \in Record /\ next[id].state \in Terminal
            \/ ~ok /\ ledger'[id] = ledger[id]
  BY <1>1, <1>2, <1>3, ChangeMoves
<1>5. \A id \in Ids : SettlesTo(ledger'[id], ledger[id], active)
  BY <1>2, <1>4, RecordIsPresent DEF SettlesTo
<1>6. ok /\ AllTerminal(next) => AllTerminal(ledger)'
  BY <1>4 DEF AllTerminal, IsTerminal
<1> QED
  BY <1>4, <1>5, <1>6 DEF next

\* What a change that marks a record makes of it.
MarksTo(id, state, ok) ==
    \/ /\ ledger'[id] = ledger[id]
       /\ \/ ~ok
          \/ ledger[id] = Absent
          \/ ledger[id].state \in Terminal
          \/ state = "launched" /\ ledger[id].state # "admitted"
    \/ /\ ledger'[id] = Absent /\ ledger[id] # Absent
       /\ state \in Terminal \/ ledger[id].state \in Terminal
    \/ /\ ledger[id] \in Record /\ ledger[id].state \notin Terminal
       /\ state = "launched" => ledger[id].state = "admitted"
       /\ ledger'[id] \in Record
       /\ ledger'[id].state = state
       /\ SameOperation(ledger'[id], ledger[id])

\* A change that marks a record leaves the others alone, or drops them when
\* they are settled and orphaned.
LEMMA MarkedChange ==
    ASSUME TypeOK, NEW id \in Ids, NEW state \in Terminal \cup {"launched"},
           NEW ok \in BOOLEAN, Change(Mark(id, state), ok)
    PROVE  /\ MarksTo(id, state, ok)
           /\ \A i \in Ids \ {id} : SettlesTo(ledger'[i], ledger[i], HelperActive)
           /\ faults' = 0 => faults = 0 /\ ok
<1>1. ledger \in Ledgers /\ faults \in 0..MaxFaults
  BY DEF TypeOK, Ledgers
<1>2. /\ Mark(id, state) \in Ledgers
      /\ \A i \in Ids \ {id} : Mark(id, state)[i] = ledger[i]
  BY <1>1, MarkMoves
<1>3. \/ /\ Mark(id, state)[id] = ledger[id]
         /\ \/ ledger[id] = Absent
            \/ ledger[id].state \in Terminal
            \/ state = "launched" /\ ledger[id].state # "admitted"
      \/ /\ ledger[id] \in Record /\ ledger[id].state \notin Terminal
         /\ state = "launched" => ledger[id].state = "admitted"
         /\ Mark(id, state)[id] \in Record
         /\ Mark(id, state)[id].state = state
         /\ SameOperation(Mark(id, state)[id], ledger[id])
  BY <1>1, MarkMoves
<1>4. /\ ~ok => faults' # 0
      /\ faults' = 0 => faults = 0
      /\ \A i \in Ids :
            \/ ledger'[i] = Mark(id, state)[i]
            \/ /\ ledger'[i] = Absent
               /\ Mark(id, state)[i] \in Record
               /\ Mark(id, state)[i].state \in Terminal
            \/ ~ok /\ ledger'[i] = ledger[i]
  BY <1>1, <1>2, ChangeMoves
<1>5. MarksTo(id, state, ok)
  BY <1>3, <1>4, RecordIsPresent DEF MarksTo
<1>6. \A i \in Ids \ {id} : SettlesTo(ledger'[i], ledger[i], HelperActive)
  BY <1>2, <1>4 DEF SettlesTo
<1> QED
  BY <1>4, <1>5, <1>6

\* A step that settles the record of an operation, or leaves it alone, and
\* does nothing else for the operation keeps what the invariant says of its
\* record, helper and thread, also while the server's run changes.
LEMMA SettleKeeps ==
    ASSUME TypeOK, TypeOK', NEW id \in Ids, Lane(id),
           SettlesTo(ledger'[id], ledger[id], HelperActive),
           task'[id] = task[id], performed'[id] = performed[id],
           tokens'[id] = tokens[id], copy'[id] = copy[id],
           used <= used', boot <= boot', UNCHANGED misreported,
           id \in told' \ told => ledger[id] # Absent /\ ledger'[id] = Absent,
           \/ helper'[id] = helper[id]
           \/ helper[id] = "stopped" /\ helper'[id] \in {"done", "failed"}
    PROVE  /\ TokenIsUnused(id)' /\ OneActor(id)' /\ ActingIsRunning(id)'
           /\ UnclaimedIsUndone(id)' /\ ToldIsGone(id)' /\ ClaimedCopy(id)'
           /\ NotPerformed(id)'
           /\ ledger'[id] # Absent => ledger'[id].boot <= boot
<1>0. helper[id] \in {"claimed", "stopped", "done", "failed", "unresolved"}
         => HelperActive
  BY DEF HelperActive
<1>a. id \in Nat /\ used \in Nat /\ used' \in Nat
  BY DEF Ids, TypeOK
<1>b. /\ ledger[id] \in Record => ledger[id] # Absent
      /\ ledger'[id] \in Record => ledger'[id] # Absent
      /\ ledger[id] \in Record \cup {Absent}
      /\ ledger'[id] \in Record \cup {Absent}
  BY RecordIsPresent DEF TypeOK
<1> USE <1>0, <1>a, <1>b DEF Lane, SettlesTo, SameOperation
<1>1. TokenIsUnused(id)'
  BY DEF TokenIsUnused, Untouched
<1>2. OneActor(id)'
  BY DEF OneActor
<1>3. ActingIsRunning(id)'
  BY DEF ActingIsRunning, Claimable, Terminal, Unclaimed
<1>4. UnclaimedIsUndone(id)'
  BY DEF UnclaimedIsUndone, Claimable, Terminal, Unclaimed
<1>5. ToldIsGone(id)'
  BY DEF ToldIsGone
<1>6. ClaimedCopy(id)'
  <2>1. /\ ledger[id] # Absent => ledger[id].boot \in Nat
        /\ boot \in Nat /\ boot' \in Nat
    BY DEF TypeOK, Record
  <2> QED
    BY <2>1 DEF ClaimedCopy
<1>7. NotPerformed(id)'
  BY DEF NotPerformed, ActingIsRunning, UnclaimedIsUndone, Claimable
<1>8. ledger'[id] # Absent => ledger'[id].boot <= boot
  BY DEF ClaimedCopy
<1> QED
  BY <1>1, <1>2, <1>3, <1>4, <1>5, <1>6, <1>7, <1>8

\* The same within one run of the server: the fence may be set, and is released
\* only when the operation is settled.
LEMMA SettleKeepsLane ==
    ASSUME TypeOK, TypeOK', NEW id \in Ids, Lane(id),
           SettlesTo(ledger'[id], ledger[id], HelperActive),
           task'[id] = task[id], performed'[id] = performed[id],
           tokens'[id] = tokens[id], copy'[id] = copy[id],
           helper'[id] = helper[id], used <= used',
           UNCHANGED <<misreported, boot, up, live>>,
           id \in told' \ told => ledger[id] # Absent /\ ledger'[id] = Absent,
           fence => fence' \/ IsTerminal(ledger'[id]),
           faults' = 0 => faults = 0
    PROVE  Lane(id)'
<1>1. boot <= boot'
  BY DEF TypeOK
<1>2. /\ TokenIsUnused(id)' /\ OneActor(id)' /\ ActingIsRunning(id)'
      /\ UnclaimedIsUndone(id)' /\ ToldIsGone(id)' /\ ClaimedCopy(id)'
      /\ NotPerformed(id)'
  BY <1>1, SettleKeeps
<1>3. ~IsTerminal(ledger'[id])
         => /\ ~IsTerminal(ledger[id])
            /\ SameOperation(ledger'[id], ledger[id])
            /\ ledger'[id].state = ledger[id].state
  BY RecordIsPresent DEF SettlesTo, IsTerminal, SameOperation
<1>4. FencedUnderWay(id)'
  BY <1>3 DEF Lane, FencedUnderWay, SameOperation, IsTerminal
<1>5. WorkedFor(id)'
  BY <1>3 DEF Lane, WorkedFor, SameOperation, IsTerminal
<1> QED
  BY <1>2, <1>4, <1>5 DEF Lane

\* What a claim makes of a record.
ClaimsTo(id, ok) ==
    \/ ~ok /\ ledger'[id] = ledger[id]
    \/ /\ ledger'[id] \in Record /\ ledger'[id] # Absent
       /\ ledger'[id].state = "running"
       /\ SameOperation(ledger'[id], ledger[id])

\* Ledger::claim leaves the other records alone, or drops them when they are
\* settled and orphaned.
LEMMA ClaimedChange ==
    ASSUME TypeOK, NEW id \in Ids, NEW ok \in BOOLEAN, Claimable(id),
           Change([ledger EXCEPT ![id].state = "running"], ok)
    PROVE  /\ ClaimsTo(id, ok)
           /\ \A i \in Ids \ {id} : SettlesTo(ledger'[i], ledger[i], HelperActive)
           /\ faults' = 0 => faults = 0 /\ ok
<1> DEFINE next == [ledger EXCEPT ![id].state = "running"]
<1>1. ledger \in Ledgers /\ faults \in 0..MaxFaults
  BY DEF TypeOK, Ledgers
<1>2. ledger[id] \in Record
  BY <1>1 DEF Claimable, Ledgers
<1>3. /\ [ledger[id] EXCEPT !.state = "running"] \in Record
      /\ [ledger[id] EXCEPT !.state = "running"].state = "running"
      /\ SameOperation([ledger[id] EXCEPT !.state = "running"], ledger[id])
  BY <1>2 DEF Record, SameOperation
<1>4. /\ next \in Ledgers
      /\ next[id] \in Record /\ next[id].state = "running"
      /\ SameOperation(next[id], ledger[id])
      /\ \A i \in Ids \ {id} : next[i] = ledger[i]
  BY <1>1, <1>3 DEF Ledgers
<1> HIDE DEF next
<1>5. Change(next, ok)
  BY DEF next
<1>6. /\ ~ok => faults' # 0
      /\ faults' = 0 => faults = 0
      /\ \A i \in Ids :
            \/ ledger'[i] = next[i]
            \/ /\ ledger'[i] = Absent
               /\ next[i] \in Record /\ next[i].state \in Terminal
            \/ ~ok /\ ledger'[i] = ledger[i]
  BY <1>1, <1>4, <1>5, ChangeMoves
<1>7. ClaimsTo(id, ok)
  BY <1>4, <1>6, RecordIsPresent DEF ClaimsTo, Terminal
<1>8. \A i \in Ids \ {id} : SettlesTo(ledger'[i], ledger[i], HelperActive)
  BY <1>4, <1>6 DEF SettlesTo
<1> QED
  BY <1>6, <1>7, <1>8

\* Ledger::admit under the fence's lock keeps the invariant, for a client's
\* Execute and for the Core's own restart.
LEMMA AdmissionKeeps ==
    ASSUME TypeOK, TypeOK', watching = watcher, FenceIsWatched,
           \A i \in Ids : Lane(i),
           NEW id \in Ids, Untouched(id),
           NEW r \in Record, r.state = "admitted", r.boot = boot,
           NEW goes \in {"network", "launch"},
           r.action = "network" <=> goes = "network",
           goes = "launch" => r.seen.live = live,
           AdmitFenced(id, r, goes),
           tokens'[id] = NoToken, ~(id > used'), used <= used',
           \A i \in Ids \ {id} : tokens'[i] = tokens[i],
           UNCHANGED <<up, boot, live, watching, watcher, helper, copy,
                       performed, told, misreported>>
    PROVE  LaneInv'
<1> DEFINE next == [ledger EXCEPT ![id] = r]
<1>1. ledger \in Ledgers /\ faults \in 0..MaxFaults
  BY DEF TypeOK, Ledgers
<1>2. /\ next \in Ledgers /\ next[id] = r
      /\ \A i \in Ids \ {id} : next[i] = ledger[i]
  BY <1>1 DEF Ledgers
<1>3. PICK ok \in BOOLEAN :
         /\ Change(next, ok)
         /\ fence' = (fence \/ (ok /\ r.action # "network"))
         /\ task' = IF ok THEN [task EXCEPT ![id] = goes] ELSE task
  BY DEF AdmitFenced
<1> HIDE DEF next
<1>4. /\ ~ok => faults' # 0
      /\ faults' = 0 => faults = 0
      /\ \A i \in Ids :
            \/ ledger'[i] = next[i]
            \/ /\ ledger'[i] = Absent
               /\ next[i] \in Record /\ next[i].state \in Terminal
            \/ ~ok /\ ledger'[i] = ledger[i]
  BY <1>1, <1>2, <1>3, ChangeMoves
<1>5. \A i \in Ids \ {id} : SettlesTo(ledger'[i], ledger[i], HelperActive)
  BY <1>2, <1>4 DEF SettlesTo
<1>6. \/ ledger'[id] = r
      \/ ~ok /\ ledger'[id] = Absent
  BY <1>2, <1>4 DEF Untouched, Terminal
<1>7. /\ task'[id] = IF ok THEN goes ELSE "none"
      /\ \A i \in Ids \ {id} : task'[i] = task[i]
  BY <1>3 DEF TypeOK, Untouched
<1>8. /\ fence => fence'
      /\ ok /\ goes = "launch" => fence'
      /\ fence' => fence \/ (ok /\ goes = "launch")
  BY <1>3
<1>9. FenceIsWatched'
  BY <1>4, <1>7, <1>8 DEF FenceIsWatched, Untouched
<1>10. ASSUME NEW i \in Ids
       PROVE  Lane(i)'
  <2>1. CASE i # id
    BY <1>4, <1>5, <1>7, <1>8, <2>1, SettleKeepsLane DEF TypeOK
  <2>2. CASE i = id
    <3>0. boot <= boot /\ r # Absent /\ Lane(id)
      BY RecordIsPresent DEF TypeOK
    <3> USE <1>4, <1>6, <1>7, <1>8, <2>2, <3>0 DEF Untouched
    <3>1. TokenIsUnused(id)' /\ ToldIsGone(id)'
      BY DEF TokenIsUnused, ToldIsGone
    <3>2. OneActor(id)' /\ ActingIsRunning(id)' /\ UnclaimedIsUndone(id)'
      BY DEF OneActor, ActingIsRunning, UnclaimedIsUndone
    <3>3. FencedUnderWay(id)' /\ WorkedFor(id)'
      BY DEF FencedUnderWay, WorkedFor, IsTerminal
    <3>4. ClaimedCopy(id)' /\ NotPerformed(id)'
      BY DEF ClaimedCopy, NotPerformed, Lane
    <3> QED
      BY <3>1, <3>2, <3>3, <3>4 DEF Lane
  <2> QED
    BY <2>1, <2>2
<1> QED
  BY <1>9, <1>10, Zenon DEF LaneInv, NotPerformedIsTrue, NotPerformed, Lane

\* Every step of the clients, the lane's threads, the watcher, the helpers and
\* the server's runs keeps the invariant.
LEMMA LaneInvInductive ==
    TypeOK /\ LaneInv /\ [Next]_vars => LaneInv'
<1> SUFFICES ASSUME TypeOK, LaneInv, [Next]_vars
             PROVE  LaneInv'
  OBVIOUS
<1>a. TypeOK'
  BY TypeOKInductive
<1>b. /\ watching = watcher
      /\ FenceIsWatched
      /\ \A id \in Ids : Lane(id)
  BY LaneInvParts
<1>c. /\ ledger \in Ledgers /\ faults \in 0..MaxFaults /\ boot \in 1..MaxBoots
      /\ MaxBoots \in Nat /\ HelperActive \in BOOLEAN
  BY ServiceLaneAssumption DEF TypeOK, Ledgers, HelperActive
<1>d. ASSUME watching' = watcher', FenceIsWatched',
             \A id \in Ids : Lane(id)'
      PROVE  LaneInv'
  BY <1>d, Zenon DEF LaneInv, NotPerformedIsTrue, NotPerformed, Lane
<1>1. CASE StartSession
  <2>1. watching' = watcher' /\ FenceIsWatched'
    BY <1>b, <1>c, <1>1 DEF StartSession, service, ghosts, FenceIsWatched, TypeOK
  <2>2. ASSUME NEW i \in Ids
        PROVE  Lane(i)'
    BY <1>a, <1>b, <1>c, <1>1 DEF StartSession, service, ghosts, TypeOK, Lane,
       TokenIsUnused, Untouched, OneActor, ActingIsRunning,
       UnclaimedIsUndone, Claimable, ToldIsGone, FencedUnderWay, IsTerminal,
       ClaimedCopy, WorkedFor, NotPerformed
  <2> QED
    BY <1>d, <2>1, <2>2
<1>2. CASE Crash
  <2>1. watching' = watcher' /\ FenceIsWatched'
    BY <1>b, <1>c, <1>2 DEF Crash, ServerEnds, service, ghosts, FenceIsWatched, TypeOK
  <2>2. ASSUME NEW i \in Ids
        PROVE  Lane(i)'
    BY <1>a, <1>b, <1>c, <1>2 DEF Crash, ServerEnds, service, ghosts, TypeOK, Lane,
       TokenIsUnused, Untouched, OneActor, ActingIsRunning,
       UnclaimedIsUndone, Claimable, ToldIsGone, FencedUnderWay, IsTerminal,
       ClaimedCopy, WorkedFor, NotPerformed
  <2> QED
    BY <1>d, <2>1, <2>2
<1>3. CASE NetworkChanges
  <2>1. watching' = watcher' /\ FenceIsWatched'
    BY <1>b, <1>c, <1>3 DEF NetworkChanges, server, ghosts, FenceIsWatched, TypeOK
  <2>2. ASSUME NEW i \in Ids
        PROVE  Lane(i)'
    BY <1>a, <1>b, <1>c, <1>3 DEF NetworkChanges, server, ghosts, TypeOK, Lane,
       TokenIsUnused, Untouched, OneActor, ActingIsRunning,
       UnclaimedIsUndone, Claimable, ToldIsGone, FencedUnderWay, IsTerminal,
       ClaimedCopy, WorkedFor, NotPerformed
  <2> QED
    BY <1>d, <2>1, <2>2
<1>4. CASE \E s \in live : SessionExits(s)
  <2>1. watching' = watcher' /\ FenceIsWatched'
    BY <1>b, <1>c, <1>4 DEF SessionExits, service, ghosts, FenceIsWatched, TypeOK
  <2>2. ASSUME NEW i \in Ids
        PROVE  Lane(i)'
    BY <1>a, <1>b, <1>c, <1>4 DEF SessionExits, service, ghosts, TypeOK, Lane,
       TokenIsUnused, Untouched, OneActor, ActingIsRunning,
       UnclaimedIsUndone, Claimable, ToldIsGone, FencedUnderWay, IsTerminal,
       ClaimedCopy, WorkedFor, NotPerformed
  <2> QED
    BY <1>d, <2>1, <2>2
<1>5. ASSUME NEW id \in Ids, NEW c \in Clients, NEW action \in Actions, Preview(id, c, action)
      PROVE  LaneInv'
  <2>1. watching' = watcher' /\ FenceIsWatched'
    BY <1>b, <1>c, <1>5 DEF Preview, Fresh, service, ghosts, FenceIsWatched, TypeOK
  <2>2. ASSUME NEW i \in Ids
        PROVE  Lane(i)'
    BY <1>a, <1>b, <1>c, <1>5 DEF Preview, Fresh, service, ghosts, TypeOK, Lane,
       TokenIsUnused, Untouched, OneActor, ActingIsRunning,
       UnclaimedIsUndone, Claimable, ToldIsGone, FencedUnderWay, IsTerminal,
       ClaimedCopy, WorkedFor, NotPerformed
  <2> QED
    BY <1>d, <2>1, <2>2
<1>6. ASSUME NEW id \in Ids, Launch(id)
      PROVE  LaneInv'
  <2>1. watching' = watcher' /\ FenceIsWatched'
    BY <1>b, <1>c, <1>6 DEF Launch, Fault, service, FenceIsWatched, TypeOK
  <2>2. ASSUME NEW i \in Ids
        PROVE  Lane(i)'
    BY <1>a, <1>b, <1>c, <1>6 DEF Launch, Fault, service, TypeOK, Lane,
       TokenIsUnused, Untouched, OneActor, ActingIsRunning,
       UnclaimedIsUndone, Claimable, ToldIsGone, FencedUnderWay, IsTerminal,
       ClaimedCopy, WorkedFor, NotPerformed
  <2> QED
    BY <1>d, <2>1, <2>2
<1>7. ASSUME NEW id \in Ids, StartWatcher(id)
      PROVE  LaneInv'
  <2>1. watching' = watcher' /\ FenceIsWatched'
    <3>1. CASE watching /\ UNCHANGED <<watching, watcher, faults>>
      BY <1>b, <3>1 DEF FenceIsWatched
    <3>2. CASE ~watching /\ watching' = TRUE /\ watcher' = TRUE
      BY <3>2 DEF FenceIsWatched
    <3>3. CASE Fault /\ UNCHANGED <<watching, watcher>>
      BY <1>b, <1>c, <3>3 DEF Fault, FenceIsWatched
    <3> QED
      BY <1>7, <3>1, <3>2, <3>3 DEF StartWatcher
  <2>2. ASSUME NEW i \in Ids
        PROVE  Lane(i)'
    BY <1>a, <1>b, <1>c, <1>7 DEF StartWatcher, Fault, service, ghosts, TypeOK,
       Lane, TokenIsUnused, Untouched, OneActor, ActingIsRunning,
       UnclaimedIsUndone, Claimable, ToldIsGone, FencedUnderWay, IsTerminal,
       ClaimedCopy, WorkedFor, NotPerformed
  <2> QED
    BY <1>d, <2>1, <2>2
<1>8. ASSUME NEW id \in Ids, HelperLocks(id)
      PROVE  LaneInv'
  <2>1. watching' = watcher' /\ FenceIsWatched'
    BY <1>b, <1>c, <1>8 DEF HelperLocks, RestOfHelper, server, FenceIsWatched, TypeOK
  <2>2. ASSUME NEW i \in Ids
        PROVE  Lane(i)'
    BY <1>a, <1>b, <1>c, <1>8 DEF HelperLocks, RestOfHelper, server, TypeOK, Lane,
       TokenIsUnused, Untouched, OneActor, ActingIsRunning,
       UnclaimedIsUndone, Claimable, ToldIsGone, FencedUnderWay, IsTerminal,
       ClaimedCopy, WorkedFor, NotPerformed
  <2> QED
    BY <1>d, <2>1, <2>2
<1>9. ASSUME NEW id \in Ids, HelperStops(id)
      PROVE  LaneInv'
  <2>1. watching' = watcher' /\ FenceIsWatched'
    BY <1>9 DEF HelperStops, ServerEnds, FenceIsWatched
  <2>2. ASSUME NEW i \in Ids
        PROVE  Lane(i)'
    <3> USE <1>9 DEF HelperStops, ServerEnds, RestOfHelper, TypeOK, Lane
    <3>1. TokenIsUnused(i)' /\ OneActor(i)' /\ ToldIsGone(i)'
      BY <1>b DEF TokenIsUnused, Untouched, OneActor, ToldIsGone
    <3>2. ActingIsRunning(i)' /\ NotPerformed(i)'
      BY <1>b DEF ActingIsRunning, Claimable, NotPerformed
    <3>3. UnclaimedIsUndone(i)'
      BY <1>b DEF UnclaimedIsUndone, Claimable, ActingIsRunning
    <3>4. ClaimedCopy(i)' /\ FencedUnderWay(i)' /\ WorkedFor(i)'
      BY <1>b DEF ClaimedCopy, FencedUnderWay, WorkedFor
    <3> QED
      BY <3>1, <3>2, <3>3, <3>4
  <2> QED
    BY <1>d, <2>1, <2>2
<1>10. ASSUME NEW id \in Ids, HelperRefuses(id) \/ HelperFindsUpdated(id)
      PROVE  LaneInv'
  <2>1. watching' = watcher' /\ FenceIsWatched'
    BY <1>b, <1>c, <1>10 DEF HelperRefuses, HelperFindsUpdated, RestOfHelper, server,
       FenceIsWatched, TypeOK
  <2>2. ASSUME NEW i \in Ids
        PROVE  Lane(i)'
    BY <1>a, <1>b, <1>c, <1>10 DEF HelperRefuses, HelperFindsUpdated, RestOfHelper, server, TypeOK, Lane,
       TokenIsUnused, Untouched, OneActor, ActingIsRunning,
       UnclaimedIsUndone, Claimable, ToldIsGone, FencedUnderWay, IsTerminal,
       ClaimedCopy, WorkedFor, NotPerformed
  <2> QED
    BY <1>d, <2>1, <2>2
<1>11. ASSUME NEW id \in Ids, HelperStartFails(id)
      PROVE  LaneInv'
  <2>1. watching' = watcher' /\ FenceIsWatched'
    BY <1>b, <1>c, <1>11 DEF HelperStartFails, RestOfHelper, server, FenceIsWatched, TypeOK
  <2>2. ASSUME NEW i \in Ids
        PROVE  Lane(i)'
    BY <1>a, <1>b, <1>c, <1>11 DEF HelperStartFails, RestOfHelper, server, TypeOK, Lane,
       TokenIsUnused, Untouched, OneActor, ActingIsRunning,
       UnclaimedIsUndone, Claimable, ToldIsGone, FencedUnderWay, IsTerminal,
       ClaimedCopy, WorkedFor, NotPerformed
  <2> QED
    BY <1>d, <2>1, <2>2
<1>12. ASSUME NEW id \in Ids, HelperDies(id)
      PROVE  LaneInv'
  <2>1. watching' = watcher' /\ FenceIsWatched'
    BY <1>b, <1>c, <1>12 DEF HelperDies, RestOfHelper, server, FenceIsWatched, TypeOK
  <2>2. ASSUME NEW i \in Ids
        PROVE  Lane(i)'
    BY <1>a, <1>b, <1>c, <1>12 DEF HelperDies, RestOfHelper, server, TypeOK, Lane,
       TokenIsUnused, Untouched, OneActor, ActingIsRunning,
       UnclaimedIsUndone, Claimable, ToldIsGone, FencedUnderWay, IsTerminal,
       ClaimedCopy, WorkedFor, NotPerformed
  <2> QED
    BY <1>d, <2>1, <2>2
<1>13. CASE Boot
  <2>3. Change(Settle(boot + 1, HelperActive, FALSE), TRUE)
    BY <1>13, Zenon DEF Boot, ServerStarts
  <2>4. /\ \A i \in Ids : SettlesTo(ledger'[i], ledger[i], HelperActive)
        /\ faults' = 0 => faults = 0
    BY <1>c, <2>3, SettledChange
  <2>1. watching' = watcher' /\ FenceIsWatched'
    BY <1>b, <1>c, <1>13, <2>4 DEF Boot, ServerStarts, service, ghosts, FenceIsWatched
  <2>2. ASSUME NEW i \in Ids
        PROVE  Lane(i)'
    <3>1. SettlesTo(ledger'[i], ledger[i], HelperActive)
      BY <2>4 DEF SettlesTo
    <3>5. /\ boot' = boot + 1 /\ boot <= boot'
          /\ UNCHANGED <<task, performed, tokens, used, told, misreported, copy>>
          /\ used <= used'
          /\ \/ helper'[i] = helper[i]
             \/ helper[i] = "stopped" /\ helper'[i] \in {"done", "failed"}
      BY <1>c, <1>13 DEF Boot, ServerStarts, service, ghosts, TypeOK
    <3>2. /\ TokenIsUnused(i)' /\ OneActor(i)' /\ ActingIsRunning(i)'
          /\ UnclaimedIsUndone(i)' /\ ToldIsGone(i)' /\ ClaimedCopy(i)'
          /\ NotPerformed(i)'
          /\ ledger'[i] # Absent => ledger'[i].boot <= boot
      BY <1>a, <1>b, <3>1, <3>5, SettleKeeps
    <3>3. ledger'[i] # Absent => ledger'[i].boot # boot'
      BY <1>a, <1>c, <3>2, <3>5 DEF TypeOK, Record
    <3>4. FencedUnderWay(i)' /\ WorkedFor(i)'
      BY <3>3 DEF FencedUnderWay, WorkedFor, IsTerminal
    <3> QED
      BY <3>2, <3>4 DEF Lane
  <2> QED
    BY <1>d, <2>1, <2>2
<1>14. CASE Recovers
  <2>3. Change(Settle(boot + 1, TRUE, FALSE), TRUE)
    BY <1>14, Zenon DEF Recovers, ServerStarts
  <2>4. /\ \A i \in Ids : SettlesTo(ledger'[i], ledger[i], TRUE)
        /\ faults' = 0 => faults = 0
    BY <1>c, <2>3, SettledChange
  <2>1. watching' = watcher' /\ FenceIsWatched'
    BY <1>b, <1>c, <1>14, <2>4 DEF Recovers, ServerStarts, RestOfHelper, FenceIsWatched
  <2>2. ASSUME NEW i \in Ids
        PROVE  Lane(i)'
    <3>1. SettlesTo(ledger'[i], ledger[i], HelperActive)
      BY <2>4 DEF SettlesTo
    <3>5. /\ boot' = boot + 1 /\ boot <= boot'
          /\ UNCHANGED <<task, performed, tokens, used, told, misreported, copy>>
          /\ used <= used'
          /\ \/ helper'[i] = helper[i]
             \/ helper[i] = "stopped" /\ helper'[i] \in {"done", "failed"}
      BY <1>c, <1>14 DEF Recovers, ServerStarts, RestOfHelper, TypeOK
    <3>2. /\ TokenIsUnused(i)' /\ OneActor(i)' /\ ActingIsRunning(i)'
          /\ UnclaimedIsUndone(i)' /\ ToldIsGone(i)' /\ ClaimedCopy(i)'
          /\ NotPerformed(i)'
          /\ ledger'[i] # Absent => ledger'[i].boot <= boot
      BY <1>a, <1>b, <3>1, <3>5, SettleKeeps
    <3>3. ledger'[i] # Absent => ledger'[i].boot # boot'
      BY <1>a, <1>c, <3>2, <3>5 DEF TypeOK, Record
    <3>4. FencedUnderWay(i)' /\ WorkedFor(i)'
      BY <3>3 DEF FencedUnderWay, WorkedFor, IsTerminal
    <3> QED
      BY <3>2, <3>4 DEF Lane
  <2> QED
    BY <1>d, <2>1, <2>2
<1>15. ASSUME NEW id \in Ids, HelperStarts(id)
      PROVE  LaneInv'
  <2>3. Change(Settle(boot + 1, TRUE, FALSE), TRUE)
    BY <1>15, Zenon DEF HelperStarts, ServerStarts
  <2>4. /\ \A i \in Ids : SettlesTo(ledger'[i], ledger[i], TRUE)
        /\ faults' = 0 => faults = 0
    BY <1>c, <2>3, SettledChange
  <2>1. watching' = watcher' /\ FenceIsWatched'
    BY <1>b, <1>c, <1>15, <2>4 DEF HelperStarts, ServerStarts, RestOfHelper, FenceIsWatched
  <2>2. ASSUME NEW i \in Ids
        PROVE  Lane(i)'
    <3>1. SettlesTo(ledger'[i], ledger[i], HelperActive)
      BY <2>4 DEF SettlesTo
    <3>5. /\ boot' = boot + 1 /\ boot <= boot'
          /\ UNCHANGED <<task, performed, tokens, used, told, misreported, copy>>
          /\ used <= used'
          /\ \/ helper'[i] = helper[i]
             \/ helper[i] = "stopped" /\ helper'[i] \in {"done", "failed"}
      BY <1>c, <1>15 DEF HelperStarts, ServerStarts, RestOfHelper, TypeOK
    <3>2. /\ TokenIsUnused(i)' /\ OneActor(i)' /\ ActingIsRunning(i)'
          /\ UnclaimedIsUndone(i)' /\ ToldIsGone(i)' /\ ClaimedCopy(i)'
          /\ NotPerformed(i)'
          /\ ledger'[i] # Absent => ledger'[i].boot <= boot
      BY <1>a, <1>b, <3>1, <3>5, SettleKeeps
    <3>3. ledger'[i] # Absent => ledger'[i].boot # boot'
      BY <1>a, <1>c, <3>2, <3>5 DEF TypeOK, Record
    <3>4. FencedUnderWay(i)' /\ WorkedFor(i)'
      BY <3>3 DEF FencedUnderWay, WorkedFor, IsTerminal
    <3> QED
      BY <3>2, <3>4 DEF Lane
  <2> QED
    BY <1>d, <2>1, <2>2
<1>16. ASSUME NEW expired \in BOOLEAN, Watch(expired)
       PROVE  LaneInv'
  <2> DEFINE next == Settle(boot, HelperActive, expired)
  <2>3. PICK ok \in BOOLEAN : Change(next, ok) /\ Release(ok /\ AllTerminal(next))
    BY <1>16, Zenon DEF Watch
  <2>4. /\ \A i \in Ids : SettlesTo(ledger'[i], ledger[i], HelperActive)
        /\ faults' = 0 => faults = 0
        /\ ok /\ AllTerminal(next) => AllTerminal(ledger)'
    BY <1>c, <2>3, SettledChange
  <2> HIDE DEF next
  <2>5. fence => fence' \/ AllTerminal(ledger)'
    BY <2>3, <2>4, Zenon DEF Release
  <2>1. watching' = watcher' /\ FenceIsWatched'
    BY <2>3, Zenon DEF Release, FenceIsWatched
  <2>2. ASSUME NEW i \in Ids
        PROVE  Lane(i)'
    <3>1. SettlesTo(ledger'[i], ledger[i], HelperActive)
      BY <2>4
    <3>2. fence => fence' \/ IsTerminal(ledger'[i])
      BY <2>5 DEF AllTerminal
    <3> QED
      BY <1>a, <1>b, <1>16, <2>4, <3>1, <3>2, SettleKeepsLane
         DEF Watch, service, ghosts, TypeOK
  <2> QED
    BY <1>d, <2>1, <2>2
<1>17. ASSUME NEW id \in Ids, NEW expired \in BOOLEAN, Resolve(id, expired)
       PROVE  LaneInv'
  <2>3. PICK ok \in BOOLEAN : Change(Settle(boot, HelperActive, expired), ok)
    BY <1>17, Zenon DEF Resolve
  <2>4. /\ \A i \in Ids : SettlesTo(ledger'[i], ledger[i], HelperActive)
        /\ faults' = 0 => faults = 0
    BY <1>c, <2>3, SettledChange
  <2>1. watching' = watcher' /\ FenceIsWatched'
    BY <1>b, <1>17, <2>4 DEF Resolve, server, FenceIsWatched
  <2>2. ASSUME NEW i \in Ids
        PROVE  Lane(i)'
    <3>1. SettlesTo(ledger'[i], ledger[i], HelperActive)
      BY <2>4
    <3> QED
      BY <1>a, <1>b, <1>17, <2>4, <3>1, SettleKeepsLane
         DEF Resolve, server, ghosts, TypeOK
  <2> QED
    BY <1>d, <2>1, <2>2
<1>18. ASSUME NEW c \in Clients, Revoke(c)
       PROVE  LaneInv'
  <2> DEFINE next == [i \in Ids |->
                        IF ledger[i] # Absent /\ ledger[i].actor = c
                        THEN [ledger[i] EXCEPT !.orphaned = TRUE]
                        ELSE ledger[i]]
  <2>3. PICK ok \in BOOLEAN : Change(next, ok)
    BY <1>18 DEF Revoke
  <2>4. \A r \in Record : /\ [r EXCEPT !.orphaned = TRUE] \in Record
                          /\ SameOperation([r EXCEPT !.orphaned = TRUE], r)
                          /\ [r EXCEPT !.orphaned = TRUE].state = r.state
    BY DEF Record, SameOperation
  <2>5. /\ next \in Ledgers
        /\ \A i \in Ids : SettlesTo(next[i], ledger[i], TRUE)
    BY <1>c, <2>4 DEF Ledgers, SettlesTo
  <2> HIDE DEF next
  <2>6. /\ \A i \in Ids : SettlesTo(ledger'[i], ledger[i], HelperActive)
        /\ faults' = 0 => faults = 0
    BY <1>c, <2>3, <2>5, ChangeMoves, RecordIsPresent DEF SettlesTo
  <2>1. watching' = watcher' /\ FenceIsWatched'
    BY <1>b, <1>18, <2>6 DEF Revoke, server, FenceIsWatched
  <2>2. ASSUME NEW i \in Ids
        PROVE  Lane(i)'
    <3>1. SettlesTo(ledger'[i], ledger[i], HelperActive)
      BY <2>6
    <3> QED
      BY <1>a, <1>b, <1>18, <2>6, <3>1, SettleKeepsLane
         DEF Revoke, server, ghosts, TypeOK
  <2> QED
    BY <1>d, <2>1, <2>2
<1>19. ASSUME NEW id \in Ids, Acknowledge(id)
       PROVE  LaneInv'
  <2> DEFINE next == [ledger EXCEPT ![id] = Absent]
  <2>3. PICK ok \in BOOLEAN : /\ Change(next, ok)
                              /\ told' = IF ok THEN told \cup {id} ELSE told
    BY <1>19 DEF Acknowledge
  <2>4. ledger[id] \in Record /\ ledger[id].state \in Terminal
    BY <1>c, <1>19 DEF Acknowledge, Ledgers
  <2>5. /\ next \in Ledgers /\ next[id] = Absent
        /\ \A i \in Ids : SettlesTo(next[i], ledger[i], TRUE)
    BY <1>c, <2>4 DEF Ledgers, SettlesTo
  <2> HIDE DEF next
  <2>6. /\ \A i \in Ids : SettlesTo(ledger'[i], ledger[i], HelperActive)
        /\ faults' = 0 => faults = 0
        /\ ok => ledger'[id] = Absent
    BY <1>c, <2>3, <2>5, ChangeMoves, RecordIsPresent DEF SettlesTo
  <2>1. watching' = watcher' /\ FenceIsWatched'
    BY <1>b, <1>19, <2>6 DEF Acknowledge, server, FenceIsWatched
  <2>2. ASSUME NEW i \in Ids
        PROVE  Lane(i)'
    <3>1. SettlesTo(ledger'[i], ledger[i], HelperActive)
      BY <2>6
    <3>2. i \in told' \ told => ledger[i] # Absent /\ ledger'[i] = Absent
      BY <2>3, <2>4, <2>6, RecordIsPresent
    <3> QED
      BY <1>a, <1>b, <1>19, <2>6, <3>1, <3>2, SettleKeepsLane
         DEF Acknowledge, server, TypeOK
  <2> QED
    BY <1>d, <2>1, <2>2
<1>20. ASSUME NEW id \in Ids, MarkLaunch(id)
       PROVE  LaneInv'
  <2> DEFINE state == IF task[id] = "launched" THEN "launched"
                      ELSE "not_performed"
  <2>3. PICK ok \in BOOLEAN : Change(Mark(id, state), ok)
    BY <1>20 DEF MarkLaunch
  <2>4. /\ MarksTo(id, state, ok)
        /\ \A i \in Ids \ {id} : SettlesTo(ledger'[i], ledger[i], HelperActive)
        /\ faults' = 0 => faults = 0 /\ ok
    BY <2>3, MarkedChange DEF Terminal
  <2>5. /\ state \in {"launched", "not_performed"}
        /\ \/ task[id] = "launched" /\ state = "launched"
           \/ task[id] = "failed" /\ state = "not_performed"
    BY <1>20 DEF MarkLaunch
  <2> HIDE DEF state
  <2>6. task'[id] = "watch" /\ \A i \in Ids \ {id} : task'[i] = task[i]
    BY <1>20 DEF MarkLaunch, TypeOK
  <2>1. watching' = watcher' /\ FenceIsWatched'
    BY <1>b, <1>20, <2>4, <2>6 DEF MarkLaunch, FenceIsWatched
  <2>2. ASSUME NEW i \in Ids
        PROVE  Lane(i)'
    <3>1. CASE i # id
      BY <1>a, <1>b, <1>20, <2>4, <2>6, <3>1, SettleKeepsLane
         DEF MarkLaunch, service, ghosts, TypeOK
    <3>2. CASE i = id
      <4> USE <1>b, <1>20, <2>4, <2>5, <2>6, <3>2 DEF MarkLaunch, ghosts, Lane, MarksTo
      <4>1. TokenIsUnused(id)' /\ ToldIsGone(id)'
        BY RecordIsPresent DEF TokenIsUnused, Untouched, ToldIsGone
      <4>2. OneActor(id)'
        BY RecordIsPresent DEF OneActor, SameOperation
      <4>3. ActingIsRunning(id)'
        BY RecordIsPresent DEF ActingIsRunning, OneActor, Claimable, Unclaimed, Terminal
      <4>4. UnclaimedIsUndone(id)'
        BY RecordIsPresent DEF UnclaimedIsUndone, Claimable, Unclaimed, Terminal
      <4>5. FencedUnderWay(id)'
        BY RecordIsPresent DEF FencedUnderWay, IsTerminal, SameOperation
      <4>6. ClaimedCopy(id)'
        BY RecordIsPresent DEF ClaimedCopy, SameOperation
      <4>7. WorkedFor(id)'
        BY RecordIsPresent DEF WorkedFor, OneActor, IsTerminal, SameOperation, Terminal
      <4>8. NotPerformed(id)'
        BY RecordIsPresent DEF NotPerformed, UnclaimedIsUndone, OneActor, Terminal
      <4> QED
        BY <4>1, <4>2, <4>3, <4>4, <4>5, <4>6, <4>7, <4>8
    <3> QED
      BY <3>1, <3>2
  <2> QED
    BY <1>d, <2>1, <2>2
<1>21. ASSUME NEW id \in Ids, NetworkMarks(id)
       PROVE  LaneInv'
  <2> DEFINE state == IF task[id] = "refused" THEN "failed" ELSE task[id]
  <2>3. PICK ok \in BOOLEAN : Change(Mark(id, state), ok)
    BY <1>21 DEF NetworkMarks
  <2>5. state \in {"done", "failed", "unresolved"}
    BY <1>21 DEF NetworkMarks
  <2> HIDE DEF state
  <2>4. /\ MarksTo(id, state, ok)
        /\ \A i \in Ids \ {id} : SettlesTo(ledger'[i], ledger[i], HelperActive)
        /\ faults' = 0 => faults = 0 /\ ok
    BY <2>3, <2>5, MarkedChange DEF Terminal
  <2>6. task'[id] = "none" /\ \A i \in Ids \ {id} : task'[i] = task[i]
    BY <1>21 DEF NetworkMarks, TypeOK
  <2>1. watching' = watcher' /\ FenceIsWatched'
    BY <1>b, <1>21, <2>4, <2>6 DEF NetworkMarks, FenceIsWatched
  <2>2. ASSUME NEW i \in Ids
        PROVE  Lane(i)'
    <3>1. CASE i # id
      BY <1>a, <1>b, <1>21, <2>4, <2>6, <3>1, SettleKeepsLane
         DEF NetworkMarks, service, ghosts, TypeOK
    <3>2. CASE i = id
      <4>a. /\ helper[id] = "none" /\ task[id] # "none"
            /\ task[id] \notin {"launch", "failed"}
        BY <1>b, <1>21 DEF NetworkMarks, Lane, OneActor
      <4> USE <1>b, <1>21, <2>4, <2>5, <2>6, <3>2, <4>a DEF NetworkMarks, ghosts, Lane, MarksTo
      <4>1. TokenIsUnused(id)' /\ ToldIsGone(id)'
        BY RecordIsPresent DEF TokenIsUnused, Untouched, ToldIsGone
      <4>2. OneActor(id)' /\ ActingIsRunning(id)' /\ FencedUnderWay(id)'
        BY DEF OneActor, ActingIsRunning, FencedUnderWay
      <4>4. UnclaimedIsUndone(id)'
        BY RecordIsPresent DEF UnclaimedIsUndone, Claimable, Unclaimed, Terminal
      <4>6. ClaimedCopy(id)'
        BY RecordIsPresent DEF ClaimedCopy, SameOperation
      <4>7. WorkedFor(id)'
        BY RecordIsPresent DEF WorkedFor, IsTerminal, Terminal
      <4>8. NotPerformed(id)'
        BY RecordIsPresent DEF NotPerformed, Terminal
      <4> QED
        BY <4>1, <4>2, <4>4, <4>6, <4>7, <4>8
    <3> QED
      BY <3>1, <3>2
  <2> QED
    BY <1>d, <2>1, <2>2
<1>22. ASSUME NEW id \in Ids, HelperMarks(id)
       PROVE  LaneInv'
  <2>3. PICK ok \in BOOLEAN : Change(Mark(id, helper[id]), ok)
    BY <1>22 DEF HelperMarks
  <2>5. helper[id] \in {"done", "failed", "unresolved"}
    BY <1>22 DEF HelperMarks
  <2>4. /\ MarksTo(id, helper[id], ok)
        /\ \A i \in Ids \ {id} : SettlesTo(ledger'[i], ledger[i], HelperActive)
        /\ faults' = 0 => faults = 0 /\ ok
    BY <2>3, <2>5, MarkedChange DEF Terminal
  <2>6. /\ helper'[id] = "gone" /\ copy'[id] = Absent
        /\ \A i \in Ids \ {id} : helper'[i] = helper[i] /\ copy'[i] = copy[i]
    BY <1>22 DEF HelperMarks, TypeOK
  <2>1. watching' = watcher' /\ FenceIsWatched'
    BY <1>b, <1>22, <2>4 DEF HelperMarks, server, FenceIsWatched
  <2>2. ASSUME NEW i \in Ids
        PROVE  Lane(i)'
    <3>1. CASE i # id
      BY <1>a, <1>b, <1>22, <2>4, <2>6, <3>1, SettleKeepsLane
         DEF HelperMarks, RestOfHelper, server, TypeOK
    <3>2. CASE i = id
      <4>a. /\ task[id] \notin {"launch", "network", "done", "refused", "unresolved"}
            /\ id \in misreported \/ task[id] # "failed"
            /\ ledger[id] = Absent \/ ledger[id].action # "network"
            /\ ~Claimable(id)
        BY <1>b, <2>5 DEF Lane, OneActor, ActingIsRunning
      <4> USE <1>b, <1>22, <2>4, <2>5, <2>6, <3>2, <4>a
          DEF HelperMarks, RestOfHelper, server, Lane, MarksTo
      <4>1. TokenIsUnused(id)' /\ ToldIsGone(id)'
        BY RecordIsPresent DEF TokenIsUnused, Untouched, ToldIsGone
      <4>2. ActingIsRunning(id)' /\ FencedUnderWay(id)'
        BY DEF ActingIsRunning, FencedUnderWay
      <4>3. OneActor(id)'
        BY RecordIsPresent DEF OneActor, SameOperation
      <4>4. UnclaimedIsUndone(id)'
        BY RecordIsPresent DEF UnclaimedIsUndone, Claimable, Unclaimed, Terminal
      <4>6. ClaimedCopy(id)'
        BY RecordIsPresent DEF ClaimedCopy, SameOperation
      <4>7. WorkedFor(id)'
        BY RecordIsPresent DEF WorkedFor, IsTerminal, Terminal
      <4>8. NotPerformed(id)'
        BY RecordIsPresent DEF NotPerformed, Terminal
      <4> QED
        BY <4>1, <4>2, <4>3, <4>4, <4>6, <4>7, <4>8
    <3> QED
      BY <3>1, <3>2
  <2> QED
    BY <1>d, <2>1, <2>2
<1>23. ASSUME NEW id \in Ids, HelperClaims(id)
       PROVE  LaneInv'
  <2>3. /\ helper[id] = "locked" /\ HelperActive
        /\ task[id] \notin {"launch", "network", "done", "refused", "unresolved"}
        /\ id \in misreported \/ task[id] # "failed"
        /\ ledger[id] = Absent \/ ledger[id].action # "network"
    BY <1>b, <1>23 DEF HelperClaims, HelperActive, Lane, OneActor
  <2>4. CASE ~Claimable(id)
    <3>1. watching' = watcher' /\ FenceIsWatched'
      BY <1>b, <1>23, <2>4 DEF HelperClaims, server, FenceIsWatched
    <3>2. ASSUME NEW i \in Ids
          PROVE  Lane(i)'
      BY <1>a, <1>b, <1>23, <2>3, <2>4 DEF HelperClaims, RestOfHelper, server,
         TypeOK, Lane, TokenIsUnused, Untouched, OneActor, ActingIsRunning,
         UnclaimedIsUndone, Claimable, Unclaimed, ToldIsGone, FencedUnderWay,
         IsTerminal, ClaimedCopy, WorkedFor, NotPerformed
    <3> QED
      BY <1>d, <3>1, <3>2
  <2>5. CASE Claimable(id)
    <3>3. PICK ok \in BOOLEAN :
             /\ Change([ledger EXCEPT ![id].state = "running"], ok)
             /\ helper' = [helper EXCEPT ![id] = IF ok THEN "claimed" ELSE "gone"]
             /\ copy' = IF ok THEN [copy EXCEPT ![id] = ledger[id]] ELSE copy
      BY <1>23, <2>5 DEF HelperClaims
    <3>4. /\ ClaimsTo(id, ok)
          /\ \A i \in Ids \ {id} : SettlesTo(ledger'[i], ledger[i], HelperActive)
          /\ faults' = 0 => faults = 0 /\ ok
      BY <2>5, <3>3, ClaimedChange
    <3>5. /\ ok => helper'[id] = "claimed" /\ copy'[id] = ledger[id]
          /\ ~ok => helper'[id] = "gone" /\ copy'[id] = copy[id]
          /\ \A i \in Ids \ {id} : helper'[i] = helper[i] /\ copy'[i] = copy[i]
      BY <3>3 DEF TypeOK
    <3>1. watching' = watcher' /\ FenceIsWatched'
      BY <1>b, <1>23, <3>4 DEF HelperClaims, server, FenceIsWatched
    <3>2. ASSUME NEW i \in Ids
          PROVE  Lane(i)'
      <4>1. CASE i # id
        BY <1>a, <1>b, <1>23, <3>4, <3>5, <4>1, SettleKeepsLane
           DEF HelperClaims, RestOfHelper, server, TypeOK
      <4>2. CASE i = id
        <5> USE <1>b, <1>23, <2>3, <2>5, <3>4, <3>5, <4>2
            DEF HelperClaims, RestOfHelper, server, Lane, ClaimsTo, Claimable
        <5>1. TokenIsUnused(id)' /\ ToldIsGone(id)'
          BY DEF TokenIsUnused, Untouched, ToldIsGone
        <5>2. OneActor(id)'
          BY DEF OneActor, SameOperation
        <5>3. ActingIsRunning(id)'
          BY RecordIsPresent DEF ActingIsRunning, Unclaimed
        <5>4. UnclaimedIsUndone(id)'
          BY DEF UnclaimedIsUndone
        <5>5. FencedUnderWay(id)'
          BY RecordIsPresent
             DEF FencedUnderWay, IsTerminal, SameOperation, Terminal, Unclaimed
        <5>6. ClaimedCopy(id)'
          BY RecordIsPresent DEF ClaimedCopy, SameOperation
        <5>7. WorkedFor(id)'
          BY RecordIsPresent DEF WorkedFor, IsTerminal, SameOperation
        <5>8. NotPerformed(id)'
          BY DEF NotPerformed, Unclaimed
        <5> QED
          BY <5>1, <5>2, <5>3, <5>4, <5>5, <5>6, <5>7, <5>8
      <4> QED
        BY <4>1, <4>2
    <3> QED
      BY <1>d, <3>1, <3>2
  <2> QED
    BY <2>4, <2>5
<1>24. ASSUME NEW id \in Ids, NetworkApplies(id)
       PROVE  LaneInv'
  <2>3. task[id] = "network" /\ helper[id] = "none" /\ tokens[id] = NoToken
    BY <1>b, <1>24 DEF NetworkApplies, Lane, OneActor, TokenIsUnused, Untouched
  <2>4. \A i \in Ids \ {id} : task'[i] = task[i] /\ performed'[i] = performed[i]
    BY <1>24 DEF NetworkApplies, TypeOK
  <2>5. \/ /\ UNCHANGED <<ledger, faults>> /\ performed'[id] = performed[id]
           /\ \/ task'[id] = "refused"
              \/ task'[id] = "none" /\ ledger[id] # Absent /\ ~Claimable(id)
        \/ /\ Claimable(id)
           /\ \E ok \in BOOLEAN :
                 /\ Change([ledger EXCEPT ![id].state = "running"], ok)
                 /\ task'[id] \in {"done", "refused", "unresolved"}
                 /\ ok \/ performed'[id] = performed[id]
    BY <1>24 DEF NetworkApplies, TypeOK
  <2>6. FenceIsWatched /\ (faults' = 0 => faults = 0) => FenceIsWatched'
    BY <1>24, <2>3, <2>4 DEF NetworkApplies, FenceIsWatched
  <2>7. CASE UNCHANGED <<ledger, faults>> /\ performed'[id] = performed[id]
              /\ (\/ task'[id] = "refused"
                  \/ task'[id] = "none" /\ ledger[id] # Absent /\ ~Claimable(id))
    <3>1. watching' = watcher' /\ FenceIsWatched'
      BY <1>b, <1>24, <2>6, <2>7 DEF NetworkApplies
    <3>2. ASSUME NEW i \in Ids
          PROVE  Lane(i)'
      <4>1. CASE i # id
        BY <1>a, <1>b, <1>24, <2>4, <2>7, <4>1, SettleKeepsLane
           DEF NetworkApplies, TypeOK, SettlesTo
      <4>2. CASE i = id
        BY <1>b, <1>24, <2>3, <2>7, <4>2 DEF NetworkApplies, Lane, TokenIsUnused,
           Untouched, OneActor, ActingIsRunning, UnclaimedIsUndone, Claimable,
           Unclaimed, ToldIsGone, FencedUnderWay, IsTerminal, ClaimedCopy,
           WorkedFor, NotPerformed
      <4> QED
        BY <4>1, <4>2
    <3> QED
      BY <1>d, <3>1, <3>2
  <2>8. ASSUME Claimable(id), NEW ok \in BOOLEAN,
               Change([ledger EXCEPT ![id].state = "running"], ok),
               task'[id] \in {"done", "refused", "unresolved"},
               ok \/ performed'[id] = performed[id]
        PROVE  LaneInv'
    <3>4. /\ ClaimsTo(id, ok)
          /\ \A i \in Ids \ {id} : SettlesTo(ledger'[i], ledger[i], HelperActive)
          /\ faults' = 0 => faults = 0 /\ ok
      BY <2>8, ClaimedChange
    <3>1. watching' = watcher' /\ FenceIsWatched'
      BY <1>b, <1>24, <2>6, <3>4 DEF NetworkApplies
    <3>2. ASSUME NEW i \in Ids
          PROVE  Lane(i)'
      <4>1. CASE i # id
        BY <1>a, <1>b, <1>24, <2>4, <3>4, <4>1, SettleKeepsLane
           DEF NetworkApplies, TypeOK
      <4>2. CASE i = id
        <5> USE <1>b, <1>24, <2>3, <2>8, <3>4, <4>2
            DEF NetworkApplies, Lane, ClaimsTo, Claimable
        <5>1. TokenIsUnused(id)' /\ ToldIsGone(id)'
          BY DEF TokenIsUnused, Untouched, ToldIsGone
        <5>2. OneActor(id)' /\ ActingIsRunning(id)' /\ FencedUnderWay(id)'
          BY DEF OneActor, ActingIsRunning, FencedUnderWay
        <5>4. UnclaimedIsUndone(id)'
          BY DEF UnclaimedIsUndone, Unclaimed
        <5>6. ClaimedCopy(id)'
          BY RecordIsPresent DEF ClaimedCopy, SameOperation
        <5>7. WorkedFor(id)'
          BY DEF WorkedFor
        <5>8. NotPerformed(id)'
          BY DEF NotPerformed, Unclaimed
        <5> QED
          BY <5>1, <5>2, <5>4, <5>6, <5>7, <5>8
      <4> QED
        BY <4>1, <4>2
    <3> QED
      BY <1>d, <3>1, <3>2
  <2> QED
    BY <2>5, <2>7, <2>8
<1>25. ASSUME NEW id \in Ids, Execute(id)
       PROVE  LaneInv'
  <2>3. Untouched(id) /\ ~(id > used)
    BY <1>b, <1>25 DEF Execute, Lane, TokenIsUnused
  <2>4. tokens'[id] = NoToken /\ \A i \in Ids \ {id} : tokens'[i] = tokens[i]
    BY <1>25 DEF Execute, Redeem, TypeOK
  <2>5. CASE UNCHANGED <<ledger, fence, task, faults>>
    <3>1. watching' = watcher' /\ FenceIsWatched'
      BY <1>b, <1>25, <2>5 DEF Execute, FenceIsWatched
    <3>2. ASSUME NEW i \in Ids
          PROVE  Lane(i)'
      BY <1>b, <1>25, <2>3, <2>4, <2>5 DEF Execute, ghosts, Lane, TokenIsUnused,
         Untouched, OneActor, ActingIsRunning, UnclaimedIsUndone, Claimable,
         ToldIsGone, FencedUnderWay, IsTerminal, ClaimedCopy, WorkedFor,
         NotPerformed
    <3> QED
      BY <1>d, <3>1, <3>2
  <2>6. CASE ~UNCHANGED <<ledger, fence, task, faults>>
    <3> DEFINE r == Admitted(request[id].actor, ActionOf(id), tokens[id])
               goes == IF request[id].action = "network" THEN "network" ELSE "launch"
    <3>1. StillAsPreviewed(id) /\ AdmitFenced(id, r, goes)
      BY <1>25, <2>6 DEF Execute
    <3>2. request[id] \in [actor: Clients, action: Actions]
      BY <1>25 DEF Execute, TypeOK
    <3>3. request[id].action \in {"stop", "restart", "network"}
      BY <3>2, ServiceLaneAssumption
    <3>4. /\ ActionOf(id) \in {"stop", "restart", "update", "network"}
          /\ ActionOf(id) = "network" <=> goes = "network"
          /\ goes \in {"network", "launch"}
      BY <3>3 DEF ActionOf
    <3>5. goes = "launch" => tokens[id].live = live
      BY <3>1, <3>3 DEF StillAsPreviewed, Observes
    <3>6. /\ r \in Record /\ r.state = "admitted" /\ r.boot = boot
          /\ r.action = ActionOf(id) /\ r.seen = tokens[id]
      BY <3>2, <3>4 DEF Admitted, Record, Unclaimed, TypeOK
    <3> HIDE DEF r, goes
    <3>7. /\ UNCHANGED <<up, boot, live, watching, watcher, helper, copy,
                         performed, told, misreported>>
          /\ used <= used'
      BY <1>25 DEF Execute, ghosts, TypeOK
    <3>8. /\ r.action = "network" <=> goes = "network"
          /\ goes = "launch" => r.seen.live = live
      BY <3>4, <3>5, <3>6
    <3>9. tokens'[id] = NoToken /\ ~(id > used')
      BY <1>25, <2>3, <2>4 DEF Execute
    <3> QED
      BY <1>a, <1>b, <2>3, <2>4, <3>1, <3>4, <3>6, <3>7, <3>8, <3>9, AdmissionKeeps
  <2> QED
    BY <2>5, <2>6
<1>26. ASSUME NEW id \in Ids, RestartSilently(id)
       PROVE  LaneInv'
  <2> DEFINE r == Admitted(Core, "update", [boot |-> boot, live |-> {}, flag |-> TRUE])
  <2>1. AdmitFenced(id, r, "launch") /\ live = {}
    BY <1>26 DEF RestartSilently
  <2>2. /\ r \in Record /\ r.state = "admitted" /\ r.boot = boot
        /\ r.action = "update" /\ r.seen.live = {}
    BY <1>c, ServiceLaneAssumption DEF Admitted, Record, Unclaimed, Observation
  <2> HIDE DEF r
  <2>3. /\ id > used /\ ~(id > used') /\ used <= used'
    BY <1>26 DEF RestartSilently, Fresh, TypeOK
  <2>4. Untouched(id) /\ tokens[id] = NoToken
    BY <1>b, <2>3 DEF Lane, TokenIsUnused
  <2>5. UNCHANGED <<up, boot, live, watching, watcher, helper, copy, tokens,
                    performed, told, misreported>>
    BY <1>26 DEF RestartSilently, ghosts
  <2> QED
    BY <1>a, <1>b, <2>1, <2>2, <2>3, <2>4, <2>5, AdmissionKeeps
<1>27. CASE UNCHANGED vars
  <2>1. watching' = watcher' /\ FenceIsWatched'
    BY <1>b, <1>27 DEF vars, server, FenceIsWatched
  <2>2. ASSUME NEW i \in Ids
        PROVE  Lane(i)'
    <3>1. SettlesTo(ledger'[i], ledger[i], HelperActive)
      BY <1>27 DEF vars, SettlesTo
    <3> QED
      BY <1>a, <1>b, <1>27, <3>1, SettleKeepsLane
         DEF vars, server, ghosts, TypeOK
  <2> QED
    BY <1>d, <2>1, <2>2
<1> QED
  BY <1>1, <1>2, <1>3, <1>4, <1>5, <1>6, <1>7, <1>8, <1>9, <1>10, <1>11, <1>12,
     <1>13, <1>14, <1>15, <1>16, <1>17, <1>18, <1>19, <1>20, <1>21, <1>22, <1>23,
     <1>24, <1>25, <1>26, <1>27, Zenon DEF Next, ThreadStep, HelperStep

-----------------------------------------------------------------------------
(* What the lane promises.                                                 *)

\* The lane starts with no operation, token, thread or helper.
LEMMA LaneInvInitially == Init => LaneInv
<1> SUFFICES ASSUME Init
             PROVE  LaneInv
  OBVIOUS
<1>1. watching = watcher /\ FenceIsWatched
  BY DEF Init, FenceIsWatched
<1>2. ASSUME NEW id \in Ids
      PROVE  Lane(id)
  <2>1. /\ ledger[id] = Absent /\ tokens[id] = NoToken /\ copy[id] = Absent
        /\ task[id] = "none" /\ helper[id] = "none" /\ performed[id] = 0
        /\ told = {} /\ misreported = {}
    BY DEF Init
  <2>2. TokenIsUnused(id) /\ OneActor(id) /\ ActingIsRunning(id)
    BY <2>1 DEF TokenIsUnused, Untouched, OneActor, ActingIsRunning
  <2>3. UnclaimedIsUndone(id) /\ ToldIsGone(id) /\ FencedUnderWay(id)
    BY <2>1 DEF UnclaimedIsUndone, ToldIsGone, FencedUnderWay, IsTerminal
  <2>4. ClaimedCopy(id) /\ WorkedFor(id) /\ NotPerformed(id)
    BY <2>1 DEF ClaimedCopy, WorkedFor, NotPerformed, IsTerminal
  <2> QED
    BY <2>2, <2>3, <2>4 DEF Lane
<1> QED
  BY <1>1, <1>2, LaneInvParts

\* The lane keeps its invariant: the fence, the watcher, the records, the
\* threads and the helpers agree on who works for every operation.
THEOREM LaneInvHolds == Spec => []LaneInv
  BY LaneInvInitially, LaneInvInductive, LaneTypeCorrect, PTL DEF Spec

\* An operation that settle or launch_helper recorded as not performed never
\* ended a server, and no helper of it will.
THEOREM NotPerformedHolds == Spec => []NotPerformedIsTrue
<1>1. LaneInv => NotPerformedIsTrue
  BY DEF LaneInv
<1> QED
  BY <1>1, LaneInvHolds, PTL

\* The fence of Stop, Restart and Update is never forgotten: the thread that
\* set it starts the watcher that releases it, or one runs already.
THEOREM FenceHolds == Spec => []FenceIsWatched
<1>1. LaneInv => FenceIsWatched
  BY DEF LaneInv
<1> QED
  BY <1>1, LaneInvHolds, PTL

\* settle leaves no operation without a thread or a helper unsettled for ever.
THEOREM NothingStuckHolds == Spec => []NothingIsStuck
<1>1. TypeOK /\ LaneInv => NothingIsStuck
  <2> SUFFICES ASSUME TypeOK, LaneInv, NEW id \in Ids,
                      ~IsTerminal(ledger[id]), up, faults = 0,
                      task[id] = "none", helper[id] \in {"none", "gone"}
               PROVE  SettledState(id, boot, TRUE) \in Terminal
    BY DEF NothingIsStuck
  <2>1. /\ ledger[id] \in Record
        /\ ledger[id].state \in Unclaimed \cup {"running"}
        /\ ledger[id].action \in {"stop", "restart", "update", "network"}
    BY DEF TypeOK, IsTerminal, Record
  <2>2. ledger[id].boot = boot =>
           /\ ledger[id].state # "admitted"
           /\ ~(ledger[id].state = "running" /\ ledger[id].action = "network")
    BY DEF LaneInv, WorkedFor
  <2> QED
    BY <2>1, <2>2 DEF SettledState, ActivationOutcome, Unclaimed, Terminal
<1> QED
  BY <1>1, LaneTypeCorrect, LaneInvHolds, PTL

\* Only a helper that claimed its record, and the lane that claimed a Network
\* Access change, carry an operation out.
LEMMA PerformedByClaim ==
    ASSUME TypeOK, [Next]_vars, NEW id \in Ids, performed'[id] # performed[id]
    PROVE  \/ HelperStops(id)
           \/ task[id] = "network" /\ Claimable(id)
<1>a. ASSUME NEW i \in Ids, ThreadStep(i)
      PROVE  NetworkApplies(i) \/ performed' = performed
  BY <1>a DEF ThreadStep, ghosts, Launch, MarkLaunch, StartWatcher, NetworkMarks
<1>b. ASSUME NEW i \in Ids, HelperStep(i)
      PROVE  HelperStops(i) \/ performed' = performed
  BY <1>b DEF HelperStep, HelperLocks, HelperClaims, HelperFindsUpdated, HelperRefuses, HelperStarts,
     HelperStartFails, HelperMarks, HelperDies
<1>c. ASSUME NEW i \in Ids,
             \/ \E c \in Clients, action \in Actions : Preview(i, c, action)
             \/ Execute(i) \/ RestartSilently(i)
             \/ \E expired \in BOOLEAN : Resolve(i, expired)
             \/ Acknowledge(i)
      PROVE  performed' = performed
  BY <1>c DEF ghosts, Preview, Execute, RestartSilently, Resolve, Acknowledge
<1>d. ASSUME \/ StartSession \/ Crash \/ Boot \/ Recovers \/ NetworkChanges
             \/ \E expired \in BOOLEAN : Watch(expired)
             \/ \E s \in live : SessionExits(s)
             \/ \E c \in Clients : Revoke(c)
             \/ UNCHANGED vars
      PROVE  performed' = performed
  BY <1>d DEF vars, ghosts, StartSession, Crash, Boot, Recovers, NetworkChanges,
     Watch, SessionExits, Revoke
<1>1. \/ \E i \in Ids : HelperStops(i) \/ NetworkApplies(i)
      \/ performed' = performed
  BY <1>a, <1>b, <1>c, <1>d, Zenon DEF Next
<1>2. ASSUME NEW i \in Ids, HelperStops(i)
      PROVE  i = id
  BY <1>2 DEF HelperStops, TypeOK
<1>3. ASSUME NEW i \in Ids, NetworkApplies(i)
      PROVE  i = id /\ task[id] = "network" /\ Claimable(id)
  BY <1>3 DEF NetworkApplies, TypeOK
<1> QED
  BY <1>1, <1>2, <1>3

\* However often an Execute is dispatched, and whatever crashes, an operation
\* is carried out once, and not after its outcome was acknowledged.
THEOREM CarriedOutOnceHolds == Spec => CarriedOutOnce
<1>1. ASSUME TypeOK, LaneInv, [Next]_vars, NEW id \in Ids \ misreported,
             performed'[id] # performed[id]
      PROVE  performed[id] = 0 /\ id \notin told
  <2>1. \/ helper[id] = "claimed"
        \/ Claimable(id)
    BY <1>1, PerformedByClaim DEF HelperStops
  <2> QED
    BY <1>1, <2>1 DEF LaneInv, UnclaimedIsUndone, ActingIsRunning, ToldIsGone,
       Claimable
<1>2. TypeOK /\ LaneInv /\ [Next]_vars =>
         [\A id \in Ids \ misreported :
             performed'[id] # performed[id]
                => performed[id] = 0 /\ id \notin told]_vars
  BY <1>1
<1> QED
  BY <1>2, LaneTypeCorrect, LaneInvHolds, PTL DEF Spec, CarriedOutOnce

\* The fence that execute sets holds from the observation to the end of the
\* server: no Session ends that the confirmed preview did not show.
THEOREM EndsOnlyWhatWasShownHolds == Spec => EndsOnlyWhatWasShown
<1>1. ASSUME TypeOK, LaneInv, [Next]_vars, NEW id \in Ids \ misreported,
             performed'[id] # performed[id], copy[id] # Absent,
             up, copy[id].boot = boot
      PROVE  live \subseteq copy[id].seen.live
  <2>1. helper[id] = "claimed"
    BY <1>1, PerformedByClaim DEF HelperStops, LaneInv, OneActor, ClaimedCopy
  <2>2. ~IsTerminal(ledger[id]) /\ ledger[id] # Absent
    BY <1>1, <2>1 DEF LaneInv, ActingIsRunning, IsTerminal, Terminal
  <2>3. copy[id].boot = ledger[id].boot /\ copy[id].seen = ledger[id].seen
    BY <1>1, <2>1, <2>2 DEF LaneInv, ClaimedCopy
  <2> QED
    BY <1>1, <2>1, <2>2, <2>3 DEF LaneInv, FencedUnderWay
<1>2. TypeOK /\ LaneInv /\ [Next]_vars =>
         [\A id \in Ids \ misreported :
             performed'[id] # performed[id] /\ copy[id] # Absent
                /\ up /\ copy[id].boot = boot
                   => live \subseteq copy[id].seen.live]_vars
  BY <1>1
<1> QED
  BY <1>2, LaneTypeCorrect, LaneInvHolds, PTL DEF Spec, EndsOnlyWhatWasShown

-----------------------------------------------------------------------------
(* Done is true.                                                           *)

\* Ledger::settle calls done only what an activation completed, and a Restart that
\* another run of the server follows.
LEMMA SettleSaysDone ==
    ASSUME TypeOK, NEW run, NEW active \in BOOLEAN, NEW expired \in BOOLEAN,
           NEW ok \in BOOLEAN, Change(Settle(run, active, expired), ok),
           NEW id \in Ids, ledger'[id] # Absent, ledger'[id].state = "done"
    PROVE  /\ ledger[id] # Absent
           /\ \/ ledger[id].state = "done"
              \/ ledger[id].action = "update" /\ activation = "completed"
              \/ ledger[id].action = "restart" /\ ledger[id].boot # run
<1> DEFINE next == Settle(run, active, expired)
<1>1. ledger \in Ledgers /\ faults \in 0..MaxFaults /\ next \in Ledgers
  BY SettleMoves DEF TypeOK, Ledgers
<1>2. ASSUME ledger[id] # Absent, next[id] # Absent, next[id].state = "done"
      PROVE  \/ ledger[id].state = "done"
             \/ ledger[id].action = "update" /\ activation = "completed"
             \/ ledger[id].action = "restart" /\ ledger[id].boot # run
  <2>1. ledger[id] \in Record
    BY <1>1, <1>2 DEF Ledgers
  <2>2. CASE next[id] = ledger[id]
    BY <1>2, <2>2
  <2>3. CASE next[id] = [ledger[id] EXCEPT !.state = SettledState(id, run, expired)]
    <3>1. SettledState(id, run, expired) = "done"
      BY <1>2, <2>1, <2>3 DEF Record
    <3> QED
      BY <2>1, <3>1 DEF SettledState, ActivationOutcome, Unclaimed, Record
  <2> QED
    BY <1>2, <2>2, <2>3 DEF Settle
<1>3. ledger[id] = Absent => next[id] = Absent
  BY DEF Settle
<1> HIDE DEF next
<1>4. ledger'[id] = next[id] \/ ledger'[id] = ledger[id]
  <2>1. Change(next, ok)
    BY DEF next
  <2> QED
    BY <1>1, <2>1, ChangeMoves
<1> QED
  BY <1>2, <1>3, <1>4

\* What carrying out an operation leaves true stays true: an activation that
\* completed stays so, and a server that ended does not run again.
LEMMA CarriedOutStays ==
    ASSUME TypeOK, NEW id \in Ids, ledger[id] # Absent, ledger[id].boot <= boot,
           ledger'[id].action = ledger[id].action, ledger'[id].boot = ledger[id].boot,
           performed'[id] = performed[id],
           activation = "completed" => activation' = "completed",
           (boot' = boot /\ (up' => up)) \/ boot' = boot + 1,
           CarriedOut(id)
    PROVE  CarriedOut(id)'
<1>1. ledger[id].boot \in Nat /\ boot \in Nat
  BY ServiceLaneAssumption DEF TypeOK, Record
<1>2. ~up \/ boot # ledger[id].boot => ~up' \/ boot' # ledger'[id].boot
  BY <1>1
<1> QED
  BY <1>2 DEF CarriedOut

\* A step that only settles the record of an operation keeps what the invariant
\* says about done.
LEMMA DoneKept ==
    ASSUME TypeOK, NEW id \in Ids, Lane(id), DoneAsSaid(id),
           ledger'[id] # Absent =>
              /\ ledger[id] # Absent
              /\ ledger'[id].action = ledger[id].action
              /\ ledger'[id].boot = ledger[id].boot
              /\ ledger'[id].state = "done" => ledger[id].state = "done"
                                               \/ CarriedOut(id)',
           helper'[id] \in {"claimed", "stopped", "done"} =>
              helper'[id] = helper[id] /\ copy'[id] = copy[id],
           task'[id] \in {"network", "done", "refused", "unresolved"} =>
              task'[id] = task[id],
           performed'[id] = performed[id],
           activation = "completed" => activation' = "completed",
           (boot' = boot /\ (up' => up)) \/ boot' = boot + 1
    PROVE  DoneAsSaid(id)'
<1>1. ledger[id] # Absent => ledger[id].boot <= boot
  BY DEF Lane, ClaimedCopy
<1>2. ledger'[id] # Absent /\ CarriedOut(id) => CarriedOut(id)'
  BY <1>1, CarriedOutStays
<1>3. helper'[id] = "done" /\ ledger'[id] # Absent => CarriedOut(id)'
  BY <1>2 DEF DoneAsSaid
<1>4. ledger'[id] # Absent /\ ledger'[id].state = "done" => CarriedOut(id)'
  BY <1>2 DEF DoneAsSaid
<1>5. helper'[id] \in {"claimed", "stopped", "done"} /\ ledger'[id] # Absent
         => copy'[id] # Absent /\ copy'[id].action = ledger'[id].action
  BY DEF DoneAsSaid
<1>6. /\ (task'[id] \in {"network", "done", "refused", "unresolved"}
            /\ ledger'[id] # Absent => ledger'[id].action = "network")
      /\ task'[id] = "done" => performed'[id] = 1
  BY DEF DoneAsSaid
<1>7. Absent' = Absent
  BY DEF Absent
<1> QED
  BY <1>3, <1>4, <1>5, <1>6, <1>7 DEF DoneAsSaid

\* Every step keeps what the invariant says about done.
LEMMA DoneInvInductive ==
    TypeOK /\ LaneInv /\ DoneInv /\ [Next]_vars => DoneInv'
<1> SUFFICES ASSUME TypeOK, LaneInv, DoneInv, [Next]_vars, NEW i \in Ids
             PROVE  DoneAsSaid(i)'
  BY DEF DoneInv
<1>a. DoneAsSaid(i) /\ \A id \in Ids : Lane(id)
  BY LaneInvParts DEF DoneInv
<1>b. /\ ledger \in Ledgers /\ faults \in 0..MaxFaults /\ boot \in Nat
      /\ HelperActive \in BOOLEAN /\ Absent' = Absent
      /\ ledger[i] # Absent => ledger[i] \in Record /\ ledger[i].boot <= boot
  BY <1>a, ServiceLaneAssumption
     DEF TypeOK, Ledgers, HelperActive, Absent, Lane, ClaimedCopy
\* the premises of DoneKept when the server's run and its activation stay
<1>c. ASSUME UNCHANGED <<boot, up, activation>>,
             performed'[i] = performed[i],
             ledger'[i] # Absent =>
                /\ ledger[i] # Absent
                /\ ledger'[i].action = ledger[i].action
                /\ ledger'[i].boot = ledger[i].boot
                /\ ledger'[i].state = "done" => ledger[i].state = "done"
                                                \/ CarriedOut(i)',
             helper'[i] \in {"claimed", "stopped", "done"} =>
                helper'[i] = helper[i] /\ copy'[i] = copy[i],
             task'[i] \in {"network", "done", "refused", "unresolved"} =>
                task'[i] = task[i]
      PROVE  DoneAsSaid(i)'
  BY <1>a, <1>c, DoneKept
\* a change leaves alone, or drops, a record that it does not name
<1>d. ASSUME NEW next \in Ledgers, NEW ok \in BOOLEAN, Change(next, ok),
             next[i] = ledger[i]
      PROVE  ledger'[i] = ledger[i] \/ ledger'[i] = Absent
  BY <1>b, <1>d, ChangeMoves
\* a settlement by the server that runs after the step
<1>e. ASSUME NEW active \in BOOLEAN, NEW expired \in BOOLEAN, NEW ok \in BOOLEAN,
             Change(Settle(boot', active, expired), ok), up',
             activation = "completed" => activation' = "completed"
      PROVE  ledger'[i] # Absent =>
                /\ ledger[i] # Absent
                /\ ledger'[i].action = ledger[i].action
                /\ ledger'[i].boot = ledger[i].boot
                /\ ledger'[i].state = "done" => ledger[i].state = "done"
                                                \/ CarriedOut(i)'
  <2> SUFFICES ASSUME ledger'[i] # Absent
               PROVE  /\ ledger[i] # Absent
                      /\ ledger'[i].action = ledger[i].action
                      /\ ledger'[i].boot = ledger[i].boot
                      /\ ledger'[i].state = "done" => ledger[i].state = "done"
                                                      \/ CarriedOut(i)'
    OBVIOUS
  <2>1. SettlesTo(ledger'[i], ledger[i], active)
    BY <1>e, SettledChange
  <2>2. /\ ledger[i] # Absent
        /\ ledger'[i].action = ledger[i].action
        /\ ledger'[i].boot = ledger[i].boot
    BY <2>1, RecordIsPresent DEF SettlesTo, SameOperation
  <2>3. ASSUME ledger'[i].state = "done", ledger[i].state # "done"
        PROVE  CarriedOut(i)'
    <3>1. \/ ledger[i].action = "update" /\ activation = "completed"
          \/ ledger[i].action = "restart" /\ ledger[i].boot # boot'
      BY <1>e, <2>3, SettleSaysDone
    <3> QED
      BY <1>e, <2>2, <3>1 DEF CarriedOut
  <2> QED
    BY <2>2, <2>3
<1>1. CASE \/ StartSession \/ NetworkChanges \/ \E s \in live : SessionExits(s)
           \/ \E id \in Ids, c \in Clients, action \in Actions : Preview(id, c, action)
  BY <1>1, <1>c DEF StartSession, NetworkChanges, SessionExits, Preview, service, ghosts,
     server
<1>2. CASE Crash
  <2>1. /\ boot' = boot /\ (up' => up) /\ task'[i] = "none"
        /\ UNCHANGED <<performed, ledger, helper, copy, activation>>
    BY <1>2 DEF Crash, ServerEnds, service, ghosts
  <2> QED
    BY <1>a, <2>1, DoneKept
<1>3. CASE Boot
  <2>1. /\ boot' = boot + 1 /\ up'
        /\ UNCHANGED <<performed, task, helper, copy, activation>>
    BY <1>3 DEF Boot, ServerStarts, service, ghosts
  <2>2. Change(Settle(boot', HelperActive, FALSE), TRUE)
    BY <1>3, <2>1, Zenon DEF Boot, ServerStarts
  <2> QED
    BY <1>a, <1>b, <1>e, <2>1, <2>2, DoneKept
<1>4. CASE Recovers
  <2>1. /\ boot' = boot + 1 /\ up'
        /\ UNCHANGED <<performed, task, helper, copy>>
        /\ activation = "completed" => activation' = "completed"
    BY <1>4 DEF Recovers, ServerStarts, ActivationEnds, RestOfHelper
  <2>2. Change(Settle(boot', TRUE, FALSE), TRUE)
    BY <1>4, <2>1, Zenon DEF Recovers, ServerStarts
  <2> QED
    BY <1>a, <1>b, <1>e, <2>1, <2>2, DoneKept
<1>5. ASSUME NEW expired \in BOOLEAN, Watch(expired)
      PROVE  DoneAsSaid(i)'
  <2>1. PICK ok \in BOOLEAN : Change(Settle(boot, HelperActive, expired), ok)
    BY <1>5, Zenon DEF Watch
  <2>2. UNCHANGED <<boot, up, activation, performed, helper, copy, task>>
    BY <1>5 DEF Watch, service, ghosts
  <2>3. CASE up
    BY <1>b, <1>c, <1>e, <2>1, <2>2, <2>3
  <2>4. CASE ~up
    <3>1. SettlesTo(ledger'[i], ledger[i], HelperActive)
      BY <1>b, <2>1, SettledChange
    <3>2. ledger'[i] # Absent =>
             /\ ledger[i] # Absent
             /\ ledger'[i].action = ledger[i].action
             /\ ledger'[i].boot = ledger[i].boot
      BY <3>1, RecordIsPresent DEF SettlesTo, SameOperation
    <3>3. ASSUME ledger'[i] # Absent, ledger'[i].state = "done",
                 ledger[i].state # "done"
          PROVE  CarriedOut(i)'
      <4>1. \/ ledger[i].action = "update" /\ activation = "completed"
            \/ ledger[i].action = "restart"
        BY <1>b, <2>1, <3>3, SettleSaysDone
      <4> QED
        BY <2>2, <2>4, <3>2, <3>3, <4>1 DEF CarriedOut
    <3> QED
      BY <1>c, <2>2, <3>2, <3>3
  <2> QED
    BY <2>3, <2>4
<1>6. ASSUME NEW id \in Ids, NEW expired \in BOOLEAN, Resolve(id, expired)
      PROVE  DoneAsSaid(i)'
  <2>1. PICK ok \in BOOLEAN : Change(Settle(boot, HelperActive, expired), ok)
    BY <1>6, Zenon DEF Resolve
  <2>2. up /\ UNCHANGED <<boot, up, activation, performed, helper, copy, task>>
    BY <1>6 DEF Resolve, service, ghosts, server
  <2> QED
    BY <1>b, <1>c, <1>e, <2>1, <2>2
<1>7. ASSUME NEW c \in Clients, Revoke(c)
      PROVE  DoneAsSaid(i)'
  <2> DEFINE next == [id \in Ids |->
                        IF ledger[id] # Absent /\ ledger[id].actor = c
                        THEN [ledger[id] EXCEPT !.orphaned = TRUE]
                        ELSE ledger[id]]
  <2>1. PICK ok \in BOOLEAN : Change(next, ok)
    BY <1>7 DEF Revoke
  <2>2. \A r \in Record : /\ [r EXCEPT !.orphaned = TRUE] \in Record
                          /\ SameOperation([r EXCEPT !.orphaned = TRUE], r)
                          /\ [r EXCEPT !.orphaned = TRUE].state = r.state
    BY DEF Record, SameOperation
  <2>3. /\ next \in Ledgers
        /\ ledger[i] = Absent => next[i] = Absent
        /\ ledger[i] # Absent => /\ next[i].action = ledger[i].action
                                 /\ next[i].boot = ledger[i].boot
                                 /\ next[i].state = ledger[i].state
    BY <1>b, <2>2 DEF Ledgers, SameOperation
  <2> HIDE DEF next
  <2>4. ledger'[i] = next[i] \/ ledger'[i] = Absent \/ ledger'[i] = ledger[i]
    BY <1>b, <2>1, <2>3, ChangeMoves
  <2>5. UNCHANGED <<boot, up, activation, performed, helper, copy, task>>
    BY <1>7 DEF Revoke, service, ghosts, server
  <2> QED
    BY <1>c, <2>3, <2>4, <2>5
<1>8. ASSUME NEW id \in Ids, Acknowledge(id)
      PROVE  DoneAsSaid(i)'
  <2> DEFINE next == [ledger EXCEPT ![id] = Absent]
  <2>1. PICK ok \in BOOLEAN : Change(next, ok)
    BY <1>8 DEF Acknowledge
  <2>2. next \in Ledgers /\ (next[i] = Absent \/ next[i] = ledger[i])
    BY <1>b DEF Ledgers
  <2> HIDE DEF next
  <2>3. ledger'[i] = ledger[i] \/ ledger'[i] = Absent
    BY <1>b, <2>1, <2>2, ChangeMoves
  <2>4. UNCHANGED <<boot, up, activation, performed, helper, copy, task>>
    BY <1>8 DEF Acknowledge, service, server
  <2> QED
    BY <1>c, <2>3, <2>4

<1>9. ASSUME NEW id \in Ids, Untouched(id), NEW r \in Record, r.state = "admitted",
             NEW goes \in {"network", "launch"},
             r.action = "network" <=> goes = "network",
             AdmitFenced(id, r, goes),
             UNCHANGED <<up, boot, helper, copy, performed, activation>>
      PROVE  DoneAsSaid(i)'
  <2> DEFINE next == [ledger EXCEPT ![id] = r]
  <2>1. /\ next \in Ledgers /\ next[id] = r
        /\ i # id => next[i] = ledger[i]
    BY <1>b DEF Ledgers
  <2>2. PICK ok \in BOOLEAN :
           /\ Change(next, ok)
           /\ task' = IF ok THEN [task EXCEPT ![id] = goes] ELSE task
    BY <1>9 DEF AdmitFenced
  <2> HIDE DEF next
  <2>3. CASE i # id
    <3>1. ledger'[i] = ledger[i] \/ ledger'[i] = Absent
      BY <1>d, <2>1, <2>2, <2>3
    <3>2. task'[i] = task[i]
      BY <2>2, <2>3 DEF TypeOK
    <3> QED
      BY <1>9, <1>c, <3>1, <3>2
  <2>4. CASE i = id
    <3>1. ledger'[i] = r \/ ledger'[i] = Absent
      <4>1. \/ ledger'[i] = next[i] \/ ledger'[i] = Absent
            \/ ledger'[i] = ledger[i]
        BY <1>b, <2>1, <2>2, ChangeMoves
      <4> QED
        BY <1>9, <2>1, <2>4, <4>1 DEF Untouched
    <3>2. helper'[i] = "none" /\ task'[i] \in {"none", goes}
      BY <1>9, <2>2, <2>4 DEF Untouched, TypeOK
    <3> QED
      BY <1>9, <1>b, <3>1, <3>2 DEF DoneAsSaid
  <2> QED
    BY <2>3, <2>4
<1>10. ASSUME NEW id \in Ids, Execute(id)
       PROVE  DoneAsSaid(i)'
  <2>1. Untouched(id)
    BY <1>a, <1>10 DEF Execute, Lane, TokenIsUnused
  <2>2. UNCHANGED <<up, boot, helper, copy, performed, activation>>
    BY <1>10 DEF Execute, ghosts, service
  <2>3. CASE UNCHANGED <<ledger, fence, task, faults>>
    BY <1>c, <2>2, <2>3
  <2>4. CASE ~UNCHANGED <<ledger, fence, task, faults>>
    <3> DEFINE r == Admitted(request[id].actor, ActionOf(id), tokens[id])
               goes == IF request[id].action = "network" THEN "network" ELSE "launch"
    <3>1. AdmitFenced(id, r, goes)
      BY <1>10, <2>4 DEF Execute
    <3>2. request[id] \in [actor: Clients, action: Actions]
      BY <1>10 DEF Execute, TypeOK
    <3>3. request[id].action \in {"stop", "restart", "network"}
      BY <3>2, ServiceLaneAssumption
    <3>4. /\ ActionOf(id) \in {"stop", "restart", "update", "network"}
          /\ ActionOf(id) = "network" <=> goes = "network"
          /\ goes \in {"network", "launch"}
      BY <3>3 DEF ActionOf
    <3>5. r \in Record /\ r.state = "admitted" /\ r.action = ActionOf(id)
      BY <3>2, <3>4 DEF Admitted, Record, Unclaimed, TypeOK
    <3> HIDE DEF r, goes
    <3> QED
      BY <1>9, <2>1, <2>2, <3>1, <3>4, <3>5
  <2> QED
    BY <2>3, <2>4
<1>11. ASSUME NEW id \in Ids, RestartSilently(id)
       PROVE  DoneAsSaid(i)'
  <2> DEFINE r == Admitted(Core, "update", [boot |-> boot, live |-> {}, flag |-> TRUE])
  <2>1. AdmitFenced(id, r, "launch")
    BY <1>11 DEF RestartSilently
  <2>2. r \in Record /\ r.state = "admitted" /\ r.action = "update"
    BY ServiceLaneAssumption DEF Admitted, Record, Unclaimed, Observation, TypeOK
  <2> HIDE DEF r
  <2>3. id > used
    BY <1>11 DEF RestartSilently, Fresh, TypeOK
  <2>4. Untouched(id)
    BY <1>a, <2>3 DEF Lane, TokenIsUnused
  <2>5. UNCHANGED <<up, boot, helper, copy, performed, activation>>
    BY <1>11 DEF RestartSilently, ghosts, service
  <2> QED
    BY <1>9, <2>1, <2>2, <2>4, <2>5
<1>12. ASSUME NEW id \in Ids, Launch(id) \/ StartWatcher(id)
       PROVE  DoneAsSaid(i)'
  <2>1. /\ UNCHANGED <<ledger, up, boot, activation, copy, performed>>
        /\ helper'[i] \in {"claimed", "stopped", "done"} => helper'[i] = helper[i]
        /\ task'[i] \in {"network", "done", "refused", "unresolved"}
              => task'[i] = task[i]
    BY <1>12 DEF Launch, StartWatcher, service, ghosts, TypeOK
  <2> QED
    BY <1>c, <2>1
\* a mark of another operation, or one that does not say done
<1>13. ASSUME NEW id \in Ids, NEW state \in Terminal \cup {"launched"}, NEW ok \in BOOLEAN,
              Change(Mark(id, state), ok)
       PROVE  ledger'[i] # Absent =>
                 /\ ledger[i] # Absent
                 /\ ledger'[i].action = ledger[i].action
                 /\ ledger'[i].boot = ledger[i].boot
                 /\ ledger'[i].state = "done" =>
                       ledger[i].state = "done" \/ (i = id /\ state = "done")
  <2>1. CASE i = id
    <3>1. MarksTo(id, state, ok)
      BY <1>13, MarkedChange
    <3> QED
      BY <2>1, <3>1, RecordIsPresent DEF MarksTo, SameOperation
  <2>2. CASE i # id
    <3>1. Mark(id, state) \in Ledgers /\ Mark(id, state)[i] = ledger[i]
      BY <1>b, <2>2, MarkMoves
    <3>2. ledger'[i] = ledger[i] \/ ledger'[i] = Absent
      BY <1>13, <1>d, <3>1
    <3> QED
      BY <3>2
  <2> QED
    BY <2>1, <2>2
<1>14. ASSUME NEW id \in Ids, MarkLaunch(id)
       PROVE  DoneAsSaid(i)'
  <2> DEFINE state == IF task[id] = "launched" THEN "launched" ELSE "not_performed"
  <2>1. PICK ok \in BOOLEAN : Change(Mark(id, state), ok)
    BY <1>14 DEF MarkLaunch
  <2>2. state \in Terminal \cup {"launched"} /\ state # "done"
    BY DEF Terminal
  <2> HIDE DEF state
  <2>3. /\ UNCHANGED <<up, boot, activation, helper, copy, performed>>
        /\ task'[i] \in {"network", "done", "refused", "unresolved"}
              => task'[i] = task[i]
    BY <1>14 DEF MarkLaunch, service, ghosts, TypeOK
  <2> QED
    BY <1>c, <1>13, <2>1, <2>2, <2>3
<1>15. ASSUME NEW id \in Ids, NetworkMarks(id)
       PROVE  DoneAsSaid(i)'
  <2> DEFINE state == IF task[id] = "refused" THEN "failed" ELSE task[id]
  <2>1. PICK ok \in BOOLEAN : Change(Mark(id, state), ok)
    BY <1>15 DEF NetworkMarks
  <2>2. state \in Terminal \cup {"launched"} /\ (state = "done" => task[id] = "done")
    BY <1>15 DEF NetworkMarks, Terminal
  <2> HIDE DEF state
  <2>3. /\ UNCHANGED <<up, boot, activation, helper, copy, performed>>
        /\ task'[i] \in {"network", "done", "refused", "unresolved"}
              => task'[i] = task[i]
    BY <1>15 DEF NetworkMarks, service, ghosts, TypeOK
  <2>4. ASSUME ledger'[i] # Absent, i = id, state = "done"
        PROVE  CarriedOut(i)'
    <3>1. ledger'[i].action = "network" /\ performed[i] = 1
      BY <1>13, <1>a, <2>1, <2>2, <2>4 DEF DoneAsSaid
    <3> QED
      BY <2>3, <3>1 DEF CarriedOut
  <2> QED
    BY <1>c, <1>13, <2>1, <2>2, <2>3, <2>4
<1>16. ASSUME NEW id \in Ids, HelperMarks(id)
       PROVE  DoneAsSaid(i)'
  <2>1. PICK ok \in BOOLEAN : Change(Mark(id, helper[id]), ok)
    BY <1>16 DEF HelperMarks
  <2>2. helper[id] \in Terminal \cup {"launched"}
    BY <1>16 DEF HelperMarks, Terminal
  <2>3. /\ UNCHANGED <<up, boot, activation, performed, task>>
        /\ helper'[i] \in {"claimed", "stopped", "done"}
              => helper'[i] = helper[i] /\ copy'[i] = copy[i]
    BY <1>16 DEF HelperMarks, RestOfHelper, server, service, TypeOK
  <2>4. ASSUME ledger'[i] # Absent, i = id, helper[id] = "done"
        PROVE  CarriedOut(i)'
    <3>1. /\ ledger[i] # Absent /\ ledger'[i].action = ledger[i].action
          /\ ledger'[i].boot = ledger[i].boot
      BY <1>13, <2>1, <2>2, <2>4
    <3>2. CarriedOut(i)
      BY <1>a, <2>4, <3>1 DEF DoneAsSaid
    <3> QED
      BY <1>b, <2>3, <3>1, <3>2, CarriedOutStays
  <2> QED
    BY <1>c, <1>13, <2>1, <2>2, <2>3, <2>4

<1>17. ASSUME NEW id \in Ids,
              HelperLocks(id) \/ HelperRefuses(id) \/ HelperStartFails(id) \/ HelperDies(id)
       PROVE  DoneAsSaid(i)'
  <2>1. /\ UNCHANGED <<ledger, up, boot, activation, performed, task>>
        /\ helper'[i] \in {"claimed", "stopped", "done"}
              => helper'[i] = helper[i] /\ copy'[i] = copy[i]
    BY <1>17 DEF HelperLocks, HelperRefuses, HelperStartFails, HelperDies, RestOfHelper,
       server, service, TypeOK
  <2> QED
    BY <1>c, <2>1
<1>18. ASSUME NEW id \in Ids, NEW ok \in BOOLEAN, Claimable(id),
              Change([ledger EXCEPT ![id].state = "running"], ok)
       PROVE  ledger'[i] # Absent =>
                 /\ ledger[i] # Absent
                 /\ ledger'[i].action = ledger[i].action
                 /\ ledger'[i].boot = ledger[i].boot
                 /\ ledger'[i].state = "done" => ledger[i].state = "done"
  <2>1. CASE i = id
    <3>1. ClaimsTo(id, ok)
      BY <1>18, ClaimedChange
    <3> QED
      BY <1>18, <2>1, <3>1 DEF ClaimsTo, SameOperation, Claimable
  <2>2. CASE i # id
    <3> DEFINE next == [ledger EXCEPT ![id].state = "running"]
    <3>1. [ledger[id] EXCEPT !.state = "running"] \in Record
      BY <1>b, <1>18 DEF Claimable, Ledgers, Record
    <3>2. next \in Ledgers /\ next[i] = ledger[i]
      BY <1>b, <2>2, <3>1 DEF Ledgers
    <3> HIDE DEF next
    <3>3. Change(next, ok)
      BY <1>18 DEF next
    <3>4. ledger'[i] = ledger[i] \/ ledger'[i] = Absent
      BY <1>d, <3>2, <3>3
    <3> QED
      BY <3>4
  <2> QED
    BY <2>1, <2>2
<1>19. ASSUME NEW id \in Ids, HelperClaims(id)
       PROVE  DoneAsSaid(i)'
  <2>1. UNCHANGED <<up, boot, activation, performed, task>>
    BY <1>19 DEF HelperClaims, RestOfHelper, server, service
  <2>2. CASE ~Claimable(id)
    <3>1. /\ UNCHANGED <<ledger, copy>>
          /\ helper' = [helper EXCEPT ![id] = "gone"]
      BY <1>19, <2>2 DEF HelperClaims
    <3>2. helper'[i] = helper[i] \/ helper'[i] = "gone"
      BY <3>1 DEF TypeOK
    <3> QED
      BY <1>c, <2>1, <3>1, <3>2
  <2>3. CASE Claimable(id)
    <3>1. PICK ok \in BOOLEAN :
             /\ Change([ledger EXCEPT ![id].state = "running"], ok)
             /\ helper' = [helper EXCEPT ![id] = IF ok THEN "claimed" ELSE "gone"]
             /\ copy' = IF ok THEN [copy EXCEPT ![id] = ledger[id]] ELSE copy
      BY <1>19, <2>3 DEF HelperClaims
    <3>2. CASE i # id
      <4>1. helper'[i] = helper[i] /\ copy'[i] = copy[i]
        BY <3>1, <3>2 DEF TypeOK
      <4> QED
        BY <1>c, <1>18, <2>1, <2>3, <3>1, <4>1
    <3>3. CASE i = id /\ ~ok
      <4>1. helper'[i] = "gone"
        BY <3>1, <3>3 DEF TypeOK
      <4> QED
        BY <1>c, <1>18, <2>1, <2>3, <3>1, <4>1
    <3>4. CASE i = id /\ ok
      <4>1. helper'[i] = "claimed" /\ copy'[i] = ledger[i]
        BY <3>1, <3>4 DEF TypeOK
      <4>2. /\ ledger'[i].action = ledger[i].action /\ ledger'[i] # Absent
            /\ ledger'[i].state = "running" /\ ledger[i] # Absent
        <5>1. ClaimsTo(id, TRUE)
          BY <2>3, <3>1, <3>4, ClaimedChange
        <5> QED
          BY <2>3, <3>4, <5>1 DEF ClaimsTo, SameOperation, Claimable
      <4> QED
        BY <1>a, <1>b, <2>1, <4>1, <4>2 DEF DoneAsSaid
    <3> QED
      BY <3>2, <3>3, <3>4
  <2> QED
    BY <2>2, <2>3
<1>20. ASSUME NEW id \in Ids, HelperStops(id)
       PROVE  DoneAsSaid(i)'
  <2>1. /\ UNCHANGED <<ledger, copy, boot>> /\ ~up' /\ task'[i] = "none"
        /\ i # id => performed'[i] = performed[i] /\ helper'[i] = helper[i]
        /\ helper'[id] = IF copy[id].action = "stop" THEN "done" ELSE "stopped"
        /\ helper[id] = "claimed"
    BY <1>20 DEF HelperStops, ServerEnds, TypeOK
  <2>2. activation = "completed" => activation' = "completed"
    BY <1>20 DEF HelperStops
  <2>3. CASE i # id
    BY <1>a, <2>1, <2>2, <2>3, DoneKept
  <2>4. CASE i = id
    <3>1. ledger[i] # Absent => ledger[i].action # "network"
      BY <1>a, <2>1, <2>4 DEF Lane, OneActor
    <3>2. ledger[i] # Absent => copy[i] # Absent /\ copy[i].action = ledger[i].action
      BY <1>a, <2>1, <2>4 DEF DoneAsSaid
    <3>3. ledger[i] # Absent /\ ledger[i].state = "done" => CarriedOut(i)'
      BY <1>a, <2>1, <2>2, <3>1 DEF DoneAsSaid, CarriedOut
    <3>4. ledger[i] # Absent /\ helper'[i] = "done" => CarriedOut(i)'
      BY <2>1, <2>4, <3>2 DEF CarriedOut
    <3> QED
      BY <1>b, <2>1, <3>2, <3>3, <3>4 DEF DoneAsSaid
  <2> QED
    BY <2>3, <2>4
<1>21. ASSUME NEW id \in Ids, HelperFindsUpdated(id)
       PROVE  DoneAsSaid(i)'
  <2>1. /\ UNCHANGED <<ledger, up, boot, activation, performed, task, copy>>
        /\ i # id => helper'[i] = helper[i]
        /\ helper[id] = "claimed" /\ helper'[id] = "done"
        /\ copy[id].action = "update" /\ activation = "completed"
    BY <1>21 DEF HelperFindsUpdated, RestOfHelper, server, service, TypeOK
  <2>2. CASE i # id
    BY <1>c, <2>1, <2>2
  <2>3. CASE i = id
    <3>1. ledger[i] # Absent => copy[i] # Absent /\ copy[i].action = ledger[i].action
      BY <1>a, <2>1, <2>3 DEF DoneAsSaid
    <3>2. ledger[i] # Absent => CarriedOut(i)'
      BY <2>1, <2>3, <3>1 DEF CarriedOut
    <3> QED
      BY <1>a, <1>b, <2>1, <2>3, <3>1, <3>2 DEF DoneAsSaid
  <2> QED
    BY <2>2, <2>3
<1>22. ASSUME NEW id \in Ids, HelperStarts(id)
       PROVE  DoneAsSaid(i)'
  <2>1. /\ boot' = boot + 1 /\ up'
        /\ UNCHANGED <<performed, task, copy>>
        /\ activation = "completed" => activation' = "completed"
        /\ i # id => helper'[i] = helper[i]
        /\ helper[id] = "stopped" /\ helper'[id] \in {"failed", "done"}
        /\ helper'[id] = "done" /\ copy[id].action = "update" => activation' = "completed"
    BY <1>22 DEF HelperStarts, ServerStarts, ActivationEnds, RestOfHelper, service, TypeOK
  <2>2. Change(Settle(boot', TRUE, FALSE), TRUE)
    BY <1>22, <2>1, Zenon DEF HelperStarts, ServerStarts
  <2>3. ledger'[i] # Absent =>
           /\ ledger[i] # Absent
           /\ ledger'[i].action = ledger[i].action
           /\ ledger'[i].boot = ledger[i].boot
           /\ ledger'[i].state = "done" => ledger[i].state = "done"
                                           \/ CarriedOut(i)'
    BY <1>e, <2>1, <2>2
  <2>4. CASE i # id \/ helper'[i] = "failed"
    BY <1>a, <2>1, <2>3, <2>4, DoneKept
  <2>5. CASE i = id /\ helper'[i] = "done"
    <3>1. ledger[i] # Absent => /\ copy[i] # Absent /\ copy[i].action = ledger[i].action
                                /\ ledger[i].action # "network"
      BY <1>a, <2>1, <2>5 DEF DoneAsSaid, Lane, OneActor
    <3>2. ledger'[i] # Absent => CarriedOut(i)'
      <4> SUFFICES ASSUME ledger'[i] # Absent
                   PROVE  CarriedOut(i)'
        OBVIOUS
      <4>1. boot' # ledger'[i].boot
        BY <1>b, <2>1, <2>3 DEF Record
      <4> QED
        BY <2>1, <2>3, <2>5, <3>1, <4>1 DEF CarriedOut
    <3> QED
      BY <1>a, <1>b, <2>1, <2>3, <2>5, <3>1, <3>2 DEF DoneAsSaid
  <2> QED
    BY <2>1, <2>4, <2>5
<1>23. ASSUME NEW id \in Ids, NetworkApplies(id)
       PROVE  DoneAsSaid(i)'
  <2>1. /\ UNCHANGED <<up, boot, activation, helper, copy>>
        /\ task[id] = "network"
        /\ i # id => task'[i] = task[i] /\ performed'[i] = performed[i]
    BY <1>23 DEF NetworkApplies, TypeOK
  <2>2. ledger'[i] # Absent =>
           /\ ledger[i] # Absent
           /\ ledger'[i].action = ledger[i].action
           /\ ledger'[i].boot = ledger[i].boot
           /\ ledger'[i].state = "done" => ledger[i].state = "done"
    <3>1. \/ ledger' = ledger
          \/ Claimable(id) /\ \E ok \in BOOLEAN :
                Change([ledger EXCEPT ![id].state = "running"], ok)
      BY <1>23 DEF NetworkApplies
    <3> QED
      BY <1>18, <3>1
  <2>3. CASE i # id
    BY <1>c, <2>1, <2>2, <2>3
  <2>4. CASE i = id
    <3>1. helper[i] = "none" /\ (ledger[i] # Absent => ledger[i].action = "network")
      BY <1>a, <2>1, <2>4 DEF DoneAsSaid, Lane, OneActor
    <3>2. Claimable(id) => performed[i] = 0
      BY <1>a, <2>4 DEF Lane, UnclaimedIsUndone
    <3>3. \/ /\ task'[i] \in {"refused", "none", "unresolved"}
             /\ performed'[i] = performed[i]
          \/ /\ task'[i] \in {"done", "unresolved"} /\ Claimable(id)
             /\ performed'[i] = performed[i] + 1
      BY <1>23, <2>4 DEF NetworkApplies, TypeOK
    <3>4. ~(ledger[i] # Absent /\ ledger[i].state = "done" /\ Claimable(id))
      BY <2>4 DEF Claimable, Unclaimed
    <3>5. task'[i] = "done" => performed'[i] = 1
      BY <3>2, <3>3
    <3>6. ledger'[i] # Absent /\ ledger'[i].state = "done" => CarriedOut(i)'
      <4> SUFFICES ASSUME ledger'[i] # Absent, ledger'[i].state = "done"
                   PROVE  CarriedOut(i)'
        OBVIOUS
      <4>1. performed[i] = 1
        BY <1>a, <2>2, <3>1 DEF DoneAsSaid, CarriedOut
      <4>2. performed'[i] = performed[i]
        BY <2>2, <3>3, <3>4
      <4> QED
        BY <2>2, <3>1, <4>1, <4>2 DEF CarriedOut
    <3> QED
      BY <1>b, <2>1, <2>2, <3>1, <3>5, <3>6 DEF DoneAsSaid
  <2> QED
    BY <2>3, <2>4
<1>24. CASE UNCHANGED vars
  <2>1. UNCHANGED <<ledger, up, boot, activation, performed, task, helper, copy>>
    BY <1>24 DEF vars, server, service, ghosts
  <2> QED
    BY <1>c, <2>1
<1> QED
  BY <1>1, <1>2, <1>3, <1>4, <1>5, <1>6, <1>7, <1>8, <1>10, <1>11, <1>12, <1>14, <1>15,
     <1>16, <1>17, <1>19, <1>20, <1>21, <1>22, <1>23, <1>24, Zenon
     DEF Next, ThreadStep, HelperStep

\* What the ledger calls done was carried out: the server that admitted the
\* operation ended, the Update moved into the Pending Version, the change of
\* Network Access was applied.  settle may say so for a helper that died.
THEOREM DoneHolds == Spec => []DoneIsTrue
<1>1. Init => DoneInv
  BY DEF Init, DoneInv, DoneAsSaid
<1>2. DoneInv => DoneIsTrue
  BY DEF DoneInv, DoneAsSaid, DoneIsTrue
<1> QED
  BY <1>1, <1>2, DoneInvInductive, LaneInvHolds, LaneTypeCorrect, PTL DEF Spec
=============================================================================
