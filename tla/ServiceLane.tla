---------------------------- MODULE ServiceLane -----------------------------
(***************************************************************************)
(* The service lane: a client stops, restarts or updates the server it is  *)
(* connected to, or changes its Network Access.                            *)
(*                                                                         *)
(* A preview issues a token bound to what it showed.  Execute redeems the  *)
(* token, admits the operation in a durable ledger and fences new          *)
(* Sessions, and a detached helper process, which survives the server,     *)
(* claims the record, acts and marks the outcome.  A watcher settles what  *)
(* no helper will move any more and releases the fence; the next server    *)
(* and every Resolve settle too.  The server may crash, the helper may die *)
(* and a write of the ledger may fail at any point.  An Execute may be     *)
(* dispatched any number of times and at any later time.                   *)
(*                                                                         *)
(* A token is named by the operation it is sent with.  Its expiry and its  *)
(* eviction only refuse an Execute, as a request that is never dispatched. *)
(* Uninstall, which ends the server as Stop does, is left out, and so are  *)
(* the local commands.  There is one Pending Version.                      *)
(***************************************************************************)
EXTENDS Naturals, FiniteSets

CONSTANTS Clients,       \* actors of paired or local clients
          Core,          \* Actor::CORE
          MaxOps,        \* bound: operations
          Actions,       \* the LaneActions clients ask for
          MAX_RECORDS,   \* the code's bound on ledger records
          MaxSessions,   \* bound: Sessions started
          MaxBoots,      \* bound: server starts
          MaxFaults      \* bound: failed writes and thread starts, and helpers
                         \* that start although their launch reported failure

ASSUME ServiceLaneAssumption ==
    /\ Core \notin Clients
    /\ Actions \subseteq {"stop", "restart", "network"}
    /\ {MaxOps, MAX_RECORDS, MaxSessions, MaxFaults} \subseteq Nat
    /\ MaxBoots \in Nat \ {0}

VARIABLES
    ledger,        \* the ledger's records on disk
    request,       \* the Execute requests clients sent
    tokens,        \* Tokens.entries: what each token was issued for
    revoked,       \* clients whose pairing was revoked
    up, boot,      \* whether the server runs, and which run it is
    live,          \* Sessions
    born,          \* Sessions ever started
    used,          \* operation identities ever used
    fence,         \* HostService.fence
    watching,      \* LaneCore.watching
    watcher,       \* whether the fence's watcher thread runs
    task,          \* what the thread that admitted an operation does next
    helper,        \* the helper process of each operation
    copy,          \* the record each helper claimed
    activation,    \* phase of the activation journal
    pending,       \* whether a Pending Version waits
    net,           \* the Network Access policy
    performed,     \* how often each operation was carried out
    told,          \* operations whose outcome their client acknowledged
    misreported,   \* operations whose helper started although launch failed
    faults

server == <<up, boot, live, fence, watching, watcher, task, tokens>>
service == <<activation, pending, net>>
ghosts == <<performed, told, misreported>>
vars == <<ledger, request, revoked, born, used, server, helper, copy, service,
          ghosts, faults>>
-----------------------------------------------------------------------------
Ids == 1..MaxOps
Absent == [state |-> "absent"]
NoToken == [boot |-> 0, live |-> {}, flag |-> FALSE]

Terminal == {"done", "failed", "not_performed", "unresolved"}
Unclaimed == {"admitted", "launched"}

\* What a preview observed.  flag is the Pending Version a Restart moves into,
\* or the policy a Network Access change replaces.
Observation == [boot: 0..MaxBoots, live: SUBSET (1..MaxSessions), flag: BOOLEAN]

Record == [actor: Clients \cup {Core}, boot: 1..MaxBoots,
           action: {"stop", "restart", "update", "network"},
           seen: Observation, state: Unclaimed \cup Terminal \cup {"running"},
           orphaned: BOOLEAN]

\* What a lane thread does next for the operation it admitted, and how far the
\* helper process of an operation is.
Tasks == {"none", "launch", "launched", "failed", "watch",
          "network", "done", "refused", "unresolved"}
Helpers == {"none", "started", "locked", "claimed", "stopped", "done", "failed",
            "unresolved", "gone"}

TypeOK ==
    /\ ledger \in [Ids -> Record \cup {Absent}]
    /\ request \in [Ids -> [actor: Clients, action: Actions]
                              \cup {[action |-> "none"]}]
    /\ tokens \in [Ids -> Observation]
    /\ revoked \subseteq Clients
    /\ up \in BOOLEAN
    /\ boot \in 1..MaxBoots
    /\ live \subseteq 1..MaxSessions
    /\ born \in 0..MaxSessions
    /\ used \in 0..MaxOps
    /\ fence \in BOOLEAN /\ watching \in BOOLEAN /\ watcher \in BOOLEAN
    /\ pending \in BOOLEAN /\ net \in BOOLEAN
    /\ task \in [Ids -> Tasks]
    /\ helper \in [Ids -> Helpers]
    /\ copy \in [Ids -> Record \cup {Absent}]
    /\ activation \in {"none", "activating", "completed", "returned"}
    /\ performed \in [Ids -> Nat]
    /\ told \subseteq Ids /\ misreported \subseteq Ids
    /\ faults \in 0..MaxFaults

Init ==
    /\ ledger = [id \in Ids |-> Absent]
    /\ request = [id \in Ids |-> [action |-> "none"]]
    /\ tokens = [id \in Ids |-> NoToken]
    /\ revoked = {}
    /\ up = TRUE /\ boot = 1
    /\ live = {} /\ born = 0 /\ used = 0
    /\ fence = FALSE /\ watching = FALSE /\ watcher = FALSE
    /\ task = [id \in Ids |-> "none"]
    /\ helper = [id \in Ids |-> "none"]
    /\ copy = [id \in Ids |-> Absent]
    /\ activation = "none"
    /\ pending \in BOOLEAN
    /\ net = FALSE
    /\ performed = [id \in Ids |-> 0]
    /\ told = {} /\ misreported = {}
    /\ faults = 0

-----------------------------------------------------------------------------
(* The ledger.                                                             *)

Fault == faults < MaxFaults /\ faults' = faults + 1

IsTerminal(r) == r = Absent \/ r.state \in Terminal

AllTerminal(l) == \A id \in Ids : IsTerminal(l[id])

\* Ledger::change: an orphaned record goes once it is settled, and nothing is
\* written when nothing changed.  A failed write leaves the old or the new
\* records, and its caller is told that it failed.
Change(next, ok) ==
    LET kept == [id \in Ids |->
                    IF next[id] # Absent /\ next[id].orphaned
                          /\ next[id].state \in Terminal
                    THEN Absent ELSE next[id]] IN
    \/ ok /\ ledger' = kept /\ UNCHANGED faults
    \/ ~ok /\ kept # ledger /\ Fault /\ ledger' \in {ledger, kept}

\* Ledger::mark: a terminal record never changes, and Launched only follows
\* Admitted.
Mark(id, state) ==
    IF IsTerminal(ledger[id])
          \/ (state = "launched" /\ ledger[id].state # "admitted")
    THEN ledger ELSE [ledger EXCEPT ![id].state = state]

\* Ledger::claim.
Claimable(id) == ledger[id] # Absent /\ ledger[id].state \in Unclaimed

Admitted(actor, action, seen) ==
    [actor |-> actor, boot |-> boot, action |-> action, seen |-> seen,
     state |-> "admitted", orphaned |-> FALSE]

\* Ledger::admit refuses while an operation is unsettled, and when it is full.
Admits ==
    /\ AllTerminal(ledger)
    /\ Cardinality({id \in Ids : ledger[id] # Absent}) < MAX_RECORDS

\* Journal::helper_active: some helper holds the helper lock.
HelperActive ==
    \E id \in Ids : helper[id] \notin {"none", "started", "gone"}

\* Journal::activation and activation_outcome.
ActivationOutcome ==
    CASE activation = "completed" -> "done"
      [] activation = "returned" -> "failed"
      [] OTHER -> "unresolved"

\* Mutant: whatever an earlier server left unsettled counts as not performed.
SettledEarlier(id, run, expired) ==
    LET r == ledger[id] IN
    CASE r.boot # run -> "not_performed"
      [] r.state = "launched" /\ expired -> "not_performed"
      [] r.state = "running" /\ r.action = "update" -> ActivationOutcome
      [] r.state = "running" /\ r.action # "network" -> "unresolved"
      [] OTHER -> r.state

\* Mutant: a restart counts as done in the server that admitted it.
SettledDone(id, run, expired) ==
    LET r == ledger[id] IN
    CASE r.state \in Unclaimed /\ r.boot # run -> "not_performed"
      [] r.state = "launched" /\ expired -> "not_performed"
      [] r.state = "running" /\ r.action = "update" -> ActivationOutcome
      [] r.state = "running" /\ r.action = "restart" -> "done"
      [] r.state = "running" /\ r.action = "stop" -> "unresolved"
      [] r.state = "running" /\ r.action = "network" /\ r.boot # run ->
            "unresolved"
      [] OTHER -> r.state

\* What settle makes of an unsettled record that no helper holds.
SettledState(id, run, expired) ==
    LET r == ledger[id] IN
    CASE r.state \in Unclaimed /\ r.boot # run -> "not_performed"
      [] r.state = "launched" /\ expired -> "not_performed"
      [] r.state = "running" /\ r.action = "update" -> ActivationOutcome
      [] r.state = "running" /\ r.action = "restart" ->
            IF r.boot # run THEN "done" ELSE "unresolved"
      [] r.state = "running" /\ r.action = "stop" -> "unresolved"
      [] r.state = "running" /\ r.action = "network" /\ r.boot # run ->
            "unresolved"
      [] OTHER -> r.state

\* Ledger::settle for the server of this run: the Core's settled records go,
\* and nothing else moves while a helper is active.  expired says whether the
\* unsettled record was launched longer ago than LAUNCH_GRACE.
Settle(run, active, expired) ==
    [id \in Ids |->
        LET r == ledger[id] IN
        IF r = Absent THEN Absent
        ELSE IF r.actor = Core /\ r.state \in Terminal THEN Absent
        ELSE IF active \/ r.state \in Terminal THEN r
        ELSE [r EXCEPT !.state = SettledState(id, run, expired)]]

-----------------------------------------------------------------------------
(* Sessions and the server's runs.                                         *)

\* HostService::request: a claim starts a Session unless the fence is set.
StartSession ==
    /\ up /\ ~fence /\ born < MaxSessions
    /\ born' = born + 1
    /\ live' = live \cup {born + 1}
    /\ UNCHANGED <<ledger, request, revoked, used, up, boot, fence, watching,
                   watcher, task, tokens, helper, copy, service, ghosts,
                   faults>>

SessionExits(s) ==
    /\ s \in live
    /\ live' = live \ {s}
    /\ UNCHANGED <<ledger, request, revoked, born, used, up, boot, fence,
                   watching, watcher, task, tokens, helper, copy, service,
                   ghosts, faults>>

\* What ends with the server's process.
ServerEnds ==
    /\ up' = FALSE
    /\ live' = {}
    /\ fence' = FALSE /\ watching' = FALSE /\ watcher' = FALSE
    /\ task' = [id \in Ids |-> "none"]
    /\ tokens' = [id \in Ids |-> NoToken]
    /\ UNCHANGED boot

Crash ==
    /\ up
    /\ ServerEnds
    /\ UNCHANGED <<ledger, request, revoked, born, used, helper, copy, service,
                   ghosts, faults>>

\* LaneCore::new: a run begins with a fresh boot and recover_at_start.
ServerStarts(active) ==
    /\ boot < MaxBoots
    /\ up' = TRUE
    /\ boot' = boot + 1
    /\ Change(Settle(boot + 1, active, FALSE), TRUE)
    /\ UNCHANGED <<live, fence, watching, watcher, task, tokens>>

\* The supervisor, or a person, starts the server.  run_approved refuses while
\* an activation is unsettled or a helper restarts it.
Boot ==
    /\ ~up /\ activation # "activating"
    /\ \A id \in Ids : helper[id] # "stopped"
    /\ ServerStarts(HelperActive)
    /\ UNCHANGED <<request, revoked, born, used, helper, copy, service,
                   ghosts>>

-----------------------------------------------------------------------------
(* Clients: preview, Execute, Resolve, Acknowledge.                        *)

\* What a preview of this action observes: its Sessions and Pending Version,
\* or the Network Access policy.
Observes(action) ==
    CASE action = "restart" -> [boot |-> boot, live |-> live, flag |-> pending]
      [] action = "stop" -> [boot |-> boot, live |-> live, flag |-> FALSE]
      [] action = "network" -> [boot |-> boot, live |-> {}, flag |-> net]

\* An identity nobody used yet.  Identities are used in order, so that TLC does
\* not tell apart behaviours that differ in their names.
Fresh(id) == id = used + 1

\* preview and preview_network issue a token, and the client sends an Execute
\* with it under a fresh operation.
Preview(id, c, action) ==
    /\ up /\ c \notin revoked
    /\ Fresh(id)
    /\ used' = used + 1
    /\ request' = [request EXCEPT ![id] = [actor |-> c, action |-> action]]
    /\ tokens' = [tokens EXCEPT ![id] = Observes(action)]
    /\ UNCHANGED <<ledger, revoked, born, up, boot, live, fence, watching,
                   watcher, task, helper, copy, service, ghosts, faults>>

\* Mutant: a token can be used again.
RedeemKeeps(id) == UNCHANGED tokens

\* Tokens::redeem consumes the token.
Redeem(id) == tokens' = [tokens EXCEPT ![id] = NoToken]

\* Mutant: the observation is not compared again.
StillAnything(id) == TRUE

\* The observation still is what the token was issued for.
StillAsPreviewed(id) == Observes(request[id].action) = tokens[id]

\* The Action an Execute admits: a Restart moves into the Pending Version.
ActionOf(id) ==
    IF request[id].action = "restart" /\ pending THEN "update"
    ELSE request[id].action

\* fence and admit share the panes' lock.  Only an admission that was written
\* sets the fence and is dispatched.
AdmitFenced(id, r, next) ==
    \E ok \in BOOLEAN :
        /\ Change([ledger EXCEPT ![id] = r], ok)
        /\ fence' = (fence \/ (ok /\ r.action # "network"))
        /\ task' = IF ok THEN [task EXCEPT ![id] = next] ELSE task

\* execute and execute_network.  An operation the ledger holds is answered
\* without a dispatch.  A thread that was authorized before a revocation may
\* come here after it.
Execute(id) ==
    /\ up /\ request[id].action # "none"
    /\ ledger[id] = Absent /\ tokens[id] # NoToken
    /\ Redeem(id)
    /\ IF StillAsPreviewed(id) /\ Admits
       THEN AdmitFenced(id,
                        Admitted(request[id].actor, ActionOf(id), tokens[id]),
                        IF request[id].action = "network" THEN "network"
                        ELSE "launch")
       ELSE UNCHANGED <<ledger, fence, task, faults>>
    /\ UNCHANGED <<request, revoked, born, used, up, boot, live, watching,
                   watcher, helper, copy, service, ghosts>>

\* Restarter::restart, silently: the Core moves into the Pending Version while
\* nothing runs.
RestartSilently(id) ==
    /\ up /\ pending /\ live = {} /\ Admits
    /\ Fresh(id)
    /\ used' = used + 1
    /\ AdmitFenced(id, Admitted(Core, "update",
                                [boot |-> boot, live |-> {}, flag |-> TRUE]),
                   "launch")
    /\ UNCHANGED <<request, revoked, born, up, boot, live, watching, watcher,
                   tokens, helper, copy, service, ghosts>>

\* resolve settles before it answers.
Resolve(id, expired) ==
    LET next == Settle(boot, HelperActive, expired) IN
    /\ up /\ request[id].action # "none" /\ request[id].actor \notin revoked
    /\ next # ledger
    /\ \E ok \in BOOLEAN : Change(next, ok)
    /\ UNCHANGED <<request, revoked, born, used, server, helper, copy, service,
                   ghosts>>

\* Ledger::acknowledge, by the record's actor.
Acknowledge(id) ==
    /\ up /\ ledger[id] # Absent
    /\ ledger[id].actor \in Clients \ revoked
    /\ ledger[id].state \in Terminal
    /\ \E ok \in BOOLEAN :
          /\ Change([ledger EXCEPT ![id] = Absent], ok)
          /\ told' = IF ok THEN told \cup {id} ELSE told
    /\ UNCHANGED <<request, revoked, born, used, server, helper, copy, service,
                   performed, misreported>>

\* forget_pairing: the records of a revoked pairing are orphaned.  A failure
\* is ignored.
Revoke(c) ==
    /\ up /\ c \notin revoked
    /\ revoked' = revoked \cup {c}
    /\ \E ok \in BOOLEAN :
          Change([id \in Ids |->
                    IF ledger[id] # Absent /\ ledger[id].actor = c
                    THEN [ledger[id] EXCEPT !.orphaned = TRUE]
                    ELSE ledger[id]], ok)
    /\ UNCHANGED <<request, born, used, server, helper, copy, service, ghosts>>

-----------------------------------------------------------------------------
(* launch_helper and its watcher.                                          *)

\* spawn_detached starts the helper or fails.  A limit that passes after the
\* helper was started reports failure too.
Launch(id) ==
    /\ task[id] = "launch"
    /\ \/ /\ helper' = [helper EXCEPT ![id] = "started"]
          /\ task' = [task EXCEPT ![id] = "launched"]
          /\ UNCHANGED <<misreported, faults>>
       \/ /\ task' = [task EXCEPT ![id] = "failed"]
          /\ UNCHANGED <<helper, misreported, faults>>
       \/ /\ Fault
          /\ helper' = [helper EXCEPT ![id] = "started"]
          /\ task' = [task EXCEPT ![id] = "failed"]
          /\ misreported' = misreported \cup {id}
    /\ UNCHANGED <<ledger, request, revoked, born, used, up, boot, live, fence,
                   watching, watcher, tokens, copy, service, performed, told>>

\* Mutant: a launch that failed is not recorded.
MarkLaunchedOnly(id) ==
    /\ task[id] \in {"launched", "failed"}
    /\ \E ok \in BOOLEAN :
          Change(IF task[id] = "launched" THEN Mark(id, "launched") ELSE ledger,
                 ok)
    /\ task' = [task EXCEPT ![id] = "watch"]
    /\ UNCHANGED <<request, revoked, born, used, up, boot, live, fence,
                   watching, watcher, tokens, helper, copy, service, ghosts>>

\* launch_helper marks what the launch reported.
MarkLaunch(id) ==
    /\ task[id] \in {"launched", "failed"}
    /\ \E ok \in BOOLEAN :
          Change(Mark(id, IF task[id] = "launched" THEN "launched"
                          ELSE "not_performed"), ok)
    /\ task' = [task EXCEPT ![id] = "watch"]
    /\ UNCHANGED <<request, revoked, born, used, up, boot, live, fence,
                   watching, watcher, tokens, helper, copy, service, ghosts>>

\* launch_helper goes on: it starts a watcher unless one is watching.  Its
\* thread may fail to start.
StartWatcher(id) ==
    /\ task[id] = "watch"
    /\ task' = [task EXCEPT ![id] = "none"]
    /\ \/ watching /\ UNCHANGED <<watching, watcher, faults>>
       \/ ~watching /\ watching' = TRUE /\ watcher' = TRUE /\ UNCHANGED faults
       \/ ~watching /\ Fault /\ UNCHANGED <<watching, watcher>>
    /\ UNCHANGED <<ledger, request, revoked, born, used, up, boot, live, fence,
                   tokens, helper, copy, service, ghosts>>

\* Mutant: the watcher's end is not recorded.
ReleaseWatching(settled) ==
    /\ fence' = (fence /\ ~settled)
    /\ watcher' = ~settled
    /\ UNCHANGED watching

\* The fence is released, and the watch ends, once every record is terminal.
Release(settled) ==
    /\ fence' = (fence /\ ~settled)
    /\ watching' = ~settled
    /\ watcher' = ~settled

\* release_if_settled, under executing.  A failed settle is tried again.
Watch(expired) ==
    LET next == Settle(boot, HelperActive, expired) IN
    /\ watcher
    /\ next # ledger \/ AllTerminal(next)
    /\ \E ok \in BOOLEAN :
          Change(next, ok) /\ Release(ok /\ AllTerminal(next))
    /\ UNCHANGED <<request, revoked, born, used, up, boot, live, task, tokens,
                   helper, copy, service, ghosts>>

-----------------------------------------------------------------------------
(* The helper process: run and perform.                                    *)

RestOfHelper == UNCHANGED <<request, revoked, born, used, told, misreported>>

\* helper::run takes the helper lock, or exits when another helper holds it.
HelperLocks(id) ==
    /\ helper[id] = "started"
    /\ helper' = [helper EXCEPT ![id] =
                     IF HelperActive THEN "gone" ELSE "locked"]
    /\ UNCHANGED <<ledger, copy, server, service, performed, faults>>
    /\ RestOfHelper

\* It claims its record, or exits when the record was settled without it.
HelperClaims(id) ==
    /\ helper[id] = "locked"
    /\ \/ /\ Claimable(id)
          /\ \E ok \in BOOLEAN :
                /\ Change([ledger EXCEPT ![id].state = "running"], ok)
                /\ helper' = [helper EXCEPT ![id] =
                                 IF ok THEN "claimed" ELSE "gone"]
                /\ copy' = IF ok THEN [copy EXCEPT ![id] = ledger[id]] ELSE copy
       \/ /\ ~Claimable(id)
          /\ helper' = [helper EXCEPT ![id] = "gone"]
          /\ UNCHANGED <<ledger, copy, faults>>
    /\ UNCHANGED <<server, service, performed>> /\ RestOfHelper

\* The action of a claimed record.  An Update writes its activation journal
\* before it ends the server, unless an activation is unfinished.
HelperStops(id) ==
    /\ helper[id] = "claimed"
    /\ activation # "activating"
    /\ copy[id].action = "update" => activation # "completed"
    /\ performed' = [performed EXCEPT ![id] = @ + 1]
    /\ ServerEnds
    /\ helper' = [helper EXCEPT ![id] =
                     IF copy[id].action = "stop" THEN "done" ELSE "stopped"]
    /\ activation' = IF copy[id].action = "update" THEN "activating"
                     ELSE activation
    /\ UNCHANGED <<ledger, copy, pending, net, faults>> /\ RestOfHelper

\* prepare_activation finds the candidate approved already: an earlier Update
\* moved into it.
HelperFindsUpdated(id) ==
    /\ helper[id] = "claimed"
    /\ copy[id].action = "update"
    /\ activation = "completed"
    /\ helper' = [helper EXCEPT ![id] = "done"]
    /\ UNCHANGED <<ledger, copy, server, service, performed, faults>>
    /\ RestOfHelper

\* What the operation asks for is refused, or what an earlier control left has
\* to be cleaned up first.
HelperRefuses(id) ==
    /\ helper[id] = "claimed"
    /\ \E outcome \in {"failed", "unresolved"} :
          helper' = [helper EXCEPT ![id] = outcome]
    /\ UNCHANGED <<ledger, copy, server, service, performed, faults>>
    /\ RestOfHelper

\* An activation ends in the candidate, or returns to the previous version,
\* which is skipped unless its failure was transient.
ActivationEnds ==
    /\ activation = "activating"
    /\ \/ activation' = "completed" /\ pending' = FALSE
       \/ activation' = "returned" /\ pending' \in {pending, FALSE}
    /\ UNCHANGED net

\* A Restart, or the activation of an Update, starts the server again.
HelperStarts(id) ==
    /\ helper[id] = "stopped"
    /\ \/ copy[id].action = "update" /\ ActivationEnds
       \/ copy[id].action # "update" /\ UNCHANGED service
    /\ ServerStarts(TRUE)
    /\ helper' = [helper EXCEPT ![id] =
                     IF copy[id].action = "update" /\ activation' = "returned"
                     THEN "failed" ELSE "done"]
    /\ UNCHANGED <<copy, performed>> /\ RestOfHelper

\* A Restart that cannot start the server again, or an activation whose end
\* stays uncertain.
HelperStartFails(id) ==
    /\ helper[id] = "stopped"
    /\ helper' = [helper EXCEPT ![id] =
                     IF copy[id].action = "update" THEN "unresolved"
                     ELSE "failed"]
    /\ UNCHANGED <<ledger, copy, server, service, performed, faults>>
    /\ RestOfHelper

\* It marks the outcome and exits.
HelperMarks(id) ==
    /\ helper[id] \in {"done", "failed", "unresolved"}
    /\ \E ok \in BOOLEAN : Change(Mark(id, helper[id]), ok)
    /\ helper' = [helper EXCEPT ![id] = "gone"]
    /\ copy' = [copy EXCEPT ![id] = Absent]
    /\ UNCHANGED <<server, service, performed>> /\ RestOfHelper

HelperDies(id) ==
    /\ helper[id] \notin {"none", "gone"}
    /\ helper' = [helper EXCEPT ![id] = "gone"]
    /\ copy' = [copy EXCEPT ![id] = Absent]
    /\ UNCHANGED <<ledger, server, service, performed, faults>>
    /\ RestOfHelper

\* helper::recover: a server that may not start launches the recovery helper,
\* which ends the activation and starts the server under the helper lock.  The
\* helper of a Stop or a Restart does the same before it acts.
Recovers ==
    /\ ~up
    /\ HelperActive => \E id \in Ids : helper[id] = "claimed"
                                       /\ copy[id].action # "update"
    /\ ActivationEnds
    /\ ServerStarts(TRUE)
    /\ UNCHANGED <<helper, copy, performed>> /\ RestOfHelper

-----------------------------------------------------------------------------
(* Network Access changes, which the lane applies itself.                  *)

\* Another change of the policy, over the local connection, while an operation
\* that could notice is under way.
NetworkChanges ==
    /\ up
    /\ \E id \in Ids : request[id].action = "network"
                         /\ (tokens[id] # NoToken \/ task[id] = "network")
    /\ net' = ~net
    /\ UNCHANGED <<ledger, request, revoked, born, used, server, helper, copy,
                   activation, pending, ghosts, faults>>

\* change_network: in one hold of the policy the plan is compared again, the
\* record is claimed and the change applies.  A change that could not be
\* confirmed is unresolved.
NetworkApplies(id) ==
    LET r == ledger[id]
        goes(next) == task' = [task EXCEPT ![id] = next] IN
    /\ task[id] = "network"
    /\ \/ /\ r = Absent \/ r.seen.flag # net
          /\ goes("refused")
          /\ UNCHANGED <<ledger, net, performed, faults>>
       \/ /\ r # Absent /\ r.seen.flag = net /\ ~Claimable(id)
          /\ goes("none")
          /\ UNCHANGED <<ledger, net, performed, faults>>
       \/ /\ Claimable(id) /\ r.seen.flag = net
          /\ Change([ledger EXCEPT ![id].state = "running"], FALSE)
          /\ goes("refused")
          /\ UNCHANGED <<net, performed>>
       \/ /\ Claimable(id) /\ r.seen.flag = net
          /\ Change([ledger EXCEPT ![id].state = "running"], TRUE)
          /\ \/ /\ net' = ~net
                /\ performed' = [performed EXCEPT ![id] = @ + 1]
                /\ goes("done") \/ goes("unresolved")
             \/ /\ goes("refused") \/ goes("unresolved")
                /\ UNCHANGED <<net, performed>>
    /\ UNCHANGED <<request, revoked, born, used, up, boot, live, fence,
                   watching, watcher, tokens, helper, copy, activation,
                   pending, told, misreported>>

\* change_network and watch_listener settle the record.
NetworkMarks(id) ==
    /\ task[id] \in {"done", "refused", "unresolved"}
    /\ \E ok \in BOOLEAN :
          Change(Mark(id, IF task[id] = "refused" THEN "failed" ELSE task[id]),
                 ok)
    /\ task' = [task EXCEPT ![id] = "none"]
    /\ UNCHANGED <<request, revoked, born, used, up, boot, live, fence,
                   watching, watcher, tokens, helper, copy, service, ghosts>>

-----------------------------------------------------------------------------
ThreadStep(id) ==
    Launch(id) \/ MarkLaunch(id) \/ StartWatcher(id) \/ NetworkApplies(id)
        \/ NetworkMarks(id)

HelperStep(id) ==
    \/ HelperLocks(id) \/ HelperClaims(id) \/ HelperStops(id)
    \/ HelperFindsUpdated(id) \/ HelperRefuses(id) \/ HelperStarts(id) \/ HelperStartFails(id)
    \/ HelperMarks(id) \/ HelperDies(id)

Next ==
    \/ StartSession \/ Crash \/ Boot \/ Recovers \/ NetworkChanges
    \/ \E expired \in BOOLEAN : Watch(expired)
    \/ \E s \in live : SessionExits(s)
    \/ \E c \in Clients : Revoke(c)
    \/ \E id \in Ids :
          \/ \E c \in Clients, action \in Actions : Preview(id, c, action)
          \/ Execute(id) \/ RestartSilently(id)
          \/ \E expired \in BOOLEAN : Resolve(id, expired)
          \/ Acknowledge(id)
          \/ ThreadStep(id) \/ HelperStep(id)

Spec == Init /\ [][Next]_vars

(* Properties.                                                             *)

\* An operation the ledger calls not performed never ended a server or changed
\* the policy, and its helper finds nothing to claim.  (settle, claim)
NotPerformedIsTrue ==
    \A id \in Ids \ misreported :
        ledger[id] # Absent /\ ledger[id].state = "not_performed"
            => /\ performed[id] = 0
               /\ helper[id] \notin {"claimed", "stopped", "done"}

\* What carrying out an operation leaves true.
CarriedOut(id) ==
    CASE ledger[id].action = "network" -> performed[id] = 1
      [] ledger[id].action = "update" -> activation = "completed"
      [] OTHER -> ~up \/ boot # ledger[id].boot

\* Done means that the server which admitted the operation has ended, that an
\* Update did move into the Pending Version, and that a Network Access change
\* was applied.  (settle, perform, change_network)
DoneIsTrue ==
    \A id \in Ids :
        ledger[id] # Absent /\ ledger[id].state = "done" =>
            CarriedOut(id)

\* An operation is carried out at most once, and never after its client
\* acknowledged an outcome of it, however often its Execute arrives.
\* (execute, redeem, claim)
CarriedOutOnce ==
    [][\A id \in Ids \ misreported :
          performed'[id] # performed[id]
             => performed[id] = 0 /\ id \notin told]_vars

\* A helper ends no Session of the server that admitted its operation which
\* the confirmed preview did not show.  (fence, observation, release_if_settled)
EndsOnlyWhatWasShown ==
    [][\A id \in Ids \ misreported :
          performed'[id] # performed[id] /\ copy[id] # Absent
             /\ up /\ copy[id].boot = boot
                => live \subseteq copy[id].seen.live]_vars

\* New Sessions are not refused for ever: while the fence is set a thread is on
\* its way to start the watcher, or the watcher runs that will release it,
\* unless a write or a thread start failed.  (launch_helper, release_if_settled)
FenceIsWatched ==
    fence /\ faults = 0 =>
        watcher \/ \E id \in Ids : task[id] \in {"launch", "launched", "failed",
                                                "watch"}

\* No unsettled operation is stuck: a thread or a helper process still works
\* for it, or the next settlement, once LAUNCH_GRACE passed, ends it.
\* (settle, launch_helper, change_network)
NothingIsStuck ==
    \A id \in Ids :
        ~IsTerminal(ledger[id]) /\ up /\ faults = 0 =>
            \/ task[id] # "none" \/ helper[id] \notin {"none", "gone"}
            \/ SettledState(id, boot, TRUE) \in Terminal

(* The inductive invariant the proofs use.                                 *)

\* An operation nobody acted for yet.
Untouched(id) ==
    /\ ledger[id] = Absent /\ performed[id] = 0
    /\ task[id] = "none" /\ helper[id] = "none"
    /\ id \notin told \cup misreported

\* A token is one for an operation that nobody acted for.
TokenIsUnused(id) ==
    /\ id > used => tokens[id] = NoToken
    /\ id > used \/ tokens[id] # NoToken => Untouched(id)

\* Who works for an operation: a thread before its helper started, the helper
\* process, or the lane itself for a Network Access change.
OneActor(id) ==
    /\ task[id] = "launch" => helper[id] = "none"
    /\ task[id] = "failed" /\ id \notin misreported => helper[id] = "none"
    /\ task[id] \in {"network", "done", "refused", "unresolved"}
          => helper[id] = "none"
    /\ ledger[id] # Absent /\ ledger[id].action = "network"
          => helper[id] = "none" /\ task[id] \notin {"launch", "launched", "failed"}

\* A helper that claimed its record finds it Running until it marked it.
ActingIsRunning(id) ==
    helper[id] \in {"claimed", "stopped", "done", "failed", "unresolved"} =>
        /\ ~Claimable(id)
        /\ id \notin misreported
              => ledger[id] # Absent /\ ledger[id].state = "running"

\* Nothing was carried out before the record is claimed and the helper acts.
UnclaimedIsUndone(id) ==
    \/ Claimable(id) \/ helper[id] = "claimed"
    \/ id \notin misreported /\ task[id] \in {"launch", "failed"}
    => performed[id] = 0

ToldIsGone(id) == id \in told => ledger[id] = Absent

\* While an operation of this server is under way the fence is set, and no
\* Session lives that its preview did not show.
FencedUnderWay(id) ==
    /\ task[id] = "launch" \/ helper[id] \in {"started", "locked", "claimed"}
    /\ ~IsTerminal(ledger[id]) /\ up /\ ledger[id].boot = boot
    => fence /\ live \subseteq ledger[id].seen.live

\* The helper's copy is the record it claimed, of this or an earlier server.
ClaimedCopy(id) ==
    /\ ledger[id] # Absent => ledger[id].boot <= boot
    /\ helper[id] = "none" => copy[id] = Absent
    /\ helper[id] = "claimed" /\ ledger[id] # Absent
          => /\ copy[id] # Absent
             /\ copy[id].boot = ledger[id].boot
             /\ copy[id].seen = ledger[id].seen

\* Without a fault, what a settlement would leave alone has a thread.
WorkedFor(id) ==
    ~IsTerminal(ledger[id]) /\ up /\ faults = 0 /\ ledger[id].boot = boot =>
        /\ ledger[id].state = "admitted"
              => task[id] \in {"launch", "launched", "failed", "network", "refused"}
        /\ ledger[id].state = "running" /\ ledger[id].action = "network"
              => task[id] \in {"done", "refused", "unresolved"}

\* A helper acts on the record it claimed, and whoever is about to mark an
\* operation done has carried it out.
DoneAsSaid(id) ==
    /\ helper[id] \in {"claimed", "stopped", "done"} /\ ledger[id] # Absent
          => copy[id] # Absent /\ copy[id].action = ledger[id].action
    /\ task[id] \in {"network", "done", "refused", "unresolved"}
          /\ ledger[id] # Absent => ledger[id].action = "network"
    /\ task[id] = "done" => performed[id] = 1
    /\ helper[id] = "done" /\ ledger[id] # Absent => CarriedOut(id)
    /\ ledger[id] # Absent /\ ledger[id].state = "done" => CarriedOut(id)

LaneInv ==
    /\ watching = watcher
    /\ FenceIsWatched
    /\ NotPerformedIsTrue
    /\ \A id \in Ids :
          /\ TokenIsUnused(id) /\ OneActor(id) /\ ActingIsRunning(id)
          /\ UnclaimedIsUndone(id) /\ ToldIsGone(id) /\ FencedUnderWay(id)
          /\ ClaimedCopy(id) /\ WorkedFor(id)

DoneInv == \A id \in Ids : DoneAsSaid(id)

=============================================================================
