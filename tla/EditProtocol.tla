---------------------------- MODULE EditProtocol ----------------------------
(***************************************************************************)
(* Original Operations, exactly once.  A client records each shared edit   *)
(* in its own journal before it dispatches it, and again when it learns    *)
(* the outcome; the server records each outcome with the organization it   *)
(* changed, until the client acknowledges it.  Between them connections    *)
(* break, acknowledgements are lost or overtaken, the server loses what it *)
(* had not retained, and the table of outcomes replaces idle clients.      *)
(*                                                                         *)
(* The server's storage is the promise that Journal implements: a live     *)
(* state, a kept one, and every state between them.  A reply with an       *)
(* outcome waits until its state is kept; a refusal does not.              *)
(*                                                                         *)
(* Two kinds of client use the same protocol.  The desktop dispatches a    *)
(* pending edit again after it reconnects.  The command line only asks for *)
(* its outcome, and abandons the edit when the server has none.            *)
(***************************************************************************)
EXTENDS Naturals, Sequences, SequencesExt, FiniteSets

CONSTANTS
    Desktop,        \* clients that dispatch a pending edit again
    CommandLine,    \* clients that resolve a pending edit
    MAX_DEVICES,    \* clients the table of outcomes holds (64 in the code)
    MAX_OUTCOMES,   \* outcomes it retains for all of them (32 in the code)
    Overlap,        \* clients of whom the server may still dispatch a request
                    \* of a connection they have left
    MaxOps,         \* bound: edits of all clients together
    MaxFaults       \* bound: broken connections, failed writes and crashes

Clients == Desktop \cup CommandLine

ASSUME ProtocolAssumption ==
    /\ Desktop \cap CommandLine = {}
    /\ MAX_DEVICES \in Nat \ {0}
    /\ MAX_OUTCOMES \in Nat \ {0}
    /\ Overlap \subseteq Clients
    /\ MaxOps \in Nat
    /\ MaxFaults \in Nat

VARIABLES
    versions,   \* the server's states, from the kept one to the live one
    jobs,       \* outcomes whose reply waits for a version to be kept
    wire,       \* messages on their way to the server
    inbox,      \* the reply on its way to each client
    journal,    \* each client's retained record
    phase,      \* what each client does on its connection
    sequence,   \* the next sequence each desktop has read
    ack,        \* the acknowledgement each client has yet to send
    count,      \* how many edits each client began
    abandoned,  \* the edits whose client was told they were not applied
    confirmed,  \* the edits whose client retired their outcome
    faults      \* how many faults there have been

serverVars == <<versions, jobs>>
clientVars == <<journal, phase, sequence, ack, count, abandoned, confirmed>>
vars == <<serverVars, wire, inbox, clientVars, faults>>

-----------------------------------------------------------------------------
(* The server's table of outcomes: hierarchy::State.                       *)

NoEdit == [k |-> 0]

\* RetainedOutcome and ClientOperation: the edit recorded under a sequence.
Recorded(s, e) == [sequence |-> s, edit |-> e]

None == Recorded(0, NoEdit)

EmptyState == [devices |-> <<>>, floor |-> 0, applied |-> {}, twice |-> {}]

Live == Last(versions)
Kept == Head(versions)

\* The places of a client in the table: at most one.
PlacesOf(s, c) == {i \in DOMAIN s.devices : s.devices[i].device = c}
PlaceOf(s, c) == CHOOSE i \in PlacesOf(s, c) : TRUE
HasRecord(s, c) == PlacesOf(s, c) # {}
PendingOf(s, c) == IF HasRecord(s, c) THEN s.devices[PlaceOf(s, c)].pending
                   ELSE <<>>

\* State::outcome.
OutcomesAt(s, c, n) == {o \in ToSet(PendingOf(s, c)) : o.sequence = n}

\* State::next_sequence.
NextSequence(s, c) ==
    IF ~HasRecord(s, c) THEN s.floor + 1
    ELSE LET d == s.devices[PlaceOf(s, c)] IN
         IF d.pending = <<>> THEN d.retired + 1 ELSE Last(d.pending).sequence + 1

\* Mutant: every sequence is as good as the next one.
ExpectedAny(s, c, n) == n > 0

\* The sequences State::apply expects.  A client without a record may still
\* send any edit that was never applied.
Expected(s, c, n) ==
    IF HasRecord(s, c) THEN n = NextSequence(s, c) ELSE n \in 1..NextSequence(s, c)

Outstanding(s) == FoldSeq(LAMBDA d, n : Len(d.pending) + n, 0, s.devices)

\* Mutant: any client may be replaced.
AnyDevice(s) == DOMAIN s.devices

\* The clients with nothing left to acknowledge.
Idle(s) == {i \in DOMAIN s.devices : s.devices[i].pending = <<>>}

\* A full table without an idle client has no room for another one.
HasRoom(s, c) ==
    /\ Outstanding(s) < MAX_OUTCOMES
    /\ HasRecord(s, c) \/ Len(s.devices) < MAX_DEVICES \/ Idle(s) # {}

\* Mutant: replacing a client does not raise the floor.
TouchedKeepsFloor(s, c, n) ==
    LET new  == [device |-> c, retired |-> n - 1, pending |-> <<>>]
        idle == CHOOSE i \in Idle(s) : \A j \in Idle(s) : i <= j
    IN IF HasRecord(s, c)
       THEN [s EXCEPT !.devices =
            Append(RemoveAt(s.devices, PlaceOf(s, c)), s.devices[PlaceOf(s, c)])]
       ELSE IF Len(s.devices) < MAX_DEVICES
            THEN [s EXCEPT !.devices = Append(s.devices, new)]
            ELSE [s EXCEPT !.devices = Append(RemoveAt(s.devices, idle), new)]

\* The table in which client c edits last: its record moves to the end, or a
\* new one replaces the least recent idle client of a full table, whose
\* retired sequences raise the floor.
Touched(s, c, n) ==
    IF HasRecord(s, c)
    THEN [s EXCEPT !.devices =
            Append(RemoveAt(s.devices, PlaceOf(s, c)), s.devices[PlaceOf(s, c)])]
    ELSE LET new  == [device |-> c, retired |-> n - 1, pending |-> <<>>]
             idle == CHOOSE i \in Idle(s) : \A j \in Idle(s) : i <= j
             out  == s.devices[idle].retired
         IN IF Len(s.devices) < MAX_DEVICES
            THEN [s EXCEPT !.devices = Append(s.devices, new)]
            ELSE [s EXCEPT !.devices = Append(RemoveAt(s.devices, idle), new),
                           !.floor = IF out > s.floor THEN out ELSE s.floor]

\* State::apply of a new edit: the organization changes and records it.
Applied(s, c, n, e) ==
    LET t == Touched(s, c, n) IN
    [t EXCEPT !.devices[Len(t.devices)].pending = Append(@, Recorded(n, e)),
              !.applied = @ \cup {e},
              !.twice = IF e \in t.applied THEN @ \cup {e} ELSE @]

\* Mutant: an acknowledgement retires all that is pending.
AcknowledgedAll(s, c, n) ==
    IF PendingOf(s, c) = <<>> THEN s
    ELSE LET i == PlaceOf(s, c) IN
         [s EXCEPT !.devices[i].pending = <<>>,
                   !.devices[i].retired = Last(s.devices[i].pending).sequence]

\* State::acknowledge: every outcome up to the sequence is retired.
Acknowledged(s, c, n) ==
    IF ~HasRecord(s, c) THEN s
    ELSE LET i    == PlaceOf(s, c)
             old  == s.devices[i].pending
             done == {j \in DOMAIN old : \A h \in 1..j : old[h].sequence <= n}
             last == Cardinality(done)
         IN IF last = 0 THEN s
            ELSE [s EXCEPT !.devices[i].pending = SubSeq(old, last + 1, Len(old)),
                           !.devices[i].retired =
                                IF old[last].sequence > @ THEN old[last].sequence
                                ELSE @]

-----------------------------------------------------------------------------
Init ==
    /\ versions = <<EmptyState>>
    /\ jobs = {}
    /\ wire = {}
    /\ inbox = [c \in Clients |-> {}]
    /\ journal = [c \in Clients |-> [pending |-> None, last |-> None]]
    /\ phase = [c \in Clients |-> "offline"]
    /\ sequence = [c \in Clients |-> 0]
    /\ ack = [c \in Clients |-> 0]
    /\ count = [c \in Clients |-> 0]
    /\ abandoned = {}
    /\ confirmed = {}
    /\ faults = 0

-----------------------------------------------------------------------------
(* Clients.                                                                *)

\* A client connects and is pushed the inventory of the kept state.  It
\* repeats its last acknowledgement, since nothing confirmed that it arrived;
\* the command line only when nothing is pending.
Connect(c) ==
    /\ phase[c] = "offline"
    /\ phase' = [phase EXCEPT ![c] = "settling"]
    /\ sequence' = [sequence EXCEPT ![c] = NextSequence(Kept, c)]
    /\ ack' = [ack EXCEPT ![c] =
                IF c \in Desktop \/ journal[c].pending = None
                THEN journal[c].last.sequence ELSE 0]
    /\ UNCHANGED <<serverVars, wire, inbox, journal, count, abandoned, confirmed,
                   faults>>

\* Event::Link: the desktop reads a newer inventory, sooner or later.
ReadInventory(c) ==
    /\ c \in Desktop
    /\ phase[c] = "ready"
    /\ sequence[c] # NextSequence(Kept, c)
    /\ sequence' = [sequence EXCEPT ![c] = NextSequence(Kept, c)]
    /\ UNCHANGED <<serverVars, wire, inbox, journal, phase, ack, count, abandoned,
                   confirmed, faults>>

\* The acknowledgement leaves on its own priority: requests may overtake it.
SendAck(c) ==
    /\ phase[c] # "offline"
    /\ ack[c] # 0
    /\ wire' = wire \cup {[kind |-> "ack", client |-> c, old |-> FALSE,
                           op |-> Recorded(ack[c], NoEdit)]}
    /\ ack' = [ack EXCEPT ![c] = 0]
    /\ UNCHANGED <<serverVars, inbox, journal, phase, sequence, count, abandoned,
                   confirmed, faults>>

Send(c, kind, op) ==
    wire' = wire \cup {[kind |-> kind, client |-> c, old |-> FALSE, op |-> op]}

\* Settling: the desktop dispatches a pending edit again with its original
\* identity; the command line asks for its outcome.
Retry(c) ==
    /\ phase[c] = "settling"
    /\ journal[c].pending # None
    /\ \/ c \in Desktop /\ Send(c, "mutate", journal[c].pending)
       \/ c \in CommandLine /\ Send(c, "resolve", journal[c].pending)
    /\ phase' = [phase EXCEPT ![c] = IF c \in Desktop THEN "mutating"
                                     ELSE "resolving"]
    /\ UNCHANGED <<serverVars, inbox, journal, sequence, ack, count, abandoned,
                   confirmed, faults>>

\* Nothing is pending.  The command line asks whether the acknowledgement of
\* its last outcome arrived before it goes on.
Settle(c) ==
    /\ phase[c] = "settling"
    /\ journal[c].pending = None
    /\ ack[c] = 0
    /\ IF c \in CommandLine /\ journal[c].last # None
       THEN /\ Send(c, "resolve", journal[c].last)
            /\ phase' = [phase EXCEPT ![c] = "confirming"]
       ELSE /\ phase' = [phase EXCEPT ![c] = "ready"]
            /\ UNCHANGED wire
    /\ UNCHANGED <<serverVars, inbox, journal, sequence, ack, count, abandoned,
                   confirmed, faults>>

\* How many edits there have been.
Began == MapThenSumSet(LAMBDA c : count[c], Clients)

\* ClientJournal::submit and the dispatch that follows it.  A save that fails,
\* or a client that dies before the dispatch, is a Break with or without the
\* record.  The command line takes the sequence from the newest inventory.
Submit(c) ==
    /\ phase[c] = "ready"
    /\ Began < MaxOps
    /\ LET n  == IF c \in Desktop THEN sequence[c] ELSE NextSequence(Kept, c)
           op == Recorded(n, [client |-> c, k |-> count[c] + 1])
       IN
       /\ journal' = [journal EXCEPT ![c].pending = op]
       /\ \/ Send(c, "mutate", op) /\ phase' = [phase EXCEPT ![c] = "mutating"]
                                   /\ UNCHANGED faults
          \/ /\ faults < MaxFaults
             /\ faults' = faults + 1
             /\ phase' = [phase EXCEPT ![c] = "offline"]
             /\ UNCHANGED wire
    /\ count' = [count EXCEPT ![c] = @ + 1]
    /\ UNCHANGED <<serverVars, inbox, sequence, ack, abandoned, confirmed>>

\* ClientJournal::retire, after the outcome was validated; then the
\* acknowledgement is due.  The inventory that holds the outcome came first.
Retire(c) ==
    \E reply \in inbox[c] :
        /\ phase[c] \in {"mutating", "resolving"}
        /\ reply.verdict = "outcome"
        /\ reply.op = journal[c].pending
        /\ journal' = [journal EXCEPT ![c] = [pending |-> None, last |-> reply.op]]
        /\ confirmed' = confirmed \cup {reply.op.edit}
        /\ ack' = [ack EXCEPT ![c] = reply.op.sequence]
        /\ sequence' = [sequence EXCEPT ![c] = NextSequence(Kept, c)]
        /\ phase' = [phase EXCEPT ![c] = "settling"]
        /\ inbox' = [inbox EXCEPT ![c] = {}]
        /\ UNCHANGED <<serverVars, wire, count, abandoned, faults>>

\* ClientJournal::settled: the server forgot the outcome too.
Confirmed(c) ==
    \E reply \in inbox[c] :
        /\ phase[c] = "confirming"
        /\ reply.verdict = "missing"
        /\ journal' = [journal EXCEPT ![c].last = None]
        /\ phase' = [phase EXCEPT ![c] = "ready"]
        /\ inbox' = [inbox EXCEPT ![c] = {}]
        /\ UNCHANGED <<serverVars, wire, sequence, ack, count, abandoned, confirmed,
                       faults>>

\* The server still has the outcome: the command line asks again.
AskConfirmed(c) ==
    \E reply \in inbox[c] :
        /\ phase[c] = "confirming"
        /\ reply.verdict = "outcome"
        /\ phase' = [phase EXCEPT ![c] = "settling"]
        /\ inbox' = [inbox EXCEPT ![c] = {}]
        /\ UNCHANGED <<serverVars, wire, journal, sequence, ack, count, abandoned,
                       confirmed, faults>>

\* After ACKNOWLEDGE_CONFIRMATION, or any other reply, it goes on and keeps the
\* outcome for the next command.
Unconfirmed(c) ==
    \E reply \in inbox[c] :
        /\ phase[c] = "confirming"
        /\ reply.verdict # "missing"
        /\ phase' = [phase EXCEPT ![c] = "ready"]
        /\ inbox' = [inbox EXCEPT ![c] = {}]
        /\ UNCHANGED <<serverVars, wire, journal, sequence, ack, count, abandoned,
                       confirmed, faults>>

\* The command line asks after a refused edit: only the recorded outcome, or
\* its absence, decides.
AskAgain(c) ==
    \E reply \in inbox[c] :
        /\ c \in CommandLine
        /\ phase[c] = "mutating"
        /\ reply.verdict # "outcome"
        /\ Send(c, "resolve", journal[c].pending)
        /\ phase' = [phase EXCEPT ![c] = "resolving"]
        /\ inbox' = [inbox EXCEPT ![c] = {}]
        /\ UNCHANGED <<serverVars, journal, sequence, ack, count, abandoned,
                       confirmed, faults>>

\* ClientJournal::abandon: the server recorded no such sequence.
Abandon(c) ==
    \E reply \in inbox[c] :
        /\ phase[c] = "resolving"
        /\ reply.verdict = "missing"
        /\ journal' = [journal EXCEPT ![c].pending = None]
        /\ abandoned' = abandoned \cup {journal[c].pending.edit}
        /\ phase' = [phase EXCEPT ![c] = "ready"]
        /\ inbox' = [inbox EXCEPT ![c] = {}]
        /\ UNCHANGED <<serverVars, wire, sequence, ack, count, confirmed, faults>>

\* Any other reply ends the connection: a refused dispatch, an outcome that is
\* not the pending edit's.
GiveUp(c) ==
    \E reply \in inbox[c] :
        /\ \/ phase[c] = "mutating" /\ c \in Desktop /\ reply.verdict # "outcome"
           \/ phase[c] = "resolving" /\ reply.verdict = "refused"
           \/ /\ phase[c] \in {"mutating", "resolving"}
              /\ reply.verdict = "outcome"
              /\ reply.op # journal[c].pending
        /\ phase' = [phase EXCEPT ![c] = "offline"]
        /\ inbox' = [inbox EXCEPT ![c] = {}]
        /\ UNCHANGED <<serverVars, wire, journal, sequence, ack, count, abandoned,
                       confirmed, faults>>

\* What the server has yet to dispatch of a client's connection.
Left(c) == {m \in wire : m.client = c /\ ~m.old}

\* A connection breaks or its client dies, or it ends with its work done.  What
\* the server had received of it is lost, or still waits in its thread when
\* connections overlap.
Break(c) ==
    /\ phase[c] # "offline"
    /\ phase[c] = "ready" \/ faults < MaxFaults
    /\ faults' = IF phase[c] = "ready" THEN faults ELSE faults + 1
    /\ phase' = [phase EXCEPT ![c] = "offline"]
    /\ ack' = [ack EXCEPT ![c] = 0]
    /\ inbox' = [inbox EXCEPT ![c] = {}]
    /\ jobs' = {j \in jobs : j.client # c}
    /\ \E late \in IF c \in Overlap THEN SUBSET Left(c) ELSE {{}} :
          wire' = (wire \ Left(c)) \cup {[m EXCEPT !.old = TRUE] : m \in late}
    /\ UNCHANGED <<versions, journal, sequence, count, abandoned, confirmed>>

-----------------------------------------------------------------------------
(* The server.                                                             *)

\* A reply goes to the connection the request came from.
Answer(m, verdict, op) ==
    inbox' = IF m.old THEN inbox
             ELSE [inbox EXCEPT ![m.client] = {[verdict |-> verdict, op |-> op]}]

\* The reply with an outcome waits for the version that holds it.
Owe(m, op, at) ==
    jobs' = IF m.old THEN jobs
            ELSE jobs \cup {[client |-> m.client, op |-> op, at |-> at]}

\* WorkspaceHost::mutate and State::apply.
Mutate(m) ==
    LET c == m.client
        n == m.op.sequence
        old == OutcomesAt(Live, c, n)
    IN /\ m \in wire
       /\ m.kind = "mutate"
       /\ wire' = wire \ {m}
       /\ IF old # {}
          THEN IF \E o \in old : o.edit = m.op.edit
               THEN Owe(m, m.op, Len(versions)) /\ UNCHANGED <<versions, inbox>>
               ELSE Answer(m, "refused", m.op) /\ UNCHANGED serverVars
          ELSE IF Expected(Live, c, n) /\ HasRoom(Live, c)
               THEN /\ versions' = Append(versions, Applied(Live, c, n, m.op.edit))
                    /\ Owe(m, m.op, Len(versions) + 1)
                    /\ UNCHANGED inbox
               ELSE Answer(m, "refused", m.op) /\ UNCHANGED serverVars
       /\ UNCHANGED <<clientVars, faults>>

\* WorkspaceHost::resolve: a recorded outcome waits for the newest version, an
\* absent one is refused at once.
Resolve(m) ==
    LET old == OutcomesAt(Live, m.client, m.op.sequence) IN
    /\ m \in wire
    /\ m.kind = "resolve"
    /\ wire' = wire \ {m}
    /\ IF old = {}
       THEN Answer(m, "missing", m.op) /\ UNCHANGED jobs
       ELSE /\ \E o \in old : Owe(m, o, Len(versions))
            /\ UNCHANGED inbox
    /\ UNCHANGED <<versions, clientVars, faults>>

\* WorkspaceHost::retire_outcome: nothing waits for the write.
Acknowledge(m) ==
    LET next == Acknowledged(Live, m.client, m.op.sequence) IN
    /\ m \in wire
    /\ m.kind = "ack"
    /\ wire' = wire \ {m}
    /\ versions' = IF next = Live THEN versions ELSE Append(versions, next)
    /\ UNCHANGED <<jobs, inbox, clientVars, faults>>

\* A write keeps a later version, and its inventory is pushed.
Keep ==
    \E i \in 2..Len(versions) :
        /\ versions' = SubSeq(versions, i, Len(versions))
        /\ jobs' = {[j EXCEPT !.at = IF @ > i THEN @ - i + 1 ELSE 1] : j \in jobs}
        /\ UNCHANGED <<wire, inbox, clientVars, faults>>

\* Mutant: the outcome is replied before its version is kept.
DeliverAtOnce(j) ==
    /\ jobs' = jobs \ {j}
    /\ inbox' = [inbox EXCEPT ![j.client] = {[verdict |-> "outcome", op |-> j.op]}]
    /\ UNCHANGED <<versions, wire, clientVars, faults>>

\* The outcome is replied once its version is kept.
Deliver(j) ==
    /\ j.at = 1
    /\ jobs' = jobs \ {j}
    /\ inbox' = [inbox EXCEPT ![j.client] = {[verdict |-> "outcome", op |-> j.op]}]
    /\ UNCHANGED <<versions, wire, clientVars, faults>>

\* Mutant: replies that waited for a lost version are dropped.
LoseWriteSilently ==
    \E i \in DOMAIN versions :
        /\ faults < MaxFaults
        /\ Len(versions) > 1
        /\ faults' = faults + 1
        /\ versions' = <<versions[i]>>
        /\ jobs' = {j \in jobs : j.at = 1}
        /\ UNCHANGED <<wire, inbox, clientVars>>

\* A write fails and the record is read back: the server goes on from a version
\* it may have written.  Replies that waited for a later one are refused.
LoseWrite ==
    \E i \in DOMAIN versions :
        /\ faults < MaxFaults
        /\ Len(versions) > 1
        /\ faults' = faults + 1
        /\ versions' = <<versions[i]>>
        /\ jobs' = {j \in jobs : j.at = 1}
        /\ inbox' = [c \in Clients |->
              IF \E j \in jobs : j.client = c /\ j.at # 1
              THEN {[verdict |-> "refused", op |-> None]} ELSE inbox[c]]
        /\ UNCHANGED <<wire, clientVars>>

\* The server crashes and restarts: every connection is gone.
Crash ==
    \E i \in DOMAIN versions :
        /\ faults < MaxFaults
        /\ faults' = faults + 1
        /\ versions' = <<versions[i]>>
        /\ jobs' = {}
        /\ wire' = {}
        /\ inbox' = [c \in Clients |-> {}]
        /\ phase' = [c \in Clients |-> "offline"]
        /\ ack' = [c \in Clients |-> 0]
        /\ UNCHANGED <<journal, sequence, count, abandoned, confirmed>>

-----------------------------------------------------------------------------
ClientStep(c) ==
    \/ Connect(c)
    \/ ReadInventory(c)
    \/ SendAck(c)
    \/ Retry(c)
    \/ Settle(c)
    \/ Submit(c)
    \/ Retire(c)
    \/ Confirmed(c)
    \/ AskConfirmed(c)
    \/ Unconfirmed(c)
    \/ AskAgain(c)
    \/ Abandon(c)
    \/ GiveUp(c)

ServerStep ==
    \/ \E m \in wire : Mutate(m) \/ Resolve(m) \/ Acknowledge(m)
    \/ Keep
    \/ \E j \in jobs : Deliver(j)

Next ==
    \/ \E c \in Clients : ClientStep(c) \/ Break(c)
    \/ ServerStep
    \/ LoseWrite
    \/ Crash

Spec == Init /\ [][Next]_vars

\* Clients come back and go on, and stop asking for a confirmation; each message
\* of theirs is handled, and the server's writes and replies happen.
Fairness ==
    /\ \A c \in Clients : WF_vars(ClientStep(c)) /\ SF_vars(Unconfirmed(c))
    /\ \A c \in Clients :
          WF_vars(\E m \in wire : m.client = c /\ (Mutate(m) \/ Resolve(m)))
    /\ \A c \in Clients : WF_vars(\E m \in wire : m.client = c /\ Acknowledge(m))
    /\ WF_vars(Keep)
    /\ \A c \in Clients : WF_vars(\E j \in jobs : j.client = c /\ Deliver(j))

FairSpec == Spec /\ Fairness

-----------------------------------------------------------------------------
Phases == {"offline", "settling", "mutating", "resolving", "confirming", "ready"}

Edits == [client : Clients, k : Nat \ {0}]
Ops == [sequence : Nat \ {0}, edit : Edits]

\* An acknowledgement names a sequence and no edit.
Sent == [sequence : Nat, edit : Edits \cup {NoEdit}]

States == [devices : Seq([device : Clients, retired : Nat, pending : Seq(Ops)]),
           floor : Nat, applied : SUBSET Edits, twice : SUBSET Edits]

Messages == [kind : {"mutate", "resolve", "ack"}, client : Clients, old : BOOLEAN,
             op : Sent]

Replies == [verdict : {"outcome", "refused", "missing"}, op : Sent]

TypeOK ==
    /\ versions \in Seq(States) /\ versions # <<>>
    /\ jobs \subseteq [client : Clients, op : Ops, at : Nat \ {0}]
    /\ wire \subseteq Messages
    /\ inbox \in [Clients -> SUBSET Replies]
    /\ journal \in [Clients -> [pending : Ops \cup {None}, last : Ops \cup {None}]]
    /\ phase \in [Clients -> Phases]
    /\ sequence \in [Clients -> Nat]
    /\ ack \in [Clients -> Nat]
    /\ count \in [Clients -> Nat]
    /\ abandoned \subseteq Edits
    /\ confirmed \subseteq Edits
    /\ faults \in 0..MaxFaults

\* No edit is ever applied twice, however often it is dispatched.
AppliedAtMostOnce == \A i \in DOMAIN versions : versions[i].twice = {}

\* What a client was told when it settled an edit stays true: an outcome it
\* retired is one the server can no longer lose, and an edit it abandoned,
\* because the server recorded no such sequence, is never applied.
\* (ClientJournal::retire, abandon)
ToldIsTrue ==
    /\ confirmed \subseteq Kept.applied
    /\ abandoned \cap Live.applied = {}

\* While a client has an edit pending that the server applied, the server has
\* its outcome under the same sequence: replacing idle clients, losing writes
\* and repeated acknowledgements never forget it.
OutcomeNotForgotten ==
    \A c \in Clients : \A i \in DOMAIN versions :
        LET op == journal[c].pending IN
        op # None /\ op.edit \in versions[i].applied
            => op \in OutcomesAt(versions[i], c, op.sequence)

\* The sequence of a pending edit is always one the server records the edit
\* under or still accepts: however the client got it, replaced records, lost
\* writes and crashes never leave the edit refused as stale for good.
PendingIsExpected ==
    \A c \in Clients :
        LET op == journal[c].pending IN
        op = None \/ op \in OutcomesAt(Live, c, op.sequence)
                  \/ Expected(Live, c, op.sequence)

\* Every edit a client began is settled: its outcome is retired, or the client
\* learns that it was not applied.
EditsSettle == \A c \in Clients : journal[c].pending # None ~> journal[c].pending = None

-----------------------------------------------------------------------------
(* The inductive invariant from which EditProtocolProofs shows the          *)
(* invariants above.  It holds when no request is dispatched late, and when *)
(* only desktops have late requests and the table has a place for everyone. *)

RoomForAll ==
    /\ Overlap \subseteq Desktop
    /\ IsFiniteSet(Clients)
    /\ Cardinality(Clients) <= MAX_DEVICES

Orderly == Overlap = {} \/ RoomForAll

\* The table has one record per client, and the outcomes of each in sequence.
WellFormed(s) ==
    /\ Len(s.devices) <= MAX_DEVICES
    /\ \A i, j \in DOMAIN s.devices :
          s.devices[i].device = s.devices[j].device => i = j
    /\ \A i \in DOMAIN s.devices : \A j \in DOMAIN s.devices[i].pending :
          s.devices[i].pending[j].sequence = s.devices[i].retired + j

\* From s to t the client had no edit applied: what it could send then it still
\* can, although its record may have been replaced.
Quiet(s, t, c) ==
    /\ HasRecord(t, c) => /\ HasRecord(s, c)
                          /\ NextSequence(t, c) = NextSequence(s, c)
    /\ ~HasRecord(t, c) => NextSequence(s, c) <= NextSequence(t, c)

\* Later versions hold what earlier ones do; only its own edits change what
\* a client may send.
VersionsGrow ==
    \A i, j \in DOMAIN versions : i <= j =>
        /\ versions[i].applied \subseteq versions[j].applied
        /\ \A c \in Clients :
              (\A e \in versions[j].applied : e.client = c => e \in versions[i].applied)
                 => Quiet(versions[i], versions[j], c)

\* The outcomes of a table are of edits that were applied, once.
Truthful(s) ==
    /\ s.twice = {}
    /\ \A c \in Clients : \A o \in ToSet(PendingOf(s, c)) : o.edit \in s.applied

Tables == \A i \in DOMAIN versions : WellFormed(versions[i]) /\ Truthful(versions[i])

\* A client numbers its edits; all that were applied it has pending or retired.
EditsKnown ==
    /\ \A e \in abandoned \cup confirmed : e.k <= count[e.client]
    /\ \A c \in Clients : journal[c].pending # None =>
          LET e == journal[c].pending.edit IN
          e.client = c /\ e.k <= count[c] /\ e \notin abandoned
    /\ \A e \in Live.applied :
          e \in confirmed \/ e = journal[e.client].pending.edit

\* The outcome a reply brings is kept, or will be when the reply may leave.
RepliesAreKept ==
    /\ \A j \in jobs : j.at \in DOMAIN versions /\ j.op.edit \in versions[j.at].applied
    /\ \A c \in Clients : \A r \in inbox[c] :
          r.verdict = "outcome" => r.op \in Ops /\ r.op.edit \in Kept.applied

\* The sequence of a pending edit is recorded or accepted in every version.
PendingFits ==
    \A c \in Clients : journal[c].pending # None =>
        \A i \in DOMAIN versions :
            \/ journal[c].pending \in
                  OutcomesAt(versions[i], c, journal[c].pending.sequence)
            \/ Expected(versions[i], c, journal[c].pending.sequence)

\* What a client acknowledges, or has yet to.
Acks(c) == {ack[c], journal[c].last.sequence}
           \cup {m.op.sequence : m \in {w \in wire : w.client = c /\ w.kind = "ack"}}

\* A desktop may use the sequence it has read.
MayUse(c) == c \in Desktop /\ journal[c].pending = None
             /\ phase[c] \in {"settling", "ready"}

\* Every acknowledgement is of an edit before the pending one, and before what
\* the client may send next.
AcksArePast ==
    \A c \in Clients : \A a \in Acks(c) :
        /\ \A i \in DOMAIN versions : a < NextSequence(versions[i], c)
        /\ journal[c].pending # None => a < journal[c].pending.sequence
        /\ MayUse(c) => a < sequence[c]

ReadIsExpected ==
    \A c \in Clients : MayUse(c) =>
        \A i \in DOMAIN versions : Expected(versions[i], c, sequence[c])

\* The requests of a client's connection.
Requests(c) == {m \in wire : m.client = c /\ ~m.old /\ m.kind # "ack"}
Owed(c) == {j \in jobs : j.client = c}

\* A client waits for one request at a time: it is on its way, or its reply is
\* owed, or on its way back.
OneRequest ==
    \A c \in Clients :
        /\ \A m, w \in Requests(c) : m = w
        /\ \A j, h \in Owed(c) : j = h
        /\ Requests(c) # {} => Owed(c) = {} /\ inbox[c] = {}
        /\ Owed(c) # {} => inbox[c] = {}
        /\ phase[c] \in {"offline", "settling", "ready"} =>
              Requests(c) = {} /\ Owed(c) = {} /\ inbox[c] = {}

\* What the phase says of the pending edit, and of the request.
PhaseFits ==
    /\ \A c \in Clients :
        /\ phase[c] \in {"ready", "confirming"} => journal[c].pending = None
        /\ phase[c] \in {"mutating", "resolving"} => journal[c].pending # None
        /\ phase[c] \in {"resolving", "confirming"} => c \in CommandLine
    /\ \A m \in wire :
        /\ m.kind = "resolve" => m.client \in CommandLine
        /\ m.kind = "mutate" => m.op \in Ops
        /\ ~m.old /\ m.kind = "mutate" => /\ phase[m.client] = "mutating"
                                          /\ m.op = journal[m.client].pending
        /\ ~m.old /\ m.kind = "resolve" /\ phase[m.client] = "resolving" =>
              m.op = journal[m.client].pending

\* A client that is told its edit is missing has had it applied nowhere.
MissingIsTrue ==
    \A c \in Clients : \A r \in inbox[c] :
        phase[c] = "resolving" /\ r.verdict = "missing"
            => journal[c].pending.edit \notin Live.applied

\* A late request repeats the pending edit, or one retired and still on record.
LateIsHarmless ==
    \A m \in wire : m.old =>
        /\ RoomForAll /\ m.client \in Desktop
        /\ m.kind = "mutate" =>
              \/ m.op = journal[m.client].pending
              \/ \A i \in DOMAIN versions :
                    /\ HasRecord(versions[i], m.client)
                    /\ m.op.sequence < NextSequence(versions[i], m.client)

ProtocolInv ==
    /\ Tables
    /\ VersionsGrow
    /\ EditsKnown
    /\ ToldIsTrue
    /\ OutcomeNotForgotten
    /\ RepliesAreKept
    /\ PendingFits
    /\ AcksArePast
    /\ ReadIsExpected
    /\ OneRequest
    /\ PhaseFits
    /\ MissingIsTrue
    /\ LateIsHarmless
=============================================================================
