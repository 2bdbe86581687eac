------------------------ MODULE EditProtocolProofs ------------------------
(***************************************************************************)
(* Theorems about EditProtocol: edits are applied at most once and clients *)
(* are told the truth about them, for any clients, table and number of     *)
(* edits and faults, as long as requests are not dispatched late, or only  *)
(* those of desktops are and the table has a place for every client.       *)
(***************************************************************************)
EXTENDS EditProtocol, FiniteSetTheorems, TLAPS

-----------------------------------------------------------------------------
(* The table of outcomes.                                                  *)

Device == [device : Clients, retired : Nat, pending : Seq(Ops)]

RecordOf(s, c) == s.devices[PlaceOf(s, c)]

(* A client with a record has it at the place that is looked up.           *)
LEMMA RecordFound ==
    ASSUME NEW s \in States, NEW c, HasRecord(s, c)
    PROVE  /\ PlaceOf(s, c) \in DOMAIN s.devices
           /\ RecordOf(s, c) \in Device
           /\ RecordOf(s, c).device = c
<1>1. PlaceOf(s, c) \in PlacesOf(s, c) BY DEF HasRecord, PlaceOf
<1>2. s.devices \in Seq(Device) BY DEF States, Device
<1>3. PlaceOf(s, c) \in DOMAIN s.devices /\ RecordOf(s, c).device = c
  BY <1>1 DEF PlacesOf, RecordOf
<1>4. RecordOf(s, c) \in Device
  <2> HIDE DEF Device
  <2> QED BY <1>2, <1>3 DEF RecordOf
<1> QED BY <1>3, <1>4

(* Every record is the one that is found for its client.                   *)
LEMMA RecordUnique ==
    ASSUME NEW s \in States, WellFormed(s), NEW i \in DOMAIN s.devices
    PROVE  /\ HasRecord(s, s.devices[i].device)
           /\ RecordOf(s, s.devices[i].device) = s.devices[i]
<1> DEFINE c == s.devices[i].device
<1>1. i \in PlacesOf(s, c) BY DEF PlacesOf
<1>2. HasRecord(s, c) BY <1>1 DEF HasRecord
<1>3. PlaceOf(s, c) \in DOMAIN s.devices /\ s.devices[PlaceOf(s, c)].device = c
  BY <1>2, RecordFound DEF RecordOf
<1>4. PlaceOf(s, c) = i BY <1>3 DEF WellFormed
<1> QED BY <1>2, <1>4 DEF RecordOf

(* A client has no record where no record is its own.                      *)
LEMMA RecordAbsent ==
    ASSUME NEW s, NEW c, \A i \in DOMAIN s.devices : s.devices[i].device # c
    PROVE  ~HasRecord(s, c)
BY DEF HasRecord, PlacesOf

(* The next sequence follows what is retired and what is pending.          *)
LEMMA NextFollows ==
    ASSUME NEW s \in States, WellFormed(s), NEW c, HasRecord(s, c)
    PROVE  NextSequence(s, c) = RecordOf(s, c).retired + Len(RecordOf(s, c).pending) + 1
<1> DEFINE d == RecordOf(s, c)
<1>1. d \in Device BY RecordFound
<1>2. NextSequence(s, c) =
        IF d.pending = <<>> THEN d.retired + 1 ELSE Last(d.pending).sequence + 1
  BY DEF NextSequence, RecordOf
<1>3. \A j \in DOMAIN d.pending : d.pending[j].sequence = d.retired + j
  BY RecordFound DEF WellFormed, RecordOf
<1> HIDE DEF d
<1>4. CASE d.pending = <<>> BY <1>1, <1>2, <1>4 DEF Device, d
<1>5. CASE d.pending # <<>>
  <2>1. Len(d.pending) \in DOMAIN d.pending BY <1>1, <1>5 DEF Device
  <2>2. Last(d.pending).sequence = d.retired + Len(d.pending)
    BY <2>1, <1>3 DEF Last
  <2> QED BY <2>2, <1>2, <1>5 DEF d
<1> QED BY <1>4, <1>5

(* Sequences begin with one.                                               *)
LEMMA NextIsNat ==
    ASSUME NEW s \in States, WellFormed(s), NEW c
    PROVE  NextSequence(s, c) \in Nat \ {0}
<1>1. CASE HasRecord(s, c)
  <2>1. RecordOf(s, c) \in Device BY <1>1, RecordFound
  <2>2. RecordOf(s, c).retired \in Nat /\ Len(RecordOf(s, c).pending) \in Nat
    BY <2>1 DEF Device
  <2> QED BY <2>2, <1>1, NextFollows
<1>2. CASE ~HasRecord(s, c) BY <1>2 DEF NextSequence, States
<1> QED BY <1>1, <1>2

(* An outcome is an entry of the client's record.                          *)
LEMMA OutcomeIs ==
    ASSUME NEW s, NEW c, NEW n, NEW o
    PROVE  o \in OutcomesAt(s, c, n) <=>
              /\ HasRecord(s, c)
              /\ \E j \in DOMAIN RecordOf(s, c).pending : RecordOf(s, c).pending[j] = o
              /\ o.sequence = n
<1>1. CASE HasRecord(s, c)
  BY <1>1 DEF OutcomesAt, PendingOf, ToSet, RecordOf
<1>2. CASE ~HasRecord(s, c)
  BY <1>2 DEF OutcomesAt, PendingOf, ToSet
<1> QED BY <1>1, <1>2

(* An outcome is before what comes next, after what is retired.            *)
LEMMA OutcomeIsPast ==
    ASSUME NEW s \in States, WellFormed(s), NEW c, NEW n, NEW o \in OutcomesAt(s, c, n)
    PROVE  /\ o \in Ops /\ n \in Nat /\ n < NextSequence(s, c)
           /\ HasRecord(s, c)
<1>1. HasRecord(s, c) /\ o.sequence = n BY OutcomeIs
<1>2. RecordOf(s, c) \in Device BY <1>1, RecordFound
<1>3. PICK j \in DOMAIN RecordOf(s, c).pending : RecordOf(s, c).pending[j] = o
  BY OutcomeIs
<1>4. o \in Ops BY <1>2, <1>3 DEF Device
<1>5. o.sequence = RecordOf(s, c).retired + j
  BY <1>1, <1>3, RecordFound DEF WellFormed, RecordOf
<1>6. j \in 1..Len(RecordOf(s, c).pending) /\ RecordOf(s, c).retired \in Nat
  BY <1>2, <1>3 DEF Device
<1>7. NextSequence(s, c) = RecordOf(s, c).retired + Len(RecordOf(s, c).pending) + 1
  BY <1>1, NextFollows
<1>8. Len(RecordOf(s, c).pending) \in Nat BY <1>2 DEF Device
<1> QED BY <1>1, <1>4, <1>5, <1>6, <1>7, <1>8

(* Removing an entry leaves the others in their order.                     *)
LEMMA RemovedAt ==
    ASSUME NEW S, NEW q \in Seq(S), NEW i \in 1..Len(q)
    PROVE  /\ RemoveAt(q, i) \in Seq(S)
           /\ Len(RemoveAt(q, i)) = Len(q) - 1
           /\ \A j \in 1..Len(q) - 1 :
                 RemoveAt(q, i)[j] = IF j < i THEN q[j] ELSE q[j + 1]
<1> DEFINE a == SubSeq(q, 1, i - 1)
           b == SubSeq(q, i + 1, Len(q))
<1>1. a \in Seq(S) /\ Len(a) = i - 1 /\ \A j \in 1..i - 1 : a[j] = q[j]
  OBVIOUS
<1>2. b \in Seq(S) /\ Len(b) = Len(q) - i /\ \A j \in 1..Len(q) - i : b[j] = q[i + j]
  OBVIOUS
<1>3. RemoveAt(q, i) = a \o b BY DEF RemoveAt
<1> HIDE DEF a, b
<1>4. a \o b \in Seq(S) /\ Len(a \o b) = Len(q) - 1
  <2>1. a \o b \in Seq(S) BY <1>1, <1>2
  <2>4. a \in Seq(S) /\ b \in Seq(S) BY <1>1, <1>2
  <2>2. Len(a \o b) = Len(a) + Len(b) BY <2>4
  <2>3. Len(q) \in Nat /\ i \in Nat OBVIOUS
  <2> QED BY <2>1, <2>2, <2>3, <1>1, <1>2
<1>5. ASSUME NEW j \in 1..Len(q) - 1
      PROVE  (a \o b)[j] = IF j < i THEN q[j] ELSE q[j + 1]
  <2>1. CASE j < i BY <2>1, <1>1, <1>2
  <2>2. CASE j >= i
    <3>1. (a \o b)[j] = b[j - Len(a)] BY <2>2, <1>1, <1>2
    <3>2. j - (i - 1) \in 1..Len(q) - i BY <2>2
    <3>3. b[j - (i - 1)] = q[i + (j - (i - 1))] BY <3>2, <1>2
    <3>4. i + (j - (i - 1)) = j + 1 OBVIOUS
    <3>5. (a \o b)[j] = q[j + 1] BY <3>1, <3>3, <3>4, <1>1
    <3>6. ~(j < i) BY <2>2
    <3> QED BY <3>5, <3>6
  <2>3. Len(q) \in Nat OBVIOUS
  <2>4. i \in Nat /\ j \in Nat BY <2>3
  <2>5. j < i \/ j >= i BY <2>4
  <2> QED BY <2>1, <2>2, <2>5
<1> QED BY <1>3, <1>4, <1>5

(* A client's record is kept, or absent, or replaced because it is idle.   *)
Gathers(s, t, c) ==
    /\ s.floor <= t.floor
    /\ \A b \in Clients \ {c} :
        \/ HasRecord(s, b) /\ HasRecord(t, b) /\ RecordOf(t, b) = RecordOf(s, b)
        \/ ~HasRecord(s, b) /\ ~HasRecord(t, b)
        \/ /\ HasRecord(s, b) /\ ~HasRecord(t, b)
           /\ RecordOf(s, b).pending = <<>>
           /\ RecordOf(s, b).retired <= t.floor
           /\ ~HasRecord(s, c)
           /\ Len(s.devices) >= MAX_DEVICES

(* How the records of t come from those of s when client c edits.          *)
Rearranged(s, t, c) ==
    /\ \A j \in 1..Len(t.devices) - 1 : \E i \in DOMAIN s.devices :
          t.devices[j] = s.devices[i] /\ s.devices[i].device # c
    /\ \A j, h \in 1..Len(t.devices) - 1 :
          t.devices[j].device = t.devices[h].device => j = h
    /\ \A i \in DOMAIN s.devices : s.devices[i].device # c =>
          \/ \E j \in 1..Len(t.devices) - 1 : t.devices[j] = s.devices[i]
          \/ /\ s.devices[i].pending = <<>>
             /\ s.devices[i].retired <= t.floor
             /\ ~HasRecord(s, c)
             /\ Len(s.devices) >= MAX_DEVICES

(* A table whose last record is the editing client's and whose others come *)
(* from before is well formed.                                             *)
LEMMA RearrangedTable ==
    ASSUME NEW s \in States, NEW t \in States, NEW c \in Clients,
           WellFormed(s), Rearranged(s, t, c), s.floor <= t.floor,
           Len(t.devices) > 0, Len(t.devices) <= MAX_DEVICES,
           t.devices[Len(t.devices)].device = c,
           \A j \in DOMAIN t.devices[Len(t.devices)].pending :
              t.devices[Len(t.devices)].pending[j].sequence =
                 t.devices[Len(t.devices)].retired + j
    PROVE  /\ WellFormed(t)
           /\ Gathers(s, t, c)
           /\ HasRecord(t, c)
           /\ RecordOf(t, c) = t.devices[Len(t.devices)]
<1> DEFINE u == t.devices
           q == s.devices
           N == Len(u)
<1>1. u \in Seq(Device) /\ q \in Seq(Device) BY DEF States, Device
<1>2. DOMAIN u = 1..N /\ N \in Nat /\ DOMAIN q = 1..Len(q) BY <1>1
<1>3. \A j \in 1..N - 1 : \E i \in DOMAIN q : u[j] = q[i] /\ q[i].device # c
  BY DEF Rearranged
<1>4. \A j, h \in 1..N - 1 : u[j].device = u[h].device => j = h
  BY DEF Rearranged
<1>5. N \in DOMAIN u /\ u[N].device = c BY <1>2
<1>6. \A j \in DOMAIN u : j # N => j \in 1..N - 1 BY <1>2
<1>7. WellFormed(t)
  <2>1. \A i, j \in DOMAIN u : u[i].device = u[j].device => i = j
    <3> HIDE DEF u, N, q
    <3> QED BY <1>3, <1>4, <1>5, <1>6
  <2>2. ASSUME NEW i \in DOMAIN u
        PROVE  \A j \in DOMAIN u[i].pending : u[i].pending[j].sequence = u[i].retired + j
    <3>1. CASE i = N BY <3>1
    <3>2. CASE i # N
      <4>1. PICK h \in DOMAIN q : u[i] = q[h] BY <3>2, <1>6, <1>3
      <4> QED BY <4>1 DEF WellFormed
    <3> QED BY <3>1, <3>2
  <2> QED BY <2>1, <2>2 DEF WellFormed
<1>8. HasRecord(t, c) /\ RecordOf(t, c) = u[N]
  BY <1>7, <1>5, RecordUnique
<1>9. ASSUME NEW b \in Clients \ {c}, HasRecord(t, b)
      PROVE  HasRecord(s, b) /\ RecordOf(t, b) = RecordOf(s, b)
  <2>1. PlaceOf(t, b) \in DOMAIN u /\ u[PlaceOf(t, b)].device = b
    BY <1>9, RecordFound DEF RecordOf
  <2>2. PlaceOf(t, b) \in 1..N - 1 BY <2>1, <1>5, <1>6
  <2>3. PICK i \in DOMAIN q : u[PlaceOf(t, b)] = q[i] BY <2>2, <1>3
  <2>4. HasRecord(s, b) /\ RecordOf(s, b) = q[i]
    BY <2>1, <2>3, RecordUnique
  <2> QED BY <2>4, <2>3 DEF RecordOf
<1>10. ASSUME NEW b \in Clients \ {c}, HasRecord(s, b), ~HasRecord(t, b)
       PROVE  /\ RecordOf(s, b).pending = <<>>
              /\ RecordOf(s, b).retired <= t.floor
              /\ ~HasRecord(s, c)
              /\ Len(s.devices) >= MAX_DEVICES
  <2>1. PlaceOf(s, b) \in DOMAIN q /\ q[PlaceOf(s, b)].device = b
    BY <1>10, RecordFound DEF RecordOf
  <2>2. ~\E j \in 1..N - 1 : u[j] = q[PlaceOf(s, b)]
    <3> SUFFICES ASSUME NEW j \in 1..N - 1, u[j] = q[PlaceOf(s, b)] PROVE FALSE
      OBVIOUS
    <3>1. j \in DOMAIN u /\ u[j].device = b BY <2>1, <1>2
    <3> QED BY <3>1, <1>7, <1>10, RecordUnique
  <2> QED BY <2>1, <2>2 DEF Rearranged, RecordOf
<1> QED BY <1>7, <1>8, <1>9, <1>10 DEF Gathers

(* A new last entry in the place of an earlier one.                        *)
LEMMA MovedToEnd ==
    ASSUME NEW S, NEW q \in Seq(S), NEW i \in 1..Len(q), NEW r \in S
    PROVE  /\ Append(RemoveAt(q, i), r) \in Seq(S)
           /\ Len(Append(RemoveAt(q, i), r)) = Len(q)
           /\ Append(RemoveAt(q, i), r)[Len(q)] = r
           /\ \A j \in 1..Len(q) - 1 : Append(RemoveAt(q, i), r)[j] =
                 IF j < i THEN q[j] ELSE q[j + 1]
<1> DEFINE a == RemoveAt(q, i)
<1>1. /\ a \in Seq(S) /\ Len(a) = Len(q) - 1
      /\ \A j \in 1..Len(q) - 1 : a[j] = IF j < i THEN q[j] ELSE q[j + 1]
  BY RemovedAt
<1>2. Len(q) \in Nat OBVIOUS
<1> HIDE DEF a
<1>3. a \in Seq(S) BY <1>1
<1>4. Len(Append(a, r)) = Len(a) + 1 /\ Append(a, r) \in Seq(S) BY <1>3
<1>5. Append(a, r)[Len(a) + 1] = r BY <1>3
<1>6. \A j \in 1..Len(a) : Append(a, r)[j] = a[j] BY <1>3
<1>7. Len(a) + 1 = Len(q) BY <1>1, <1>2
<1>8. \A j \in 1..Len(q) - 1 : Append(a, r)[j] = a[j] BY <1>6, <1>7, <1>1, <1>2
<1> QED BY <1>1, <1>4, <1>5, <1>7, <1>8 DEF a

(* The others stay when the removed record is the client's own, or idle.   *)
LEMMA MovedTable ==
    ASSUME NEW s \in States, NEW t \in States, NEW c \in Clients, WellFormed(s),
           NEW i \in DOMAIN s.devices, NEW r \in Device,
           t.devices = Append(RemoveAt(s.devices, i), r),
           \A h \in DOMAIN s.devices : h # i => s.devices[h].device # c,
           \/ s.devices[i].device = c
           \/ /\ s.devices[i].pending = <<>>
              /\ s.devices[i].retired <= t.floor
              /\ ~HasRecord(s, c)
              /\ Len(s.devices) >= MAX_DEVICES
    PROVE  /\ Rearranged(s, t, c)
           /\ Len(t.devices) = Len(s.devices) /\ Len(t.devices) > 0
           /\ t.devices[Len(t.devices)] = r
<1> DEFINE q == s.devices
           u == t.devices
<1>1. q \in Seq(Device) BY DEF States, Device
<1>2. i \in 1..Len(q) /\ Len(q) \in Nat /\ DOMAIN q = 1..Len(q) BY <1>1
<1> HIDE DEF Device
<1>3. /\ u \in Seq(Device) /\ Len(u) = Len(q) /\ u[Len(q)] = r
      /\ \A j \in 1..Len(q) - 1 : u[j] = IF j < i THEN q[j] ELSE q[j + 1]
  BY <1>1, <1>2, MovedToEnd
<1>4. \A j, h \in DOMAIN q : q[j].device = q[h].device => j = h
  BY DEF WellFormed
<1>5. \A h \in DOMAIN q : h # i => q[h].device # c OBVIOUS
<1> HIDE DEF q, u
<1>6. \A j \in 1..Len(u) - 1 : \E h \in DOMAIN q : u[j] = q[h] /\ q[h].device # c
  <2> SUFFICES ASSUME NEW j \in 1..Len(u) - 1
               PROVE  \E h \in DOMAIN q : u[j] = q[h] /\ q[h].device # c
    OBVIOUS
  <2>1. CASE j < i
    <3>1. j \in DOMAIN q /\ j # i /\ u[j] = q[j] BY <2>1, <1>2, <1>3
    <3> QED BY <3>1, <1>5
  <2>2. CASE ~(j < i)
    <3>1. j + 1 \in DOMAIN q /\ j + 1 # i /\ u[j] = q[j + 1] BY <2>2, <1>2, <1>3
    <3> QED BY <3>1, <1>5
  <2> QED BY <2>1, <2>2
<1>7. \A j, h \in 1..Len(u) - 1 : u[j].device = u[h].device => j = h
  <2> DEFINE at(j) == IF j < i THEN j ELSE j + 1
  <2>1. \A j \in 1..Len(u) - 1 : at(j) \in DOMAIN q /\ u[j] = q[at(j)] BY <1>2, <1>3
  <2>2. \A j, h \in 1..Len(u) - 1 : at(j) = at(h) => j = h BY <1>2, <1>3
  <2> HIDE DEF at
  <2> QED BY <2>1, <2>2, <1>4
<1>8. \A h \in DOMAIN q : h # i => \E j \in 1..Len(u) - 1 : u[j] = q[h]
  <2> SUFFICES ASSUME NEW h \in DOMAIN q, h # i
               PROVE  \E j \in 1..Len(u) - 1 : u[j] = q[h]
    OBVIOUS
  <2>1. CASE h < i
    <3>1. h \in 1..Len(u) - 1 /\ u[h] = q[h] BY <2>1, <1>2, <1>3
    <3> QED BY <3>1
  <2>2. CASE ~(h < i)
    <3>1. h - 1 \in 1..Len(u) - 1 /\ ~(h - 1 < i) /\ (h - 1) + 1 = h
      BY <2>2, <1>2, <1>3
    <3>2. u[h - 1] = q[h] BY <3>1, <1>3
    <3> QED BY <3>1, <3>2
  <2> QED BY <2>1, <2>2
<1>9. Rearranged(s, t, c) BY <1>6, <1>7, <1>8 DEF Rearranged, q, u
<1> QED BY <1>9, <1>2, <1>3 DEF q, u

(* A new record at the end of a table that has room.                       *)
LEMMA AddedTable ==
    ASSUME NEW s \in States, NEW t \in States, NEW c \in Clients, WellFormed(s),
           NEW r \in Device, t.devices = Append(s.devices, r),
           \A h \in DOMAIN s.devices : s.devices[h].device # c
    PROVE  /\ Rearranged(s, t, c)
           /\ Len(t.devices) = Len(s.devices) + 1 /\ Len(t.devices) > 0
           /\ t.devices[Len(t.devices)] = r
<1> DEFINE q == s.devices
           u == t.devices
<1>1. q \in Seq(Device) BY DEF States, Device
<1>2. Len(q) \in Nat /\ DOMAIN q = 1..Len(q) BY <1>1
<1> HIDE DEF Device
<1>3. Len(u) = Len(q) + 1 /\ u[Len(q) + 1] = r BY <1>1
<1>4. \A j \in 1..Len(q) : u[j] = q[j] BY <1>1
<1>5. Len(u) - 1 = Len(q) BY <1>2, <1>3
<1>6. \A j, h \in DOMAIN q : q[j].device = q[h].device => j = h
  BY DEF WellFormed
<1>7. \A h \in DOMAIN q : q[h].device # c OBVIOUS
<1> HIDE DEF q, u
<1>8. \A j \in 1..Len(u) - 1 : j \in DOMAIN q /\ u[j] = q[j] BY <1>2, <1>4, <1>5
<1>9. Rearranged(s, t, c) BY <1>2, <1>5, <1>6, <1>7, <1>8 DEF Rearranged, q, u
<1> QED BY <1>9, <1>2, <1>3 DEF q, u

(* A set of places has a first one: the idle client State::apply replaces. *)
LEMMA LeastExists ==
    ASSUME NEW n \in Nat, NEW S \in SUBSET (1..n), S # {}
    PROVE  \E x \in S : \A y \in S : x <= y
<1> DEFINE Less == StrictSubsetOrdering(1..n)
           Upto(x) == {y \in S : y <= x}
           T == {Upto(x) : x \in S}
<1>0. IsFiniteSet(1..n) BY FS_Interval
<1>1. IsWellFoundedOn(Less, SUBSET (1..n))
  BY <1>0, FS_StrictSubsetOrderingWellFounded, FS_FiniteSubsetsOfFinite
<1>2. T # {} /\ T \subseteq SUBSET (1..n) OBVIOUS
<1>3. PICK t \in T : \A u \in T : <<u, t>> \notin Less
  <2> HIDE DEF T, Less
  <2> QED BY <1>1, <1>2, WFMin
<1>4. PICK x \in S : t = Upto(x) OBVIOUS
<1>5. ASSUME NEW y \in S, ~(x <= y) PROVE FALSE
  <2>1. x \in Int /\ y \in Int /\ \A z \in S : z \in Int OBVIOUS
  <2>2. x \in t /\ x \notin Upto(y) BY <1>4, <1>5, <2>1
  <2>3. \A z \in S : z <= y => z <= x BY <1>5, <2>1
  <2>4. Upto(y) \subseteq t /\ Upto(y) \in T BY <1>4, <2>3
  <2> QED BY <1>2, <1>3, <2>2, <2>4 DEF StrictSubsetOrdering
<1> QED BY <1>5

(* The record of the client whose edit comes next.                         *)
Foremost(s, t, c, n) ==
    LET d == t.devices[Len(t.devices)] IN
    /\ Len(t.devices) > 0 /\ Len(t.devices) <= MAX_DEVICES
    /\ d.device = c
    /\ \A j \in DOMAIN d.pending : d.pending[j].sequence = d.retired + j
    /\ d.retired + Len(d.pending) + 1 = n
    /\ d.pending = PendingOf(s, c)
    /\ s.floor <= t.floor
    /\ t.applied = s.applied /\ t.twice = s.twice

(* State::apply makes room for the client's record and moves it to the end. *)
LEMMA TouchedTable ==
    ASSUME NEW s \in States, NEW c \in Clients, NEW n \in Nat \ {0},
           WellFormed(s), Expected(s, c, n), HasRoom(s, c)
    PROVE  /\ Touched(s, c, n) \in States
           /\ Rearranged(s, Touched(s, c, n), c)
           /\ Foremost(s, Touched(s, c, n), c, n)
<1> DEFINE t == Touched(s, c, n)
           q == s.devices
<1>1. q \in Seq(Device) BY DEF States, Device
<1>2. Len(q) \in Nat /\ DOMAIN q = 1..Len(q) /\ MAX_DEVICES \in Nat \ {0}
  BY <1>1, ProtocolAssumption
<1>3. Len(q) <= MAX_DEVICES BY DEF WellFormed
<1>4. s.floor \in Nat BY DEF States
<1>5. CASE HasRecord(s, c)
  <2> DEFINE p == PlaceOf(s, c)
  <2>1. p \in DOMAIN q /\ q[p] \in Device /\ q[p].device = c
    BY <1>5, RecordFound DEF RecordOf
  <2>2. t = [s EXCEPT !.devices = Append(RemoveAt(q, p), q[p])]
    BY <1>5 DEF Touched
  <2>3. Append(RemoveAt(q, p), q[p]) \in Seq(Device)
    BY <2>1, <1>1, <1>2, MovedToEnd
  <2>4. /\ t \in States /\ t.devices = Append(RemoveAt(q, p), q[p])
        /\ t.floor = s.floor /\ t.applied = s.applied /\ t.twice = s.twice
    BY <2>2, <2>3 DEF States, Device
  <2>5. \A h \in DOMAIN q : h # p => q[h].device # c BY <2>1 DEF WellFormed
  <2>6. NextSequence(s, c) = q[p].retired + Len(q[p].pending) + 1
    BY <1>5, NextFollows DEF RecordOf
  <2>7. n = NextSequence(s, c) BY <1>5 DEF Expected
  <2>8. \A j \in DOMAIN q[p].pending : q[p].pending[j].sequence = q[p].retired + j
    BY <2>1 DEF WellFormed
  <2> HIDE DEF p, t
  <2>9. /\ Rearranged(s, t, c) /\ Len(t.devices) = Len(q) /\ Len(t.devices) > 0
        /\ t.devices[Len(t.devices)] = q[p]
    BY <2>1, <2>4, <2>5, MovedTable
  <2> HIDE DEF q
  <2>11. PendingOf(s, c) = q[p].pending BY <1>5 DEF PendingOf, p, q
  <2>10. Foremost(s, t, c, n)
    BY <2>1, <2>4, <2>6, <2>7, <2>8, <2>9, <2>11, <1>2, <1>3, <1>4 DEF Foremost
  <2> QED BY <2>4, <2>9, <2>10 DEF t
<1>6. CASE ~HasRecord(s, c)
  <2> DEFINE new == [device |-> c, retired |-> n - 1, pending |-> <<>>]
             idle == CHOOSE i \in Idle(s) : \A j \in Idle(s) : i <= j
             out == q[idle].retired
  <2>1. new \in Device BY DEF Device
  <2>2. /\ new.device = c /\ new.retired = n - 1 /\ new.pending = <<>>
        /\ Len(new.pending) = 0 /\ DOMAIN new.pending = {}
    OBVIOUS
  <2>3. \A h \in DOMAIN q : q[h].device # c BY <1>6 DEF HasRecord, PlacesOf
  <2>6. PendingOf(s, c) = <<>> BY <1>6 DEF PendingOf
  <2>4. CASE Len(q) < MAX_DEVICES
    <3>1. t = [s EXCEPT !.devices = Append(q, new)] BY <1>6, <2>4 DEF Touched
    <3> HIDE DEF new
    <3>2. Append(q, new) \in Seq(Device)
      <4> HIDE DEF Device
      <4> QED BY <2>1, <1>1
    <3>3. /\ t \in States /\ t.devices = Append(q, new)
          /\ t.floor = s.floor /\ t.applied = s.applied /\ t.twice = s.twice
      BY <3>1, <3>2 DEF States, Device
    <3> HIDE DEF t
    <3>4. /\ Rearranged(s, t, c) /\ Len(t.devices) = Len(q) + 1 /\ Len(t.devices) > 0
          /\ t.devices[Len(t.devices)] = new
      BY <2>1, <2>3, <3>3, AddedTable
    <3> HIDE DEF q
    <3>5. Foremost(s, t, c, n)
      BY <2>2, <2>4, <2>6, <3>3, <3>4, <1>2, <1>3, <1>4 DEF Foremost
    <3> QED BY <3>3, <3>4, <3>5 DEF t
  <2>5. CASE ~(Len(q) < MAX_DEVICES)
    <3>1. Idle(s) # {} BY <2>5, <1>6 DEF HasRoom
    <3>2. Idle(s) \subseteq Nat BY <1>2 DEF Idle
    <3>3. idle \in Idle(s)
      <4>1. \E i \in Idle(s) : \A j \in Idle(s) : i <= j
        <5>1. Idle(s) \in SUBSET (1..Len(q)) BY <1>2 DEF Idle
        <5> QED BY <5>1, <3>1, <1>2, LeastExists
      <4> QED BY <4>1
    <3>4. idle \in DOMAIN q /\ q[idle].pending = <<>> BY <3>3 DEF Idle
    <3>5. q[idle] \in Device
      <4> HIDE DEF Device, idle
      <4> QED BY <1>1, <3>4
    <3>6. out \in Nat BY <3>5 DEF Device
    <3>7. t = [s EXCEPT !.devices = Append(RemoveAt(q, idle), new),
                        !.floor = IF out > s.floor THEN out ELSE s.floor]
      BY <1>6, <2>5 DEF Touched
    <3> HIDE DEF new, idle
    <3>8. Append(RemoveAt(q, idle), new) \in Seq(Device)
      BY <2>1, <1>1, <1>2, <3>4, MovedToEnd
    <3>9. /\ t \in States /\ t.devices = Append(RemoveAt(q, idle), new)
          /\ t.floor = IF out > s.floor THEN out ELSE s.floor
          /\ t.applied = s.applied /\ t.twice = s.twice
      BY <3>7, <3>8, <3>6, <1>4 DEF States, Device
    <3> HIDE DEF t
    <3>10. out <= t.floor /\ s.floor <= t.floor BY <3>9, <3>6, <1>4
    <3>11. /\ Rearranged(s, t, c) /\ Len(t.devices) = Len(q) /\ Len(t.devices) > 0
           /\ t.devices[Len(t.devices)] = new
      <4>1. \A h \in DOMAIN q : h # idle => q[h].device # c BY <2>3
      <4>2. Len(q) >= MAX_DEVICES BY <2>5, <1>2
      <4> QED BY <2>1, <3>4, <3>9, <3>10, <4>1, <4>2, <1>6, MovedTable
    <3> HIDE DEF q, out
    <3>12. Foremost(s, t, c, n)
      BY <2>2, <2>6, <3>9, <3>10, <3>11, <1>2, <1>3 DEF Foremost
    <3> QED BY <3>9, <3>11, <3>12 DEF t
  <2> QED BY <2>4, <2>5
<1> QED BY <1>5, <1>6

(* What State::apply of a new edit makes of the table.                     *)
LEMMA AppliedTable ==
    ASSUME NEW s \in States, NEW c \in Clients, NEW n \in Nat \ {0}, NEW e \in Edits,
           WellFormed(s), Expected(s, c, n), HasRoom(s, c),
           NEW t, t = Applied(s, c, n, e)
    PROVE  /\ t \in States /\ WellFormed(t)
           /\ Gathers(s, t, c)
           /\ HasRecord(t, c) /\ NextSequence(t, c) = n + 1
           /\ Recorded(n, e) \in OutcomesAt(t, c, n)
           /\ ToSet(PendingOf(t, c)) = ToSet(PendingOf(s, c)) \cup {Recorded(n, e)}
           /\ t.applied = s.applied \cup {e}
           /\ e \notin s.applied => t.twice = s.twice
<1> DEFINE w == Touched(s, c, n)
           q == w.devices
           N == Len(q)
           d == q[N]
           op == Recorded(n, e)
           r == [d EXCEPT !.pending = Append(@, op)]
<1>1. w \in States /\ Rearranged(s, w, c) /\ Foremost(s, w, c, n) BY TouchedTable
<1> HIDE DEF w
<1>2. q \in Seq(Device) /\ w.floor \in Nat BY <1>1 DEF States, Device
<1>3. N \in DOMAIN q /\ N \in Nat /\ DOMAIN q = 1..N BY <1>1, <1>2 DEF Foremost
<1>4. d \in Device
  <2> HIDE DEF Device, N, q
  <2> QED BY <1>2, <1>3
<1>5. op \in Ops BY DEF Ops, Recorded
<1>6. d.pending \in Seq(Ops) /\ d.retired \in Nat /\ d.device = c
  BY <1>1, <1>4 DEF Device, Foremost
<1> HIDE DEF op
<1>7. Append(d.pending, op) \in Seq(Ops)
  <2> HIDE DEF d
  <2> QED BY <1>5, <1>6
<1>8. /\ r \in Device /\ r.device = c /\ r.retired = d.retired
      /\ r.pending = Append(d.pending, op)
  BY <1>4, <1>6, <1>7 DEF Device
<1> DEFINE u == [q EXCEPT ![N] = r]
<1>9. t = [w EXCEPT !.devices = u, !.applied = @ \cup {e},
                    !.twice = IF e \in w.applied THEN @ \cup {e} ELSE @]
  BY DEF Applied, w, op
<1>10. u \in Seq(Device) /\ Len(u) = N
  <2> HIDE DEF Device, r, N, q
  <2>1. Len(q) = N BY DEF N
  <2> QED BY <1>2, <1>3, <1>8, <2>1
<1>11. u[N] = r /\ \A j \in 1..N - 1 : u[j] = q[j]
  <2> HIDE DEF r, N, q
  <2> QED BY <1>3
<1> HIDE DEF u, r
<1>12. /\ t.devices = u /\ t.floor = w.floor /\ t.applied = w.applied \cup {e}
       /\ t.twice = IF e \in w.applied THEN w.twice \cup {e} ELSE w.twice
  BY <1>1, <1>9 DEF States
<1>13. t \in States
  <2>1. w.applied \cup {e} \in SUBSET Edits /\ w.twice \cup {e} \in SUBSET Edits
        /\ w.twice \in SUBSET Edits
    BY <1>1 DEF States
  <2> DEFINE a == w.applied \cup {e}
             b == IF e \in w.applied THEN w.twice \cup {e} ELSE w.twice
  <2>2. a \in SUBSET Edits /\ b \in SUBSET Edits BY <2>1
  <2>3. t = [w EXCEPT !.devices = u, !.applied = a, !.twice = b]
    BY <1>1, <1>9 DEF States
  <2> HIDE DEF a, b, Edits
  <2> QED BY <1>1, <1>10, <2>2, <2>3 DEF States, Device
<1>14. w.applied = s.applied /\ w.twice = s.twice /\ s.floor <= w.floor
  BY <1>1 DEF Foremost
<1>15. Rearranged(s, t, c)
  <2>1. Len(t.devices) = Len(q) BY <1>10, <1>12
  <2>2. \A j \in 1..Len(q) - 1 : t.devices[j] = q[j] BY <1>11, <1>12
  <2>3. t.floor = w.floor BY <1>12
  <2> HIDE DEF q
  <2>4. /\ \A j \in 1..Len(q) - 1 : \E i \in DOMAIN s.devices :
             q[j] = s.devices[i] /\ s.devices[i].device # c
        /\ \A j, h \in 1..Len(q) - 1 : q[j].device = q[h].device => j = h
        /\ \A i \in DOMAIN s.devices : s.devices[i].device # c =>
             \/ \E j \in 1..Len(q) - 1 : q[j] = s.devices[i]
             \/ /\ s.devices[i].pending = <<>>
                /\ s.devices[i].retired <= t.floor
                /\ ~HasRecord(s, c)
                /\ Len(s.devices) >= MAX_DEVICES
    BY <1>1, <2>3 DEF Rearranged, q
  <2>5. \A j \in 1..Len(t.devices) - 1 : \E i \in DOMAIN s.devices :
          t.devices[j] = s.devices[i] /\ s.devices[i].device # c
    BY <2>1, <2>2, <2>4
  <2>6. \A j, h \in 1..Len(t.devices) - 1 :
          t.devices[j].device = t.devices[h].device => j = h
    BY <2>1, <2>2, <2>4
  <2>7. \A i \in DOMAIN s.devices : s.devices[i].device # c =>
          \/ \E j \in 1..Len(t.devices) - 1 : t.devices[j] = s.devices[i]
          \/ /\ s.devices[i].pending = <<>>
             /\ s.devices[i].retired <= t.floor
             /\ ~HasRecord(s, c)
             /\ Len(s.devices) >= MAX_DEVICES
    BY <2>1, <2>2, <2>4
  <2> QED BY <2>5, <2>6, <2>7 DEF Rearranged
<1>16. d.retired + Len(d.pending) + 1 = n BY <1>1 DEF Foremost
<1>17. \A j \in DOMAIN d.pending : d.pending[j].sequence = d.retired + j
  BY <1>1 DEF Foremost
<1>18. op.sequence = n /\ op.edit = e BY DEF op, Recorded
<1> HIDE DEF d
<1>19. /\ Len(r.pending) = Len(d.pending) + 1 /\ Len(d.pending) \in Nat
       /\ DOMAIN r.pending = 1..Len(d.pending) + 1
       /\ r.pending[Len(d.pending) + 1] = op
       /\ \A j \in 1..Len(d.pending) : r.pending[j] = d.pending[j]
       /\ DOMAIN d.pending = 1..Len(d.pending)
  BY <1>5, <1>6, <1>8
<1>20. \A j \in DOMAIN r.pending : r.pending[j].sequence = r.retired + j
  <2> SUFFICES ASSUME NEW j \in DOMAIN r.pending
               PROVE  r.pending[j].sequence = r.retired + j
    OBVIOUS
  <2>1. CASE j = Len(d.pending) + 1 BY <2>1, <1>6, <1>8, <1>16, <1>18, <1>19
  <2>2. CASE j # Len(d.pending) + 1
    <3>1. j \in 1..Len(d.pending) BY <2>2, <1>19
    <3> QED BY <3>1, <1>8, <1>17, <1>19
  <2> QED BY <2>1, <2>2
<1>21. /\ Len(t.devices) > 0 /\ Len(t.devices) <= MAX_DEVICES
       /\ t.devices[Len(t.devices)] = r
  BY <1>1, <1>10, <1>11, <1>12 DEF Foremost
<1>22. /\ WellFormed(t) /\ Gathers(s, t, c) /\ HasRecord(t, c)
       /\ RecordOf(t, c) = r
  <2>1. s.floor <= t.floor BY <1>12, <1>14
  <2>2. t.devices[Len(t.devices)].device = c BY <1>8, <1>21
  <2>3. \A j \in DOMAIN t.devices[Len(t.devices)].pending :
          t.devices[Len(t.devices)].pending[j].sequence =
             t.devices[Len(t.devices)].retired + j
    BY <1>20, <1>21
  <2>4. /\ WellFormed(t) /\ Gathers(s, t, c) /\ HasRecord(t, c)
        /\ RecordOf(t, c) = t.devices[Len(t.devices)]
    BY <1>13, <1>15, <1>21, <2>1, <2>2, <2>3, RearrangedTable
  <2> QED BY <2>4, <1>21
<1>23. NextSequence(t, c) = n + 1
  <2>1. NextSequence(t, c) = r.retired + Len(r.pending) + 1
    BY <1>13, <1>22, NextFollows
  <2>2. r.retired = d.retired /\ d.retired \in Nat BY <1>6, <1>8
  <2>3. Len(r.pending) = Len(d.pending) + 1 /\ Len(d.pending) \in Nat BY <1>19
  <2>4. \A a, b \in Nat : a + (b + 1) + 1 = (a + b + 1) + 1 OBVIOUS
  <2> HIDE DEF r
  <2> QED BY <2>1, <2>2, <2>3, <2>4, <1>16
<1>24. op \in OutcomesAt(t, c, n)
  <2>1. Len(d.pending) + 1 \in DOMAIN r.pending BY <1>19
  <2> QED BY <2>1, <1>18, <1>19, <1>22, OutcomeIs
<1>25. d.pending = PendingOf(s, c) BY <1>1 DEF Foremost, d
<1>26. ToSet(PendingOf(t, c)) = ToSet(PendingOf(s, c)) \cup {op}
  <2>1. PendingOf(t, c) = r.pending BY <1>22 DEF PendingOf, RecordOf
  <2>2. ToSet(r.pending) = {r.pending[j] : j \in DOMAIN r.pending} BY DEF ToSet
  <2>3. ToSet(d.pending) = {d.pending[j] : j \in DOMAIN d.pending} BY DEF ToSet
  <2> DEFINE x == r.pending
             y == d.pending
             L == Len(d.pending)
  <2>4. ToSet(x) = ToSet(y) \cup {op}
    <3>1. /\ L \in Nat /\ DOMAIN x = 1..L + 1 /\ DOMAIN y = 1..L /\ x[L + 1] = op
          /\ \A j \in 1..L : x[j] = y[j]
      BY <1>19
    <3>2. ToSet(x) = {x[j] : j \in DOMAIN x} /\ ToSet(y) = {y[j] : j \in DOMAIN y}
      BY <2>2, <2>3
    <3> HIDE DEF x, y, L
    <3>3. 1..L + 1 = 1..L \cup {L + 1} BY <3>1
    <3> QED BY <3>1, <3>2, <3>3
  <2> QED BY <2>1, <2>4, <1>25
<1> QED BY <1>12, <1>13, <1>14, <1>22, <1>23, <1>24, <1>26 DEF op

(* What stays of the table when client c acknowledges.                     *)
Retires(s, t, c, n) ==
    /\ t.floor = s.floor /\ t.applied = s.applied /\ t.twice = s.twice
    /\ \A b \in Clients :
        /\ HasRecord(t, b) <=> HasRecord(s, b)
        /\ NextSequence(t, b) = NextSequence(s, b)
        /\ ToSet(PendingOf(t, b)) \subseteq ToSet(PendingOf(s, b))
        /\ \A k \in Nat : b # c \/ k > n =>
              OutcomesAt(s, b, k) \subseteq OutcomesAt(t, b, k)

(* The outcomes up to an acknowledged sequence are the first ones.         *)
LEMMA AcknowledgedPrefix ==
    ASSUME NEW old \in Seq(Ops), NEW retired \in Nat, NEW n \in Nat,
           \A j \in DOMAIN old : old[j].sequence = retired + j,
           NEW done, done = {j \in DOMAIN old : \A h \in 1..j : old[h].sequence <= n}
    PROVE  /\ Cardinality(done) \in 0..Len(old)
           /\ \A j \in DOMAIN old : old[j].sequence > n => j > Cardinality(done)
<1> DEFINE L == Len(old)
           k == IF n <= retired THEN 0 ELSE IF n - retired >= L THEN L ELSE n - retired
<1>1. L \in Nat /\ DOMAIN old = 1..L OBVIOUS
<1>2. k \in 0..L BY <1>1
<1>3. \A h \in 1..L : old[h].sequence = retired + h BY <1>1
<1> HIDE DEF L
<1>4. \A h \in 1..L : old[h].sequence <= n <=> h <= k BY <1>1, <1>3
<1> HIDE DEF k
<1>5. done = 1..k
  <2>1. ASSUME NEW j \in done PROVE j \in 1..k
    <3>1. j \in 1..L /\ old[j].sequence <= n BY <2>1, <1>1
    <3> QED BY <3>1, <1>4, <1>2
  <2>2. ASSUME NEW j \in 1..k PROVE j \in done
    <3>1. j \in 1..L BY <1>1, <1>2
    <3>2. \A h \in 1..j : h \in 1..L /\ h <= k BY <1>1, <1>2, <3>1
    <3> QED BY <3>1, <3>2, <1>1, <1>4
  <2> QED BY <2>1, <2>2
<1>6. Cardinality(done) = k
  <2>1. k \in Nat BY <1>1, <1>2
  <2>2. Cardinality(1..k) = IF 1 > k THEN 0 ELSE k - 1 + 1 BY <2>1, FS_Interval
  <2>3. (IF 1 > k THEN 0 ELSE k - 1 + 1) = k BY <2>1
  <2>4. Cardinality(done) = Cardinality(1..k) BY <1>5
  <2> QED BY <2>2, <2>3, <2>4
<1>7. \A j \in 1..L : old[j].sequence > n => j > k
  BY <1>1, <1>2, <1>3, <1>4
<1> QED BY <1>1, <1>2, <1>6, <1>7 DEF L

(* State::acknowledge retires outcomes and changes nothing else.           *)
LEMMA AcknowledgedTable ==
    ASSUME NEW s \in States, NEW c \in Clients, NEW n \in Nat, WellFormed(s),
           NEW t, t = Acknowledged(s, c, n)
    PROVE  t \in States /\ WellFormed(t) /\ Retires(s, t, c, n)
<1>1. Retires(s, s, c, n) BY DEF Retires
<1>2. CASE ~HasRecord(s, c) BY <1>1, <1>2 DEF Acknowledged
<1>3. CASE HasRecord(s, c)
  <2> DEFINE q == s.devices
             i == PlaceOf(s, c)
             old == q[i].pending
             done == {j \in DOMAIN old : \A h \in 1..j : old[h].sequence <= n}
             last == Cardinality(done)
  <2>1. q \in Seq(Device) BY DEF States, Device
  <2>2. i \in DOMAIN q /\ q[i] \in Device /\ q[i].device = c
    BY <1>3, RecordFound DEF RecordOf
  <2>3. old \in Seq(Ops) /\ q[i].retired \in Nat BY <2>2 DEF Device
  <2>4. \A j \in DOMAIN old : old[j].sequence = q[i].retired + j
    BY <2>2 DEF WellFormed
  <2>5. /\ last \in 0..Len(old)
        /\ \A j \in DOMAIN old : old[j].sequence > n => j > last
    <3> HIDE DEF old
    <3> QED BY <2>3, <2>4, AcknowledgedPrefix
  <2> HIDE DEF done
  <2>6. CASE last = 0
    BY <1>1, <1>3, <2>6 DEF Acknowledged, done
  <2>7. CASE last # 0
    <3> HIDE DEF last
    <3>1. last \in DOMAIN old /\ last \in 1..Len(old) BY <2>3, <2>5, <2>7
    <3>2. old[last].sequence = q[i].retired + last /\ last \in Nat BY <3>1, <2>4
    <3>3. old[last].sequence > q[i].retired BY <3>1, <3>2, <2>3
    <3> DEFINE rest == SubSeq(old, last + 1, Len(old))
               r == [q[i] EXCEPT !.pending = rest, !.retired = q[i].retired + last]
               u == [q EXCEPT ![i] = r]
    <3>4. t = [s EXCEPT !.devices = u]
      <4>1. t = [s EXCEPT !.devices[i].pending = rest,
                          !.devices[i].retired =
                             IF old[last].sequence > @ THEN old[last].sequence ELSE @]
        BY <1>3, <2>7 DEF Acknowledged, last, done
      <4> HIDE DEF rest
      <4> QED BY <4>1, <2>1, <2>2, <3>2, <3>3 DEF States, Device
    <3>5. /\ rest \in Seq(Ops) /\ Len(rest) = Len(old) - last
          /\ \A j \in 1..Len(old) - last : rest[j] = old[last + j]
      <4> HIDE DEF old
      <4>1. Len(old) \in Nat BY <2>3
      <4> QED BY <2>3, <3>1, <4>1
    <3> HIDE DEF rest
    <3>6. r \in Device /\ r.device = c /\ r.pending = rest
          /\ r.retired = q[i].retired + last
      <4>1. q[i].retired + last \in Nat BY <2>3, <3>2
      <4>2. rest \in Seq(Ops) BY <3>5
      <4> HIDE DEF q, i
      <4> QED BY <2>2, <4>1, <4>2 DEF Device
    <3>7. u \in Seq(Device) /\ Len(u) = Len(q) /\ DOMAIN u = DOMAIN q
      <4> HIDE DEF Device, r, q, i
      <4> QED BY <2>1, <2>2, <3>6
    <3>8. u[i] = r /\ \A j \in DOMAIN q : j # i => u[j] = q[j]
      <4> HIDE DEF r, q, i
      <4> QED BY <2>2
    <3> HIDE DEF u, r
    <3>9. /\ t \in States /\ t.devices = u /\ t.floor = s.floor
          /\ t.applied = s.applied /\ t.twice = s.twice
      BY <3>4, <3>7 DEF States, Device
    <3>10. \A j \in DOMAIN q : u[j].device = q[j].device BY <2>2, <3>6, <3>8
    <3>11. WellFormed(t)
      <4>1. Len(u) <= MAX_DEVICES BY <3>7 DEF WellFormed
      <4>2. \A j, h \in DOMAIN u : u[j].device = u[h].device => j = h
        BY <3>7, <3>10 DEF WellFormed
      <4>3. ASSUME NEW j \in DOMAIN u
            PROVE  \A h \in DOMAIN u[j].pending : u[j].pending[h].sequence = u[j].retired + h
        <5>1. CASE j # i BY <5>1, <3>7, <3>8 DEF WellFormed
        <5>2. CASE j = i
          <6> SUFFICES ASSUME NEW h \in DOMAIN rest
                       PROVE  rest[h].sequence = r.retired + h
            BY <5>2, <3>6, <3>8
          <6> HIDE DEF old
          <6>1. Len(old) \in Nat /\ DOMAIN old = 1..Len(old) BY <2>3
          <6>2. h \in 1..Len(old) - last BY <3>5
          <6>3. rest[h] = old[last + h] /\ last + h \in DOMAIN old
            BY <6>1, <6>2, <3>2, <3>5
          <6>4. old[last + h].sequence = q[i].retired + (last + h)
            BY <6>3, <2>4
          <6> QED BY <6>2, <6>3, <6>4, <3>2, <3>6, <2>3
        <5> QED BY <5>1, <5>2
      <4> QED BY <3>9, <4>1, <4>2, <4>3 DEF WellFormed
    <3>12. \A b : PlacesOf(t, b) = PlacesOf(s, b)
      BY <3>7, <3>9, <3>10 DEF PlacesOf
    <3>13. \A b : /\ HasRecord(t, b) <=> HasRecord(s, b)
                  /\ PlaceOf(t, b) = PlaceOf(s, b)
      BY <3>12 DEF HasRecord, PlaceOf
    <3>14. RecordOf(t, c) = r /\ RecordOf(s, c) = q[i]
      BY <3>8, <3>9, <3>13 DEF RecordOf
    <3>15. ASSUME NEW b \in Clients \ {c}
           PROVE  /\ NextSequence(t, b) = NextSequence(s, b)
                  /\ PendingOf(t, b) = PendingOf(s, b)
                  /\ \A k : OutcomesAt(t, b, k) = OutcomesAt(s, b, k)
      <4>1. CASE ~HasRecord(s, b)
        <5>1. ~HasRecord(t, b) BY <4>1, <3>13
        <5> QED BY <4>1, <5>1, <3>9 DEF NextSequence, OutcomesAt, PendingOf
      <4>2. CASE HasRecord(s, b)
        <5>1. PlaceOf(s, b) \in DOMAIN q /\ q[PlaceOf(s, b)].device = b
          BY <4>2, RecordFound DEF RecordOf
        <5>2. PlaceOf(s, b) # i BY <5>1, <2>2
        <5>3. t.devices[PlaceOf(t, b)] = s.devices[PlaceOf(s, b)]
          BY <5>1, <5>2, <3>8, <3>9, <3>13
        <5>4. HasRecord(t, b) BY <4>2, <3>13
        <5> QED BY <4>2, <5>3, <5>4 DEF NextSequence, OutcomesAt, PendingOf
      <4> QED BY <4>1, <4>2
    <3>16. NextSequence(t, c) = NextSequence(s, c)
      <4>1. NextSequence(t, c) = r.retired + Len(rest) + 1
        BY <1>3, <3>6, <3>9, <3>11, <3>13, <3>14, NextFollows
      <4>2. NextSequence(s, c) = q[i].retired + Len(old) + 1
        BY <1>3, <3>14, NextFollows
      <4>3. Len(old) \in Nat BY <2>3
      <4> HIDE DEF old
      <4> QED BY <4>1, <4>2, <4>3, <3>2, <3>5, <3>6, <2>3
    <3>17. ASSUME NEW k \in Nat, k > n, NEW o \in OutcomesAt(s, c, k)
           PROVE  o \in OutcomesAt(t, c, k)
      <4>1. PICK j \in DOMAIN old : old[j] = o /\ o.sequence = k
        BY <3>14, <3>17, OutcomeIs
      <4>2. j > last BY <4>1, <3>17, <2>5
      <4> HIDE DEF old
      <4>3. Len(old) \in Nat /\ DOMAIN old = 1..Len(old) BY <2>3
      <4>4. j - last \in 1..Len(old) - last /\ last + (j - last) = j
        BY <4>2, <4>3, <3>2
      <4>5. rest[j - last] = o BY <4>1, <4>4, <3>5
      <4>6. j - last \in DOMAIN rest BY <4>4, <3>5
      <4> QED BY <4>1, <4>5, <4>6, <1>3, <3>6, <3>13, <3>14, OutcomeIs
    <3>19. ToSet(PendingOf(t, c)) \subseteq ToSet(PendingOf(s, c))
      <4>1. PendingOf(t, c) = rest /\ PendingOf(s, c) = old
        BY <1>3, <3>6, <3>13, <3>14 DEF PendingOf, RecordOf
      <4> HIDE DEF old
      <4>2. \A j \in DOMAIN rest : last + j \in DOMAIN old /\ rest[j] = old[last + j]
        <5>1. Len(old) \in Nat /\ DOMAIN old = 1..Len(old) BY <2>3
        <5>2. DOMAIN rest = 1..Len(old) - last BY <3>5
        <5>3. \A j \in 1..Len(old) - last : last + j \in 1..Len(old) BY <5>1, <3>2
        <5> QED BY <5>1, <5>2, <5>3, <3>5
      <4>3. \A o \in ToSet(rest) : o \in ToSet(old) BY <4>2 DEF ToSet
      <4> QED BY <4>1, <4>3
    <3>18. Retires(s, t, c, n)
      BY <3>9, <3>13, <3>15, <3>16, <3>17, <3>19 DEF Retires
    <3> QED BY <3>9, <3>11, <3>18
  <2> QED BY <2>6, <2>7
<1> QED BY <1>2, <1>3

-----------------------------------------------------------------------------
(* What a client may send, from one version to the next.                   *)

(* A client may always send what the table calls its next sequence.        *)
LEMMA NextIsExpected ==
    ASSUME NEW s \in States, WellFormed(s), NEW c
    PROVE  Expected(s, c, NextSequence(s, c))
<1>1. NextSequence(s, c) \in Nat \ {0} BY NextIsNat
<1> QED BY <1>1 DEF Expected

(* What is expected is a sequence.                                         *)
LEMMA ExpectedIsNat ==
    ASSUME NEW s \in States, WellFormed(s), NEW c, NEW n, Expected(s, c, n)
    PROVE  n \in Nat \ {0} /\ n <= NextSequence(s, c)
<1>1. NextSequence(s, c) \in Nat \ {0} BY NextIsNat
<1> QED BY <1>1 DEF Expected

(* Over a quiet step the client may still send what it could, and what is  *)
(* past stays past.                                                        *)
LEMMA QuietKeeps ==
    ASSUME NEW s \in States, WellFormed(s), NEW t \in States, WellFormed(t),
           NEW c, Quiet(s, t, c)
    PROVE  /\ \A n : Expected(s, c, n) => Expected(t, c, n)
           /\ NextSequence(s, c) <= NextSequence(t, c)
<1>1. NextSequence(s, c) \in Nat \ {0} /\ NextSequence(t, c) \in Nat \ {0}
  BY NextIsNat
<1>2. CASE HasRecord(t, c) BY <1>1, <1>2 DEF Quiet, Expected
<1>3. CASE ~HasRecord(t, c) BY <1>1, <1>3 DEF Quiet, Expected
<1> QED BY <1>2, <1>3

(* Quiet steps follow each other.                                          *)
LEMMA QuietTrans ==
    ASSUME NEW s \in States, WellFormed(s), NEW t \in States, WellFormed(t),
           NEW u \in States, WellFormed(u), NEW c, Quiet(s, t, c), Quiet(t, u, c)
    PROVE  Quiet(s, u, c)
<1>1. /\ NextSequence(s, c) \in Nat /\ NextSequence(t, c) \in Nat
      /\ NextSequence(u, c) \in Nat
  BY NextIsNat
<1>2. CASE HasRecord(u, c) BY <1>1, <1>2 DEF Quiet
<1>3. CASE ~HasRecord(u, c) BY <1>1, <1>3 DEF Quiet
<1> QED BY <1>2, <1>3

(* A version is quiet with itself.                                         *)
LEMMA QuietRefl ==
    ASSUME NEW s \in States, WellFormed(s), NEW c
    PROVE  Quiet(s, s, c)
<1>1. NextSequence(s, c) \in Nat BY NextIsNat
<1> QED BY <1>1 DEF Quiet

(* A table with a place for everyone has one for a client without a record. *)
LEMMA RoomForAnother ==
    ASSUME NEW s \in States, WellFormed(s), NEW c \in Clients, ~HasRecord(s, c),
           RoomForAll
    PROVE  Len(s.devices) < MAX_DEVICES
<1> DEFINE q == s.devices
           S == 1..Len(q)
           T == Clients \ {c}
           f == [i \in S |-> q[i].device]
<1>1. q \in Seq(Device) /\ Len(q) \in Nat /\ DOMAIN q = S BY DEF States, Device
<1>2. \A i \in S : q[i].device \in T
  <2>1. \A i \in S : q[i] \in Device
    <3> HIDE DEF Device
    <3> QED BY <1>1
  <2>2. \A i \in S : q[i].device # c BY <1>1 DEF HasRecord, PlacesOf
  <2> QED BY <2>1, <2>2 DEF Device
<1>3. \A i, j \in S : q[i].device = q[j].device => i = j BY <1>1 DEF WellFormed
<1>4. f \in Injection(S, T)
  <2>1. f \in [S -> T] BY <1>2
  <2>2. \A i, j \in S : f[i] = f[j] => i = j BY <1>3
  <2> HIDE DEF f, S, T
  <2> QED BY <2>1, <2>2 DEF Injection, IsInjective
<1>5. IsFiniteSet(Clients) /\ Cardinality(Clients) <= MAX_DEVICES BY DEF RoomForAll
<1>6. IsFiniteSet(T) /\ Cardinality(T) = Cardinality(Clients) - 1
  BY <1>5, FS_RemoveElement
<1> HIDE DEF f
<1>7. Cardinality(S) <= Cardinality(T) BY <1>4, <1>6, FS_Injection
<1>8. Cardinality(S) = Len(q)
  <2>1. Cardinality(S) = IF 1 > Len(q) THEN 0 ELSE Len(q) - 1 + 1
    BY <1>1, FS_Interval
  <2> QED BY <2>1, <1>1
<1>9. Cardinality(Clients) \in Nat BY <1>5, FS_CardinalityType
<1>10. MAX_DEVICES \in Nat BY ProtocolAssumption
<1> QED BY <1>1, <1>5, <1>6, <1>7, <1>8, <1>9, <1>10

(* Other clients' edits are quiet, and keep a client's outcomes.           *)
LEMMA GathersQuiet ==
    ASSUME NEW s \in States, WellFormed(s), NEW t \in States, WellFormed(t),
           NEW c \in Clients, NEW b \in Clients \ {c}, Gathers(s, t, c)
    PROVE  /\ Quiet(s, t, b)
           /\ PendingOf(t, b) = PendingOf(s, b)
           /\ \A n : OutcomesAt(t, b, n) = OutcomesAt(s, b, n)
           /\ RoomForAll /\ HasRecord(s, b) => HasRecord(t, b)
<1>1. CASE HasRecord(s, b) /\ HasRecord(t, b) /\ RecordOf(t, b) = RecordOf(s, b)
  <2>1. PendingOf(t, b) = PendingOf(s, b) BY <1>1 DEF PendingOf, RecordOf
  <2>2. NextSequence(t, b) = NextSequence(s, b) BY <1>1, NextFollows
  <2> QED BY <1>1, <2>1, <2>2 DEF Quiet, OutcomesAt
<1>2. CASE ~HasRecord(s, b) /\ ~HasRecord(t, b)
  <2>1. PendingOf(t, b) = PendingOf(s, b) BY <1>2 DEF PendingOf
  <2>2. NextSequence(s, b) <= NextSequence(t, b)
    BY <1>2 DEF NextSequence, Gathers, States
  <2> QED BY <1>2, <2>1, <2>2 DEF Quiet, OutcomesAt
<1>3. CASE /\ HasRecord(s, b) /\ ~HasRecord(t, b)
           /\ RecordOf(s, b).pending = <<>>
           /\ RecordOf(s, b).retired <= t.floor
           /\ ~HasRecord(s, c)
           /\ Len(s.devices) >= MAX_DEVICES
  <2>1. PendingOf(t, b) = PendingOf(s, b) BY <1>3 DEF PendingOf, RecordOf
  <2>2. RecordOf(s, b).retired \in Nat /\ t.floor \in Nat
    BY <1>3, RecordFound DEF Device, States
  <2>3. NextSequence(s, b) = RecordOf(s, b).retired + 1 BY <1>3 DEF NextSequence, RecordOf
  <2>4. NextSequence(t, b) = t.floor + 1 BY <1>3 DEF NextSequence
  <2>5. NextSequence(s, b) <= NextSequence(t, b) BY <1>3, <2>2, <2>3, <2>4
  <2>6. ~RoomForAll
    <3>1. RoomForAll => Len(s.devices) < MAX_DEVICES BY <1>3, RoomForAnother
    <3>2. Len(s.devices) \in Nat /\ MAX_DEVICES \in Nat
      BY ProtocolAssumption DEF States
    <3> QED BY <3>1, <3>2, <1>3
  <2> QED BY <1>3, <2>1, <2>5, <2>6 DEF Quiet, OutcomesAt
<1> QED BY <1>1, <1>2, <1>3 DEF Gathers

(* Acknowledgements are quiet.                                             *)
LEMMA RetiresQuiet ==
    ASSUME NEW s \in States, WellFormed(s), NEW t \in States, WellFormed(t),
           NEW c, NEW n, Retires(s, t, c, n), NEW b \in Clients
    PROVE  Quiet(s, t, b)
<1>1. NextSequence(s, b) \in Nat BY NextIsNat
<1> QED BY <1>1 DEF Retires, Quiet

-----------------------------------------------------------------------------
(* The versions.                                                           *)

(* The kept version is the first and the live one the last.                *)
LEMMA VersionFacts ==
    ASSUME TypeOK
    PROVE  /\ Len(versions) \in Nat \ {0} /\ DOMAIN versions = 1..Len(versions)
           /\ 1 \in DOMAIN versions /\ Len(versions) \in DOMAIN versions
           /\ \A i \in DOMAIN versions : versions[i] \in States
           /\ Kept = versions[1] /\ Live = versions[Len(versions)]
           /\ Kept \in States /\ Live \in States
<1>1. versions \in Seq(States) /\ versions # <<>> BY DEF TypeOK
<1>2. /\ Len(versions) \in Nat \ {0} /\ DOMAIN versions = 1..Len(versions)
      /\ \A i \in DOMAIN versions : versions[i] \in States
  BY <1>1
<1>3. Kept = versions[1] /\ Live = versions[Len(versions)]
  BY <1>1 DEF Kept, Live, Last
<1> QED BY <1>2, <1>3

(* The parts that speak of the versions and of what clients have recorded. *)
Book ==
    /\ Tables
    /\ VersionsGrow
    /\ EditsKnown
    /\ ToldIsTrue
    /\ OutcomeNotForgotten
    /\ PendingFits

(* What every version has applied lies between the kept and the live one.  *)
LEMMA Between ==
    ASSUME TypeOK, VersionsGrow, NEW i \in DOMAIN versions
    PROVE  /\ Kept.applied \subseteq versions[i].applied
           /\ versions[i].applied \subseteq Live.applied
<1>1. /\ DOMAIN versions = 1..Len(versions) /\ Len(versions) \in Nat
      /\ 1 \in DOMAIN versions /\ Len(versions) \in DOMAIN versions
      /\ Kept = versions[1] /\ Live = versions[Len(versions)]
  BY VersionFacts
<1>2. 1 <= i /\ i <= Len(versions) BY <1>1
<1> QED BY <1>1, <1>2 DEF VersionsGrow

(* A client whose edits are all kept may send what the kept inventory tells *)
(* it, whatever version the server goes on from.                            *)
LEMMA FreshSequence ==
    ASSUME TypeOK, Tables, VersionsGrow, NEW c \in Clients,
           \A e \in Live.applied : e.client = c => e \in Kept.applied,
           NEW i \in DOMAIN versions
    PROVE  Expected(versions[i], c, NextSequence(Kept, c))
<1>1. /\ DOMAIN versions = 1..Len(versions) /\ Len(versions) \in Nat
      /\ 1 \in DOMAIN versions /\ Kept = versions[1]
      /\ \A h \in DOMAIN versions : versions[h] \in States
  BY VersionFacts
<1>2. \A e \in versions[i].applied : e.client = c => e \in versions[1].applied
  BY <1>1, Between
<1>3. 1 <= i BY <1>1
<1>4. Quiet(versions[1], versions[i], c) BY <1>1, <1>2, <1>3 DEF VersionsGrow
<1>5. WellFormed(versions[1]) /\ WellFormed(versions[i]) BY <1>1 DEF Tables
<1>6. versions[1] \in States /\ versions[i] \in States BY <1>1
<1>7. Expected(versions[1], c, NextSequence(versions[1], c))
  BY <1>5, <1>6, NextIsExpected
<1> QED BY <1>1, <1>4, <1>5, <1>6, <1>7, QuietKeeps

(* A client without a pending edit has all of its edits kept.              *)
LEMMA SettledIsKept ==
    ASSUME TypeOK, EditsKnown, ToldIsTrue, NEW c \in Clients,
           journal[c].pending = None \/ journal[c].pending.edit \in Kept.applied
    PROVE  \A e \in Live.applied : e.client = c => e \in Kept.applied
<1> SUFFICES ASSUME NEW e \in Live.applied, e.client = c PROVE e \in Kept.applied
  OBVIOUS
<1>1. Live.applied \subseteq Edits
  <2>1. Live \in States BY VersionFacts
  <2> QED BY <2>1 DEF States
<1>2. e.k \in Nat \ {0} BY <1>1 DEF Edits
<1>3. e \in confirmed \/ e = journal[c].pending.edit BY DEF EditsKnown
<1>4. CASE e \in confirmed BY <1>4 DEF ToldIsTrue
<1>5. CASE e = journal[c].pending.edit
  <2>1. None.edit.k = 0 BY DEF None, Recorded, NoEdit
  <2>2. journal[c].pending # None BY <1>2, <1>5, <2>1
  <2> QED BY <1>5, <2>2
<1> QED BY <1>3, <1>4, <1>5

(* The server goes on with some of its versions, in their order.           *)
Picked(f) ==
    /\ versions' \in Seq(States) /\ versions' # <<>>
    /\ f \in [DOMAIN versions' -> DOMAIN versions]
    /\ \A i \in DOMAIN versions' : versions'[i] = versions[f[i]]
    /\ \A i, j \in DOMAIN versions' : i <= j => f[i] <= f[j]

(* Then clients' records stay true.                                        *)
LEMMA PickKeeps ==
    ASSUME TypeOK, Book, NEW f, Picked(f),
           UNCHANGED <<journal, count, abandoned, confirmed>>
    PROVE  /\ Book'
           /\ Live'.applied \subseteq Live.applied
           /\ Kept.applied \subseteq Kept'.applied
<1> USE DEF Book
<1>1. \A i \in DOMAIN versions' : f[i] \in DOMAIN versions /\ versions'[i] = versions[f[i]]
  BY DEF Picked
<1>2. Tables' BY <1>1 DEF Tables
<1>3. VersionsGrow'
  <2> SUFFICES ASSUME NEW i \in DOMAIN versions', NEW j \in DOMAIN versions', i <= j
               PROVE  /\ versions'[i].applied \subseteq versions'[j].applied
                      /\ \A c \in Clients :
                          (\A e \in versions'[j].applied : e.client = c
                              => e \in versions'[i].applied)
                            => Quiet(versions'[i], versions'[j], c)
    BY DEF VersionsGrow
  <2>1. f[i] <= f[j] BY DEF Picked
  <2> QED BY <1>1, <2>1 DEF VersionsGrow
<1>4. /\ 1 \in DOMAIN versions' /\ Len(versions') \in DOMAIN versions'
      /\ Kept' = versions'[1] /\ Live' = versions'[Len(versions')]
  <2>1. versions' \in Seq(States) /\ versions' # <<>> BY DEF Picked
  <2> QED BY <2>1 DEF Kept, Live, Last
<1>5. Live'.applied \subseteq Live.applied /\ Kept.applied \subseteq Kept'.applied
  <2>1. Live' = versions[f[Len(versions')]] /\ Kept' = versions[f[1]] BY <1>1, <1>4
  <2> QED BY <1>1, <1>4, <2>1, Between
<1>6. EditsKnown' BY <1>5 DEF EditsKnown
<1>7. ToldIsTrue' BY <1>5 DEF ToldIsTrue
<1>8. OutcomeNotForgotten' BY <1>1 DEF OutcomeNotForgotten
<1>9. PendingFits' BY <1>1 DEF PendingFits
<1> QED BY <1>2, <1>3, <1>5, <1>6, <1>7, <1>8, <1>9

(* A new version becomes the live one.                                     *)
Extended(t) ==
    /\ versions' \in Seq(States) /\ versions' # <<>>
    /\ DOMAIN versions' = 1..Len(versions) + 1
    /\ Len(versions) + 1 \in DOMAIN versions' /\ versions'[Len(versions) + 1] = t
    /\ \A i \in DOMAIN versions : i \in DOMAIN versions' /\ versions'[i] = versions[i]
    /\ \A i \in DOMAIN versions' : i \in DOMAIN versions \/ i = Len(versions) + 1
    /\ Kept' = Kept /\ Live' = t

(* Appending it leaves the others where they are.                          *)
LEMMA ExtendedVersions ==
    ASSUME TypeOK, NEW t \in States, versions' = Append(versions, t)
    PROVE  Extended(t)
<1>1. versions \in Seq(States) /\ versions # <<>> BY DEF TypeOK
<1>2. /\ Len(versions) \in Nat \ {0} /\ DOMAIN versions = 1..Len(versions)
  BY <1>1
<1>3. /\ versions' \in Seq(States) /\ Len(versions') = Len(versions) + 1
      /\ versions'[Len(versions) + 1] = t
      /\ \A i \in 1..Len(versions) : versions'[i] = versions[i]
  BY <1>1
<1>4. DOMAIN versions' = 1..Len(versions) + 1 BY <1>3
<1>5. versions' # <<>>
  <2>1. Len(versions') # 0 BY <1>2, <1>3
  <2> QED BY <2>1
<1>6. Kept' = versions'[1] /\ Live' = versions'[Len(versions')]
  BY <1>3, <1>5 DEF Kept, Live, Last
<1>7. Kept = versions[1] BY <1>1 DEF Kept
<1>8. Kept' = Kept /\ Live' = t BY <1>2, <1>3, <1>6, <1>7
<1> QED BY <1>2, <1>3, <1>4, <1>5, <1>8 DEF Extended

(* Versions go on growing when the new one follows the live one.           *)
LEMMA GrowKeeps ==
    ASSUME TypeOK, Tables, VersionsGrow, NEW t \in States, Extended(t),
           WellFormed(t), Live.applied \subseteq t.applied,
           \A c \in Clients :
              (\A e \in t.applied : e.client = c => e \in Live.applied)
                 => Quiet(Live, t, c)
    PROVE  VersionsGrow'
<1> SUFFICES ASSUME NEW i \in DOMAIN versions', NEW j \in DOMAIN versions', i <= j
             PROVE  /\ versions'[i].applied \subseteq versions'[j].applied
                    /\ \A c \in Clients :
                        (\A e \in versions'[j].applied : e.client = c
                            => e \in versions'[i].applied)
                          => Quiet(versions'[i], versions'[j], c)
  BY DEF VersionsGrow
<1> DEFINE N == Len(versions)
<1>1. /\ N \in Nat \ {0} /\ DOMAIN versions = 1..N /\ Live = versions[N]
      /\ N \in DOMAIN versions /\ \A h \in DOMAIN versions : versions[h] \in States
  BY VersionFacts
<1>2. /\ versions'[N + 1] = t
      /\ \A h \in DOMAIN versions : versions'[h] = versions[h]
      /\ \A h \in DOMAIN versions' : h \in DOMAIN versions \/ h = N + 1
  BY DEF Extended
<1> HIDE DEF N
<1>3. CASE j \in DOMAIN versions
  <2>1. i \in DOMAIN versions BY <1>1, <1>2, <1>3
  <2>2. versions'[i] = versions[i] /\ versions'[j] = versions[j] BY <1>2, <1>3, <2>1
  <2> QED BY <1>3, <2>1, <2>2 DEF VersionsGrow
<1>4. CASE i = N + 1 /\ j = N + 1
  <2>1. versions'[i] = t /\ versions'[j] = t BY <1>2, <1>4
  <2>2. \A c \in Clients : Quiet(t, t, c) BY QuietRefl
  <2> QED BY <2>1, <2>2
<1>5. CASE i \in DOMAIN versions /\ j = N + 1
  <2>1. versions'[i] = versions[i] /\ versions'[j] = t BY <1>2, <1>5
  <2>2. i <= N BY <1>1, <1>5
  <2>3. versions[i].applied \subseteq Live.applied BY <1>5, Between
  <2>4. ASSUME NEW c \in Clients,
               \A e \in t.applied : e.client = c => e \in versions[i].applied
        PROVE  Quiet(versions[i], t, c)
    <3>1. Quiet(Live, t, c) BY <2>3, <2>4
    <3>2. \A e \in Live.applied : e.client = c => e \in versions[i].applied BY <2>4
    <3>3. Quiet(versions[i], versions[N], c)
      BY <1>1, <1>5, <2>2, <3>2 DEF VersionsGrow
    <3>4. Quiet(versions[i], Live, c) BY <3>3, <1>1
    <3>5. WellFormed(versions[i]) /\ WellFormed(Live) BY <1>1, <1>5 DEF Tables
    <3>6. versions[i] \in States /\ Live \in States BY <1>1, <1>5
    <3> QED BY <3>1, <3>4, <3>5, <3>6, QuietTrans
  <2>5. versions[i].applied \subseteq t.applied BY <2>3
  <2> QED BY <2>1, <2>4, <2>5
<1> QED BY <1>2, <1>3, <1>4, <1>5

(* What clients have recorded stays true when an acknowledgement retires   *)
(* outcomes before the pending edit's.                                     *)
LEMMA RetiredBook ==
    ASSUME TypeOK, Book, NEW c \in Clients, NEW n \in Nat,
           journal[c].pending # None => n < journal[c].pending.sequence,
           NEW t \in States, WellFormed(t), Retires(Live, t, c, n), Extended(t),
           UNCHANGED <<journal, count, abandoned, confirmed>>
    PROVE  Book'
<1> USE DEF Book
<1>1. /\ Live \in States /\ Len(versions) \in DOMAIN versions
      /\ Live = versions[Len(versions)]
  BY VersionFacts
<1>2. WellFormed(Live) /\ Truthful(Live) BY <1>1 DEF Tables
<1>3. t.applied = Live.applied /\ t.twice = Live.twice BY DEF Retires
<1>4. \A b \in Clients : Quiet(Live, t, b) BY <1>1, <1>2, RetiresQuiet
<1>5. Truthful(t) BY <1>2, <1>3 DEF Truthful, Retires
<1>6. Tables' BY <1>5 DEF Tables, Extended
<1>7. VersionsGrow' BY <1>1, <1>3, <1>4, GrowKeeps
<1>8. EditsKnown' BY <1>3 DEF EditsKnown, Extended
<1>9. ToldIsTrue' BY <1>3 DEF ToldIsTrue, Extended
<1>10. ASSUME NEW b \in Clients, journal[b].pending # None,
              NEW op, op = journal[b].pending, op \in OutcomesAt(Live, b, op.sequence)
       PROVE  op \in OutcomesAt(t, b, op.sequence)
  <2>1. op \in Ops BY <1>10 DEF TypeOK
  <2>2. op.sequence \in Nat BY <2>1 DEF Ops
  <2>3. b # c \/ op.sequence > n BY <1>10, <2>2
  <2> QED BY <1>10, <2>2, <2>3 DEF Retires
<1>11. OutcomeNotForgotten'
  <2> SUFFICES ASSUME NEW b \in Clients, NEW i \in DOMAIN versions',
                      journal[b].pending # None,
                      journal[b].pending.edit \in versions'[i].applied
               PROVE  journal[b].pending \in
                         OutcomesAt(versions'[i], b, journal[b].pending.sequence)
    BY DEF OutcomeNotForgotten
  <2>1. CASE i \in DOMAIN versions BY <2>1 DEF Extended, OutcomeNotForgotten
  <2>2. CASE i = Len(versions) + 1
    <3>1. versions'[i] = t BY <2>2 DEF Extended
    <3>2. journal[b].pending \in OutcomesAt(Live, b, journal[b].pending.sequence)
      BY <1>1, <1>3, <3>1 DEF OutcomeNotForgotten
    <3> QED BY <1>10, <3>1, <3>2
  <2> QED BY <2>1, <2>2 DEF Extended
<1>12. PendingFits'
  <2> SUFFICES ASSUME NEW b \in Clients, NEW i \in DOMAIN versions',
                      journal[b].pending # None
               PROVE  \/ journal[b].pending \in
                            OutcomesAt(versions'[i], b, journal[b].pending.sequence)
                      \/ Expected(versions'[i], b, journal[b].pending.sequence)
    BY DEF PendingFits
  <2>1. CASE i \in DOMAIN versions BY <2>1 DEF Extended, PendingFits
  <2>2. CASE i = Len(versions) + 1
    <3>1. versions'[i] = t BY <2>2 DEF Extended
    <3>2. \/ journal[b].pending \in OutcomesAt(Live, b, journal[b].pending.sequence)
          \/ Expected(Live, b, journal[b].pending.sequence)
      BY <1>1 DEF PendingFits
    <3>3. \A k : Expected(Live, b, k) => Expected(t, b, k)
      BY <1>1, <1>2, <1>4, QuietKeeps
    <3> QED BY <1>10, <3>1, <3>2, <3>3
  <2> QED BY <2>1, <2>2 DEF Extended
<1> QED BY <1>6, <1>7, <1>8, <1>9, <1>11, <1>12

(* A new version in which client c has an edit applied that it has pending. *)
Applies(t, c, op) ==
    /\ t \in States /\ WellFormed(t)
    /\ Gathers(Live, t, c)
    /\ HasRecord(t, c) /\ NextSequence(t, c) = op.sequence + 1
    /\ op \in OutcomesAt(t, c, op.sequence)
    /\ ToSet(PendingOf(t, c)) = ToSet(PendingOf(Live, c)) \cup {op}
    /\ t.applied = Live.applied \cup {op.edit}
    /\ t.twice = Live.twice
    /\ op.edit \notin Live.applied

(* State::apply of a pending edit without an outcome is the first one of it. *)
LEMMA PendingApplies ==
    ASSUME TypeOK, Book, NEW c \in Clients, NEW op, op = journal[c].pending, op # None,
           OutcomesAt(Live, c, op.sequence) = {},
           Expected(Live, c, op.sequence), HasRoom(Live, c)
    PROVE  Applies(Applied(Live, c, op.sequence, op.edit), c, op)
<1>1. op \in Ops BY DEF TypeOK
<1>2. op.sequence \in Nat \ {0} /\ op.edit \in Edits BY <1>1 DEF Ops
<1>3. Recorded(op.sequence, op.edit) = op BY <1>1 DEF Ops, Recorded
<1>4. /\ Live \in States /\ Len(versions) \in DOMAIN versions
      /\ Live = versions[Len(versions)]
  BY VersionFacts
<1>5. WellFormed(Live) BY <1>4 DEF Book, Tables
<1>6. op.edit \notin Live.applied
  BY <1>4 DEF Book, OutcomeNotForgotten
<1> QED BY <1>2, <1>3, <1>4, <1>5, <1>6, AppliedTable DEF Applies

(* What clients have recorded stays true when a pending edit is applied.   *)
LEMMA AppliedBook ==
    ASSUME TypeOK, Book, NEW c \in Clients, NEW op, op = journal[c].pending, op # None,
           NEW t, Applies(t, c, op), Extended(t),
           UNCHANGED <<journal, count, abandoned, confirmed>>
    PROVE  Book'
<1> USE DEF Book
<1>1. /\ Live \in States /\ Len(versions) \in DOMAIN versions
      /\ Live = versions[Len(versions)]
  BY VersionFacts
<1>2. WellFormed(Live) /\ Truthful(Live) BY <1>1 DEF Tables
<1>3. /\ t \in States /\ WellFormed(t) /\ Gathers(Live, t, c)
      /\ t.applied = Live.applied \cup {op.edit} /\ t.twice = Live.twice
      /\ op \in OutcomesAt(t, c, op.sequence) /\ op.edit \notin Live.applied
      /\ ToSet(PendingOf(t, c)) = ToSet(PendingOf(Live, c)) \cup {op}
  BY DEF Applies
<1>4. \A b \in Clients \ {c} :
        /\ Quiet(Live, t, b)
        /\ PendingOf(t, b) = PendingOf(Live, b)
        /\ \A n : OutcomesAt(t, b, n) = OutcomesAt(Live, b, n)
  BY <1>1, <1>2, <1>3, GathersQuiet
<1>5. op.edit.client = c /\ op.edit \notin abandoned BY DEF EditsKnown
<1>6. Truthful(t)
  <2> SUFFICES ASSUME NEW b \in Clients, NEW o \in ToSet(PendingOf(t, b))
               PROVE  o.edit \in t.applied
    BY <1>2, <1>3 DEF Truthful
  <2>1. CASE b = c BY <2>1, <1>2, <1>3 DEF Truthful
  <2>2. CASE b # c BY <2>2, <1>2, <1>3, <1>4 DEF Truthful
  <2> QED BY <2>1, <2>2
<1>7. Tables' BY <1>3, <1>6 DEF Tables, Extended
<1>8. VersionsGrow'
  <2>1. \A b \in Clients :
          (\A e \in t.applied : e.client = b => e \in Live.applied) => Quiet(Live, t, b)
    BY <1>3, <1>4, <1>5
  <2> QED BY <1>3, <2>1, GrowKeeps
<1>9. EditsKnown'
  <2>1. \A e \in t.applied : e \in confirmed \/ e = journal[e.client].pending.edit
    BY <1>3, <1>5 DEF EditsKnown
  <2> QED BY <2>1 DEF EditsKnown, Extended
<1>10. ToldIsTrue' BY <1>3, <1>5 DEF ToldIsTrue, Extended
<1>11. OutcomeNotForgotten'
  <2> SUFFICES ASSUME NEW b \in Clients, NEW i \in DOMAIN versions',
                      journal[b].pending # None,
                      journal[b].pending.edit \in versions'[i].applied
               PROVE  journal[b].pending \in
                         OutcomesAt(versions'[i], b, journal[b].pending.sequence)
    BY DEF OutcomeNotForgotten
  <2>1. CASE i \in DOMAIN versions BY <2>1 DEF Extended, OutcomeNotForgotten
  <2>2. CASE i = Len(versions) + 1
    <3>1. versions'[i] = t BY <2>2 DEF Extended
    <3>2. CASE b = c BY <3>1, <3>2, <1>3
    <3>3. CASE b # c
      <4>1. journal[b].pending.edit # op.edit BY <3>3, <1>5 DEF EditsKnown
      <4>2. journal[b].pending.edit \in Live.applied BY <4>1, <3>1, <1>3
      <4>3. journal[b].pending \in OutcomesAt(Live, b, journal[b].pending.sequence)
        BY <4>2, <1>1 DEF OutcomeNotForgotten
      <4> QED BY <4>3, <3>1, <3>3, <1>4
    <3> QED BY <3>2, <3>3
  <2> QED BY <2>1, <2>2 DEF Extended
<1>12. PendingFits'
  <2> SUFFICES ASSUME NEW b \in Clients, NEW i \in DOMAIN versions',
                      journal[b].pending # None
               PROVE  \/ journal[b].pending \in
                            OutcomesAt(versions'[i], b, journal[b].pending.sequence)
                      \/ Expected(versions'[i], b, journal[b].pending.sequence)
    BY DEF PendingFits
  <2>1. CASE i \in DOMAIN versions BY <2>1 DEF Extended, PendingFits
  <2>2. CASE i = Len(versions) + 1
    <3>1. versions'[i] = t BY <2>2 DEF Extended
    <3>2. CASE b = c BY <3>1, <3>2, <1>3
    <3>3. CASE b # c
      <4>1. \/ journal[b].pending \in OutcomesAt(Live, b, journal[b].pending.sequence)
            \/ Expected(Live, b, journal[b].pending.sequence)
        BY <1>1 DEF PendingFits
      <4>2. \A k : Expected(Live, b, k) => Expected(t, b, k)
        BY <1>1, <1>2, <1>3, <1>4, <3>3, QuietKeeps
      <4> QED BY <4>1, <4>2, <3>1, <3>3, <1>4
    <3> QED BY <3>2, <3>3
  <2> QED BY <2>1, <2>2 DEF Extended
<1> QED BY <1>7, <1>8, <1>9, <1>10, <1>11, <1>12

(* Steps that leave the versions and the pending edits alone.              *)
SamePending == \A c \in Clients : journal'[c].pending = journal[c].pending

(* They leave what is recorded true.                                       *)
LEMMA SameBook ==
    ASSUME TypeOK, Book, versions' = versions, SamePending,
           UNCHANGED <<count, abandoned, confirmed>>
    PROVE  Book'
<1> USE DEF Book, SamePending
<1>1. Tables' BY DEF Tables
<1>2. VersionsGrow' BY DEF VersionsGrow
<1>3. EditsKnown'
  <2>1. Live' = Live BY DEF Live
  <2>2. \A e \in Live.applied : e \in confirmed \/ e = journal'[e.client].pending.edit
    <3> SUFFICES ASSUME NEW e \in Live.applied
                 PROVE  e \in confirmed \/ e = journal'[e.client].pending.edit
      OBVIOUS
    <3>1. e.client \in Clients
      <4>1. Live \in States BY VersionFacts
      <4>2. e \in Edits BY <4>1 DEF States
      <4> QED BY <4>2 DEF Edits
    <3> QED BY <3>1 DEF EditsKnown
  <2> QED BY <2>1, <2>2 DEF EditsKnown
<1>4. ToldIsTrue' BY DEF ToldIsTrue, Kept, Live
<1>5. OutcomeNotForgotten' BY DEF OutcomeNotForgotten
<1>6. PendingFits' BY DEF PendingFits
<1> QED BY <1>1, <1>2, <1>3, <1>4, <1>5, <1>6

-----------------------------------------------------------------------------
(* Sequences that are past, and those that may be used.                    *)

(* The versions of the next state are among those of this one.             *)
NoNewVersion ==
    \A i \in DOMAIN versions' : \E h \in DOMAIN versions : versions'[i] = versions[h]

(* Without new versions, pending edits and acknowledgements, sequences stay *)
(* past and usable.                                                         *)
LEMMA PastShrinks ==
    ASSUME TypeOK, Tables, AcksArePast, ReadIsExpected, NoNewVersion, SamePending,
           \A c \in Clients : Acks(c)' \subseteq Acks(c) \cup {0},
           \A c \in Clients : MayUse(c)' => MayUse(c) /\ sequence'[c] = sequence[c]
    PROVE  AcksArePast' /\ ReadIsExpected'
<1>1. ReadIsExpected' BY DEF ReadIsExpected, NoNewVersion
<1>2. AcksArePast'
  <2> SUFFICES ASSUME NEW c \in Clients, NEW a \in Acks(c)'
               PROVE  /\ \A i \in DOMAIN versions' : a < NextSequence(versions'[i], c)
                      /\ journal'[c].pending # None => a < journal'[c].pending.sequence
                      /\ MayUse(c)' => a < sequence'[c]
    BY DEF AcksArePast
  <2>1. CASE a \in Acks(c)
    <3>1. \A i \in DOMAIN versions' : a < NextSequence(versions'[i], c)
      BY <2>1 DEF AcksArePast, NoNewVersion
    <3> QED BY <2>1, <3>1 DEF AcksArePast, SamePending
  <2>2. CASE a = 0
    <3>1. \A h \in DOMAIN versions : NextSequence(versions[h], c) \in Nat \ {0}
      BY NextIsNat, VersionFacts DEF Tables
    <3>2. journal[c].pending # None => journal[c].pending.sequence \in Nat \ {0}
      BY DEF TypeOK, Ops
    <3>3. MayUse(c) => sequence[c] \in Nat \ {0}
      <4>1. 1 \in DOMAIN versions /\ versions[1] \in States BY VersionFacts
      <4>2. MayUse(c) => Expected(versions[1], c, sequence[c])
        BY <4>1 DEF ReadIsExpected
      <4> QED BY <4>1, <4>2, ExpectedIsNat DEF Tables
    <3> QED BY <2>2, <3>1, <3>2, <3>3 DEF NoNewVersion, SamePending
  <2> QED BY <2>1, <2>2
<1> QED BY <1>1, <1>2

(* Late requests stay harmless when there are no new ones.                 *)
LEMMA LateKeeps ==
    ASSUME TypeOK, LateIsHarmless, NoNewVersion, SamePending,
           \A m \in wire' : m.old => m \in wire
    PROVE  LateIsHarmless'
<1> SUFFICES ASSUME NEW m \in wire', m.old
             PROVE  /\ RoomForAll /\ m.client \in Desktop
                    /\ m.kind = "mutate" =>
                         \/ m.op = journal'[m.client].pending
                         \/ \A i \in DOMAIN versions' :
                               /\ HasRecord(versions'[i], m.client)
                               /\ m.op.sequence < NextSequence(versions'[i], m.client)
  BY DEF LateIsHarmless
<1>1. m \in wire /\ m.client \in Clients BY DEF TypeOK, Messages
<1> QED BY <1>1 DEF LateIsHarmless, NoNewVersion, SamePending

(* What a new version does to a client's sequences.                        *)
Advances(t, b) ==
    \/ Quiet(Live, t, b) /\ (RoomForAll /\ HasRecord(Live, b) => HasRecord(t, b))
    \/ /\ journal[b].pending # None
       /\ HasRecord(t, b)
       /\ NextSequence(t, b) = journal[b].pending.sequence + 1
       /\ HasRecord(Live, b) => NextSequence(Live, b) = journal[b].pending.sequence

(* Sequences stay past and usable in it, and late requests harmless.       *)
LEMMA PastExtends ==
    ASSUME TypeOK, Tables, AcksArePast, ReadIsExpected, LateIsHarmless,
           NEW t \in States, WellFormed(t), Extended(t),
           \A b \in Clients : Advances(t, b),
           wire' \subseteq wire, UNCHANGED clientVars
    PROVE  AcksArePast' /\ ReadIsExpected' /\ LateIsHarmless'
<1> DEFINE N == Len(versions)
<1>1. /\ N \in DOMAIN versions /\ Live = versions[N] /\ Live \in States
      /\ \A i \in DOMAIN versions : versions[i] \in States
  BY VersionFacts
<1>2. WellFormed(Live) BY <1>1 DEF Tables
<1>3. /\ versions'[N + 1] = t
      /\ \A i \in DOMAIN versions : versions'[i] = versions[i]
      /\ \A i \in DOMAIN versions' : i \in DOMAIN versions \/ i = N + 1
  BY DEF Extended
<1> HIDE DEF N
<1>4. journal' = journal /\ ack' = ack /\ phase' = phase /\ sequence' = sequence
  BY DEF clientVars
<1>5. \A b \in Clients : MayUse(b)' = MayUse(b) BY <1>4 DEF MayUse
<1>6. \A b \in Clients : Acks(b)' \subseteq Acks(b) BY <1>4 DEF Acks
<1>7. \A b \in Clients : NextSequence(Live, b) \in Nat /\ NextSequence(t, b) \in Nat
  BY <1>1, <1>2, NextIsNat
<1>8. ASSUME NEW b \in Clients, NEW a \in Acks(b) PROVE a < NextSequence(t, b)
  <2>1. a < NextSequence(Live, b) BY <1>1, <1>8 DEF AcksArePast
  <2>2. a \in Nat
    <3>1. \A m \in wire : m.op.sequence \in Nat BY DEF TypeOK, Messages, Sent
    <3>2. ack[b] \in Nat BY DEF TypeOK
    <3>3. journal[b].last.sequence \in Nat
      <4>1. journal[b].last \in Ops \cup {None} BY DEF TypeOK
      <4> QED BY <4>1 DEF Ops, None, Recorded
    <3> QED BY <1>8, <3>1, <3>2, <3>3 DEF Acks
  <2>3. CASE Quiet(Live, t, b)
    <3>1. NextSequence(Live, b) <= NextSequence(t, b)
      BY <2>3, <1>1, <1>2, QuietKeeps
    <3> QED BY <2>1, <2>2, <3>1, <1>7
  <2>4. CASE /\ journal[b].pending # None
             /\ NextSequence(t, b) = journal[b].pending.sequence + 1
    <3>1. a < journal[b].pending.sequence BY <2>4, <1>8 DEF AcksArePast
    <3>2. journal[b].pending.sequence \in Nat
      <4>1. journal[b].pending \in Ops BY <2>4 DEF TypeOK
      <4> QED BY <4>1 DEF Ops
    <3> QED BY <2>2, <2>4, <3>1, <3>2
  <2> QED BY <2>3, <2>4 DEF Advances
<1>9. AcksArePast'
  <2> SUFFICES ASSUME NEW b \in Clients, NEW a \in Acks(b)'
               PROVE  /\ \A i \in DOMAIN versions' : a < NextSequence(versions'[i], b)
                      /\ journal'[b].pending # None => a < journal'[b].pending.sequence
                      /\ MayUse(b)' => a < sequence'[b]
    BY DEF AcksArePast
  <2>1. a \in Acks(b) BY <1>6
  <2>2. \A i \in DOMAIN versions' : a < NextSequence(versions'[i], b)
    BY <2>1, <1>3, <1>8 DEF AcksArePast
  <2> QED BY <2>1, <2>2, <1>4, <1>5 DEF AcksArePast
<1>10. ReadIsExpected'
  <2> SUFFICES ASSUME NEW b \in Clients, MayUse(b), NEW i \in DOMAIN versions'
               PROVE  Expected(versions'[i], b, sequence[b])
    BY <1>4, <1>5 DEF ReadIsExpected
  <2>1. CASE i \in DOMAIN versions BY <2>1, <1>3 DEF ReadIsExpected
  <2>2. CASE i = N + 1
    <3>1. Expected(Live, b, sequence[b]) BY <1>1 DEF ReadIsExpected
    <3>2. Quiet(Live, t, b) BY DEF Advances, MayUse
    <3> QED BY <2>2, <3>1, <3>2, <1>1, <1>2, <1>3, QuietKeeps
  <2> QED BY <2>1, <2>2, <1>3
<1>11. LateIsHarmless'
  <2> SUFFICES ASSUME NEW m \in wire', m.old
               PROVE  /\ RoomForAll /\ m.client \in Desktop
                      /\ m.kind = "mutate" =>
                           \/ m.op = journal'[m.client].pending
                           \/ \A i \in DOMAIN versions' :
                                 /\ HasRecord(versions'[i], m.client)
                                 /\ m.op.sequence < NextSequence(versions'[i], m.client)
    BY DEF LateIsHarmless
  <2>1. m \in wire /\ m.client \in Clients /\ m.op.sequence \in Nat
    BY DEF TypeOK, Messages, Sent
  <2>2. RoomForAll /\ m.client \in Desktop BY <2>1 DEF LateIsHarmless
  <2>3. CASE /\ m.kind = "mutate"
             /\ \A i \in DOMAIN versions :
                  /\ HasRecord(versions[i], m.client)
                  /\ m.op.sequence < NextSequence(versions[i], m.client)
    <3> DEFINE b == m.client
    <3>1. HasRecord(Live, b) /\ m.op.sequence < NextSequence(Live, b)
      BY <2>3, <1>1
    <3>2. HasRecord(t, b) BY <2>1, <2>2, <3>1 DEF Advances
    <3>3. NextSequence(Live, b) <= NextSequence(t, b)
      <4>1. CASE Quiet(Live, t, b) BY <4>1, <1>1, <1>2, QuietKeeps
      <4>2. CASE ~Quiet(Live, t, b)
        <5>1. NextSequence(t, b) = NextSequence(Live, b) + 1
          BY <4>2, <2>1, <3>1 DEF Advances
        <5> QED BY <5>1, <2>1, <1>7
      <4> QED BY <4>1, <4>2
    <3>4. m.op.sequence < NextSequence(t, b) BY <2>1, <3>1, <3>3, <1>7
    <3> QED BY <2>2, <2>3, <3>2, <3>4, <1>3
  <2> QED BY <2>1, <2>2, <2>3, <1>4 DEF LateIsHarmless
<1> QED BY <1>9, <1>10, <1>11

-----------------------------------------------------------------------------
(* Requests and replies.                                                   *)

Talk ==
    /\ OneRequest
    /\ PhaseFits
    /\ RepliesAreKept
    /\ MissingIsTrue

Busy == {"mutating", "resolving", "confirming"}

(* A client sends a request.                                               *)
Asks(c, m) ==
    /\ m \in Messages /\ m.client = c /\ ~m.old
    /\ wire' = wire \cup {m}
    /\ \/ /\ m.kind = "mutate" /\ phase'[c] = "mutating"
          /\ m.op = journal'[c].pending /\ m.op \in Ops
       \/ /\ m.kind = "resolve" /\ c \in CommandLine
          /\ \/ phase'[c] = "confirming"
             \/ phase'[c] = "resolving" /\ m.op = journal'[c].pending

(* A client that waits for nothing takes a step, after which it may wait.  *)
Speaks(c) ==
    /\ Requests(c) = {} /\ Owed(c) = {} /\ inbox'[c] = {}
    /\ \A b \in Clients \ {c} :
          inbox'[b] = inbox[b] /\ phase'[b] = phase[b] /\ journal'[b] = journal[b]
    /\ versions' = versions /\ jobs' = jobs
    /\ phase'[c] \in {"ready", "confirming"} => journal'[c].pending = None
    /\ phase'[c] \in {"mutating", "resolving"} => journal'[c].pending # None
    /\ phase'[c] \in {"resolving", "confirming"} => c \in CommandLine
    /\ wire' = wire \/ \E m : Asks(c, m)

(* The exchange of requests and replies stays in order.                    *)
LEMMA SpeaksTalk ==
    ASSUME TypeOK, Talk, NEW c \in Clients, Speaks(c)
    PROVE  Talk'
<1> USE DEF Talk
<1>1. /\ Requests(c) = {} /\ Owed(c) = {} /\ inbox'[c] = {}
      /\ versions' = versions /\ jobs' = jobs
      /\ \A b \in Clients \ {c} :
            inbox'[b] = inbox[b] /\ phase'[b] = phase[b] /\ journal'[b] = journal[b]
  BY DEF Speaks
<1>2. RepliesAreKept' BY <1>1 DEF RepliesAreKept, Kept
<1>3. MissingIsTrue' BY <1>1 DEF MissingIsTrue, Live
<1>4. \A b \in Clients : Owed(b)' = Owed(b) BY <1>1 DEF Owed
<1>5. CASE wire' = wire
  <2>1. \A b \in Clients : Requests(b)' = Requests(b) BY <1>5 DEF Requests
  <2>2. OneRequest' BY <1>1, <1>4, <2>1 DEF OneRequest
  <2>3. \A m \in wire : m.client = c => m.old \/ m.kind = "ack"
    BY <1>1 DEF Requests
  <2>4. \A m \in wire : m.client \in Clients BY DEF TypeOK, Messages
  <2>5. PhaseFits' BY <1>1, <1>5, <2>3, <2>4 DEF PhaseFits, Speaks
  <2> QED BY <1>2, <1>3, <2>2, <2>5
<1>6. ASSUME NEW m, Asks(c, m) PROVE Talk'
  <2>1. /\ wire' = wire \cup {m} /\ m.client = c /\ ~m.old /\ phase'[c] \in Busy
        /\ m.kind # "ack"
    BY <1>6 DEF Asks, Busy
  <2>2. \A b \in Clients \ {c} : Requests(b)' = Requests(b) BY <2>1 DEF Requests
  <2>3. Requests(c)' = {m} BY <1>1, <2>1 DEF Requests
  <2>4. OneRequest'
    <3> SUFFICES ASSUME NEW b \in Clients
                 PROVE  /\ \A w, x \in Requests(b)' : w = x
                        /\ \A j, h \in Owed(b)' : j = h
                        /\ Requests(b)' # {} => Owed(b)' = {} /\ inbox'[b] = {}
                        /\ Owed(b)' # {} => inbox'[b] = {}
                        /\ phase'[b] \in {"offline", "settling", "ready"} =>
                              Requests(b)' = {} /\ Owed(b)' = {} /\ inbox'[b] = {}
      BY DEF OneRequest
    <3>1. CASE b = c BY <3>1, <1>1, <1>4, <2>1, <2>3 DEF Busy
    <3>2. CASE b # c BY <3>2, <1>1, <1>4, <2>2 DEF OneRequest
    <3> QED BY <3>1, <3>2
  <2>5. \A w \in wire : w.client = c => w.old \/ w.kind = "ack"
    BY <1>1 DEF Requests
  <2>6. \A w \in wire : w.client \in Clients BY DEF TypeOK, Messages
  <2>7. PhaseFits'
    <3>1. \A b \in Clients :
            /\ phase'[b] \in {"ready", "confirming"} => journal'[b].pending = None
            /\ phase'[b] \in {"mutating", "resolving"} => journal'[b].pending # None
            /\ phase'[b] \in {"resolving", "confirming"} => b \in CommandLine
      BY <1>1 DEF PhaseFits, Speaks
    <3>2. ASSUME NEW w \in wire'
          PROVE  /\ w.kind = "resolve" => w.client \in CommandLine
                 /\ w.kind = "mutate" => w.op \in Ops
                 /\ ~w.old /\ w.kind = "mutate" =>
                      phase'[w.client] = "mutating" /\ w.op = journal'[w.client].pending
                 /\ ~w.old /\ w.kind = "resolve" /\ phase'[w.client] = "resolving" =>
                      w.op = journal'[w.client].pending
      <4>1. CASE w = m BY <4>1, <1>6 DEF Asks
      <4>2. CASE w \in wire /\ w.client = c
        BY <4>2, <2>5 DEF PhaseFits
      <4>3. CASE w \in wire /\ w.client # c
        BY <4>3, <2>6, <1>1 DEF PhaseFits
      <4> QED BY <4>1, <4>2, <4>3, <2>1
    <3> QED BY <3>1, <3>2 DEF PhaseFits
  <2> QED BY <1>2, <1>3, <2>4, <2>7
<1> QED BY <1>5, <1>6 DEF Speaks

(* A reply on its way means that nothing else is.                          *)
LEMMA ReplyIsAlone ==
    ASSUME OneRequest, NEW c \in Clients,
           inbox[c] # {} \/ phase[c] \in {"offline", "settling", "ready"}
    PROVE  Requests(c) = {} /\ Owed(c) = {}
BY DEF OneRequest

-----------------------------------------------------------------------------
(* The steps of a client.                                                  *)

(* The parts of the invariant.                                             *)
LEMMA Parts ==
    ProtocolInv <=> Book /\ Talk /\ AcksArePast /\ ReadIsExpected /\ LateIsHarmless
BY DEF ProtocolInv, Book, Talk

(* A step in which the client learns of no sequence and changes no record. *)
LEMMA SpeaksKeeps ==
    ASSUME TypeOK, ProtocolInv, NEW c \in Clients, Speaks(c), SamePending,
           UNCHANGED <<count, abandoned, confirmed, ack>>,
           \A b \in Clients : \/ journal'[b].last = journal[b].last
                              \/ journal'[b].last = None,
           \A b \in Clients : MayUse(b)' => MayUse(b) /\ sequence'[b] = sequence[b]
    PROVE  ProtocolInv'
<1>1. Book /\ Talk /\ AcksArePast /\ ReadIsExpected /\ LateIsHarmless BY Parts
<1>2. versions' = versions BY DEF Speaks
<1>3. Book' BY <1>1, <1>2, SameBook
<1>4. Talk' BY <1>1, SpeaksTalk
<1>5. NoNewVersion BY <1>2 DEF NoNewVersion
<1>6. \A m \in wire' : m \in wire \/ (~m.old /\ m.kind # "ack")
  <2>1. CASE wire' = wire BY <2>1
  <2>2. ASSUME NEW w, Asks(c, w) PROVE wire' = wire \cup {w} /\ ~w.old /\ w.kind # "ack"
    BY <2>2 DEF Asks
  <2> QED BY <2>1, <2>2 DEF Speaks
<1>7. \A b \in Clients : Acks(b)' \subseteq Acks(b) \cup {0}
  <2> SUFFICES ASSUME NEW b \in Clients, NEW a \in Acks(b)'
               PROVE  a \in Acks(b) \cup {0}
    OBVIOUS
  <2>1. None.sequence = 0 BY DEF None, Recorded
  <2>2. \/ a = ack[b] \/ a = journal'[b].last.sequence
        \/ \E m \in wire' : m.client = b /\ m.kind = "ack" /\ a = m.op.sequence
    BY DEF Acks
  <2> QED BY <1>6, <2>1, <2>2 DEF Acks
<1>8. AcksArePast' /\ ReadIsExpected'
  BY <1>1, <1>5, <1>7, PastShrinks DEF Book
<1>9. LateIsHarmless'
  <2>1. \A m \in wire' : m.old => m \in wire BY <1>6
  <2> QED BY <1>1, <1>5, <2>1, LateKeeps
<1> QED BY <1>3, <1>4, <1>8, <1>9 DEF ProtocolInv, Book, Talk

(* Retry: the pending edit is dispatched again, or its outcome asked for.  *)
LEMMA RetryKeeps ==
    ASSUME TypeOK, ProtocolInv, NEW c \in Clients, Retry(c)
    PROVE  ProtocolInv'
<1>1. OneRequest BY DEF ProtocolInv
<1>2. phase[c] = "settling" /\ journal[c].pending # None BY DEF Retry
<1>3. Requests(c) = {} /\ Owed(c) = {} /\ inbox[c] = {}
  BY <1>1, <1>2 DEF OneRequest
<1>4. journal[c].pending \in Ops BY <1>2 DEF TypeOK
<1>5. journal[c].pending \in Sent BY <1>4 DEF Ops, Sent
<1>6. /\ versions' = versions /\ jobs' = jobs /\ inbox' = inbox /\ journal' = journal
      /\ sequence' = sequence /\ UNCHANGED <<count, abandoned, confirmed, ack>>
  BY DEF Retry, serverVars
<1>7. phase' = [phase EXCEPT ![c] = IF c \in Desktop THEN "mutating" ELSE "resolving"]
  BY DEF Retry
<1>8. phase \in [Clients -> Phases] BY DEF TypeOK
<1>9. \A b \in Clients \ {c} : phase'[b] = phase[b] BY <1>7, <1>8
<1>10. CASE c \in Desktop
  <2> DEFINE m == [kind |-> "mutate", client |-> c, old |-> FALSE,
                   op |-> journal[c].pending]
  <2>1. phase'[c] = "mutating" BY <1>7, <1>8, <1>10
  <2>2. c \notin CommandLine BY <1>10, ProtocolAssumption
  <2>3. wire' = wire \cup {m} BY <2>2 DEF Retry, Send
  <2>4. m \in Messages BY <1>5 DEF Messages
  <2>5. Asks(c, m) BY <1>4, <1>6, <2>1, <2>3, <2>4 DEF Asks
  <2>6. Speaks(c) BY <1>2, <1>3, <1>6, <1>9, <2>1, <2>5 DEF Speaks
  <2>7. \A b \in Clients : MayUse(b)' => MayUse(b) /\ sequence'[b] = sequence[b]
    BY <1>6, <1>9, <2>1 DEF MayUse
  <2> QED BY <1>6, <2>6, <2>7, SpeaksKeeps DEF SamePending
<1>11. CASE c \notin Desktop
  <2> DEFINE m == [kind |-> "resolve", client |-> c, old |-> FALSE,
                   op |-> journal[c].pending]
  <2>1. phase'[c] = "resolving" BY <1>7, <1>8, <1>11
  <2>2. c \in CommandLine BY <1>11 DEF Clients
  <2>3. wire' = wire \cup {m} BY <1>11 DEF Retry, Send
  <2>4. m \in Messages BY <1>5 DEF Messages
  <2>5. Asks(c, m) BY <1>6, <2>1, <2>2, <2>3, <2>4 DEF Asks
  <2>6. Speaks(c) BY <1>2, <1>3, <1>6, <1>9, <2>1, <2>2, <2>5 DEF Speaks
  <2>7. \A b \in Clients : MayUse(b)' => MayUse(b) /\ sequence'[b] = sequence[b]
    BY <1>6, <1>9, <2>1 DEF MayUse
  <2> QED BY <1>6, <2>6, <2>7, SpeaksKeeps DEF SamePending
<1> QED BY <1>10, <1>11

(* Settle: nothing is pending; the command line asks about the last one.   *)
LEMMA SettleKeeps ==
    ASSUME TypeOK, ProtocolInv, NEW c \in Clients, Settle(c)
    PROVE  ProtocolInv'
<1>1. OneRequest BY DEF ProtocolInv
<1>2. phase[c] = "settling" /\ journal[c].pending = None BY DEF Settle
<1>3. Requests(c) = {} /\ Owed(c) = {} /\ inbox[c] = {}
  BY <1>1, <1>2 DEF OneRequest
<1>4. /\ versions' = versions /\ jobs' = jobs /\ inbox' = inbox /\ journal' = journal
      /\ sequence' = sequence /\ UNCHANGED <<count, abandoned, confirmed, ack>>
  BY DEF Settle, serverVars
<1>5. phase \in [Clients -> Phases] BY DEF TypeOK
<1>6. CASE c \in CommandLine /\ journal[c].last # None
  <2> DEFINE m == [kind |-> "resolve", client |-> c, old |-> FALSE,
                   op |-> journal[c].last]
  <2>1. phase' = [phase EXCEPT ![c] = "confirming"] BY <1>6 DEF Settle
  <2>2. phase'[c] = "confirming" /\ \A b \in Clients \ {c} : phase'[b] = phase[b]
    BY <1>5, <2>1
  <2>3. wire' = wire \cup {m} BY <1>6 DEF Settle, Send
  <2>4. journal[c].last \in Ops BY <1>6 DEF TypeOK
  <2>5. journal[c].last \in Sent BY <2>4 DEF Ops, Sent
  <2>6. m \in Messages BY <2>5 DEF Messages
  <2>7. Asks(c, m) BY <1>6, <2>2, <2>3, <2>6 DEF Asks
  <2>8. Speaks(c) BY <1>2, <1>3, <1>4, <1>6, <2>2, <2>7 DEF Speaks
  <2>9. \A b \in Clients : MayUse(b)' => MayUse(b) /\ sequence'[b] = sequence[b]
    BY <1>4, <2>2 DEF MayUse
  <2> QED BY <1>4, <2>8, <2>9, SpeaksKeeps DEF SamePending
<1>7. CASE ~(c \in CommandLine /\ journal[c].last # None)
  <2>1. phase' = [phase EXCEPT ![c] = "ready"] /\ wire' = wire BY <1>7 DEF Settle
  <2>2. phase'[c] = "ready" /\ \A b \in Clients \ {c} : phase'[b] = phase[b]
    BY <1>5, <2>1
  <2>3. Speaks(c) BY <1>2, <1>3, <1>4, <2>1, <2>2 DEF Speaks
  <2>4. \A b \in Clients : MayUse(b)' => MayUse(b) /\ sequence'[b] = sequence[b]
    BY <1>2, <1>4, <2>2 DEF MayUse
  <2> QED BY <1>4, <2>3, <2>4, SpeaksKeeps DEF SamePending
<1> QED BY <1>6, <1>7

(* Confirmed, AskConfirmed and Unconfirmed: the reply about the last one.  *)
LEMMA ConfirmingKeeps ==
    ASSUME TypeOK, ProtocolInv, NEW c \in Clients,
           Confirmed(c) \/ AskConfirmed(c) \/ Unconfirmed(c)
    PROVE  ProtocolInv'
<1>1. OneRequest /\ PhaseFits BY DEF ProtocolInv
<1>2. /\ phase[c] = "confirming" /\ inbox[c] # {}
      /\ inbox' = [inbox EXCEPT ![c] = {}]
      /\ \E p \in {"ready", "settling"} : phase' = [phase EXCEPT ![c] = p]
      /\ versions' = versions /\ jobs' = jobs /\ wire' = wire
      /\ sequence' = sequence /\ UNCHANGED <<count, abandoned, confirmed, ack>>
      /\ journal' = journal \/ journal' = [journal EXCEPT ![c].last = None]
  BY DEF Confirmed, AskConfirmed, Unconfirmed, serverVars
<1>3. Requests(c) = {} /\ Owed(c) = {} BY <1>1, <1>2, ReplyIsAlone
<1>4. c \in CommandLine /\ journal[c].pending = None BY <1>1, <1>2 DEF PhaseFits
<1>5. c \notin Desktop BY <1>4, ProtocolAssumption
<1>6. phase \in [Clients -> Phases] /\ inbox \in [Clients -> SUBSET Replies]
  BY DEF TypeOK
<1>7. /\ phase'[c] \in {"ready", "settling"} /\ inbox'[c] = {}
      /\ \A b \in Clients \ {c} : phase'[b] = phase[b] /\ inbox'[b] = inbox[b]
  BY <1>2, <1>6
<1>8. journal \in [Clients -> [pending : Ops \cup {None}, last : Ops \cup {None}]]
  BY DEF TypeOK
<1>9. /\ \A b \in Clients \ {c} : journal'[b] = journal[b]
      /\ \A b \in Clients : journal'[b].pending = journal[b].pending
      /\ \A b \in Clients : journal'[b].last = journal[b].last \/ journal'[b].last = None
  BY <1>2, <1>8
<1>10. Speaks(c) BY <1>2, <1>3, <1>4, <1>7, <1>9 DEF Speaks
<1>11. \A b \in Clients : MayUse(b)' => MayUse(b) /\ sequence'[b] = sequence[b]
  BY <1>2, <1>5, <1>7, <1>9 DEF MayUse
<1> QED BY <1>2, <1>9, <1>10, <1>11, SpeaksKeeps DEF SamePending

(* AskAgain: the command line asks what became of a refused edit.          *)
LEMMA AskAgainKeeps ==
    ASSUME TypeOK, ProtocolInv, NEW c \in Clients, AskAgain(c)
    PROVE  ProtocolInv'
<1>1. OneRequest /\ PhaseFits BY DEF ProtocolInv
<1> DEFINE m == [kind |-> "resolve", client |-> c, old |-> FALSE,
                 op |-> journal[c].pending]
<1>2. /\ phase[c] = "mutating" /\ inbox[c] # {} /\ c \in CommandLine
      /\ inbox' = [inbox EXCEPT ![c] = {}]
      /\ phase' = [phase EXCEPT ![c] = "resolving"]
      /\ versions' = versions /\ jobs' = jobs /\ wire' = wire \cup {m}
      /\ sequence' = sequence /\ UNCHANGED <<count, abandoned, confirmed, ack>>
      /\ journal' = journal
  BY DEF AskAgain, serverVars, Send
<1>3. Requests(c) = {} /\ Owed(c) = {} BY <1>1, <1>2, ReplyIsAlone
<1>4. journal[c].pending # None BY <1>1, <1>2 DEF PhaseFits
<1>5. journal[c].pending \in Ops BY <1>4 DEF TypeOK
<1>6. journal[c].pending \in Sent BY <1>5 DEF Ops, Sent
<1>7. m \in Messages BY <1>6 DEF Messages
<1>8. phase \in [Clients -> Phases] /\ inbox \in [Clients -> SUBSET Replies]
  BY DEF TypeOK
<1>9. /\ phase'[c] = "resolving" /\ inbox'[c] = {}
      /\ \A b \in Clients \ {c} : phase'[b] = phase[b] /\ inbox'[b] = inbox[b]
  BY <1>2, <1>8
<1>10. Asks(c, m) BY <1>2, <1>7, <1>9 DEF Asks
<1>11. Speaks(c) BY <1>2, <1>3, <1>4, <1>9, <1>10 DEF Speaks
<1>12. \A b \in Clients : MayUse(b)' => MayUse(b) /\ sequence'[b] = sequence[b]
  BY <1>2, <1>9 DEF MayUse
<1> QED BY <1>2, <1>11, <1>12, SpeaksKeeps DEF SamePending

(* GiveUp: the client leaves the connection and keeps its record.          *)
LEMMA GiveUpKeeps ==
    ASSUME TypeOK, ProtocolInv, NEW c \in Clients, GiveUp(c)
    PROVE  ProtocolInv'
<1>1. OneRequest BY DEF ProtocolInv
<1>2. /\ inbox[c] # {}
      /\ inbox' = [inbox EXCEPT ![c] = {}]
      /\ phase' = [phase EXCEPT ![c] = "offline"]
      /\ versions' = versions /\ jobs' = jobs /\ wire' = wire
      /\ sequence' = sequence /\ UNCHANGED <<count, abandoned, confirmed, ack>>
      /\ journal' = journal
  BY DEF GiveUp, serverVars
<1>3. Requests(c) = {} /\ Owed(c) = {} BY <1>1, <1>2, ReplyIsAlone
<1>4. phase \in [Clients -> Phases] /\ inbox \in [Clients -> SUBSET Replies]
  BY DEF TypeOK
<1>5. /\ phase'[c] = "offline" /\ inbox'[c] = {}
      /\ \A b \in Clients \ {c} : phase'[b] = phase[b] /\ inbox'[b] = inbox[b]
  BY <1>2, <1>4
<1>6. Speaks(c) BY <1>2, <1>3, <1>5 DEF Speaks
<1>7. \A b \in Clients : MayUse(b)' => MayUse(b) /\ sequence'[b] = sequence[b]
  BY <1>2, <1>5 DEF MayUse
<1> QED BY <1>2, <1>6, <1>7, SpeaksKeeps DEF SamePending

(* A client reads the kept inventory: what it acknowledges is before the   *)
(* sequence it reads, and that sequence fits every version.                *)
LEMMA ReadsPast ==
    ASSUME TypeOK, Book, AcksArePast, ReadIsExpected, NEW c \in Clients,
           versions' = versions,
           journal'[c].pending = None =>
              \A e \in Live.applied : e.client = c => e \in Kept.applied,
           sequence'[c] = NextSequence(Kept, c),
           \A a \in Acks(c)' : \A i \in DOMAIN versions : a < NextSequence(versions[i], c),
           \A a \in Acks(c)' :
              journal'[c].pending # None => a < journal'[c].pending.sequence,
           \A b \in Clients \ {c} :
              /\ Acks(b)' = Acks(b) /\ sequence'[b] = sequence[b]
              /\ journal'[b].pending = journal[b].pending
              /\ MayUse(b)' => MayUse(b)
    PROVE  AcksArePast' /\ ReadIsExpected'
<1>1. 1 \in DOMAIN versions /\ Kept = versions[1] BY VersionFacts
<1>2. AcksArePast'
  <2> SUFFICES ASSUME NEW b \in Clients, NEW a \in Acks(b)'
               PROVE  /\ \A i \in DOMAIN versions' : a < NextSequence(versions'[i], b)
                      /\ journal'[b].pending # None => a < journal'[b].pending.sequence
                      /\ MayUse(b)' => a < sequence'[b]
    BY DEF AcksArePast
  <2>1. CASE b = c BY <1>1, <2>1
  <2>2. CASE b # c BY <2>2 DEF AcksArePast
  <2> QED BY <2>1, <2>2
<1>3. ReadIsExpected'
  <2> SUFFICES ASSUME NEW b \in Clients, MayUse(b)', NEW i \in DOMAIN versions
               PROVE  Expected(versions[i], b, sequence'[b])
    BY DEF ReadIsExpected
  <2>1. CASE b = c
    <3>1. journal'[c].pending = None BY <2>1 DEF MayUse
    <3> QED BY <2>1, <3>1, FreshSequence DEF Book
  <2>2. CASE b # c BY <2>2 DEF ReadIsExpected
  <2> QED BY <2>1, <2>2
<1> QED BY <1>2, <1>3

(* Connect and ReadInventory.                                              *)
LEMMA ReadKeeps ==
    ASSUME TypeOK, ProtocolInv, NEW c \in Clients, Connect(c) \/ ReadInventory(c)
    PROVE  ProtocolInv'
<1>1. Book /\ Talk /\ AcksArePast /\ ReadIsExpected /\ LateIsHarmless BY Parts
<1>2. /\ phase[c] \in {"offline", "ready"}
      /\ phase' = phase \/ phase' = [phase EXCEPT ![c] = "settling"]
      /\ phase[c] = "offline" => phase' = [phase EXCEPT ![c] = "settling"]
      /\ sequence' = [sequence EXCEPT ![c] = NextSequence(Kept, c)]
      /\ \E a \in {ack[c], journal[c].last.sequence, 0} : ack' = [ack EXCEPT ![c] = a]
      /\ versions' = versions /\ jobs' = jobs /\ wire' = wire /\ inbox' = inbox
      /\ journal' = journal /\ UNCHANGED <<count, abandoned, confirmed>>
  <2>1. CASE Connect(c) BY <2>1 DEF Connect, serverVars
  <2>2. CASE ReadInventory(c)
    <3>1. ack' = [ack EXCEPT ![c] = ack[c]] BY <2>2 DEF ReadInventory, TypeOK
    <3> QED BY <2>2, <3>1 DEF ReadInventory, serverVars
  <2> QED BY <2>1, <2>2
<1>3. /\ phase \in [Clients -> Phases] /\ sequence \in [Clients -> Nat]
      /\ ack \in [Clients -> Nat]
  BY DEF TypeOK
<1>4. /\ phase'[c] \in {"settling", "ready"}
      /\ phase'[c] = "ready" => phase[c] = "ready"
      /\ \A b \in Clients \ {c} : phase'[b] = phase[b] /\ sequence'[b] = sequence[b]
                                  /\ ack'[b] = ack[b]
      /\ sequence'[c] = NextSequence(Kept, c)
      /\ ack'[c] \in {ack[c], journal[c].last.sequence, 0}
  BY <1>2, <1>3
<1>5. Requests(c) = {} /\ Owed(c) = {} /\ inbox[c] = {}
  BY <1>1, <1>2 DEF Talk, OneRequest
<1>6. Speaks(c) BY <1>1, <1>2, <1>4, <1>5 DEF Speaks, Talk, PhaseFits
<1>7. Talk' BY <1>1, <1>6, SpeaksTalk
<1>8. Book' BY <1>1, <1>2, SameBook DEF SamePending
<1>9. LateIsHarmless'
  BY <1>1, <1>2, LateKeeps DEF NoNewVersion, SamePending
<1>10. AcksArePast' /\ ReadIsExpected'
  <2>1. journal'[c].pending = None =>
          \A e \in Live.applied : e.client = c => e \in Kept.applied
    BY <1>1, <1>2, SettledIsKept DEF Book
  <2>2. Acks(c)' \subseteq Acks(c) \cup {0} BY <1>2, <1>4 DEF Acks
  <2>3. \A i \in DOMAIN versions : NextSequence(versions[i], c) \in Nat \ {0}
    BY <1>1, NextIsNat, VersionFacts DEF Book, Tables
  <2>4. journal[c].pending # None => journal[c].pending.sequence \in Nat \ {0}
    BY DEF TypeOK, Ops
  <2>5. ASSUME NEW a \in Acks(c)'
        PROVE  /\ \A i \in DOMAIN versions : a < NextSequence(versions[i], c)
               /\ journal'[c].pending # None => a < journal'[c].pending.sequence
    <3>1. CASE a \in Acks(c) BY <3>1, <1>1, <1>2 DEF AcksArePast
    <3>2. CASE a = 0 BY <3>2, <2>3, <2>4, <1>2
    <3> QED BY <2>2, <3>1, <3>2
  <2>6. \A b \in Clients \ {c} : Acks(b)' = Acks(b) /\ (MayUse(b)' => MayUse(b))
    BY <1>2, <1>4 DEF Acks, MayUse
  <2> QED BY <1>1, <1>2, <1>4, <2>1, <2>5, <2>6, ReadsPast
<1> QED BY <1>7, <1>8, <1>9, <1>10 DEF ProtocolInv, Book, Talk

(* SendAck: the acknowledgement leaves.                                    *)
LEMMA SendAckKeeps ==
    ASSUME TypeOK, ProtocolInv, NEW c \in Clients, SendAck(c)
    PROVE  ProtocolInv'
<1>1. Book /\ Talk /\ AcksArePast /\ ReadIsExpected /\ LateIsHarmless BY Parts
<1> DEFINE m == [kind |-> "ack", client |-> c, old |-> FALSE,
                 op |-> Recorded(ack[c], NoEdit)]
<1>2. /\ wire' = wire \cup {m} /\ ack' = [ack EXCEPT ![c] = 0]
      /\ versions' = versions /\ jobs' = jobs /\ inbox' = inbox /\ journal' = journal
      /\ phase' = phase /\ sequence' = sequence
      /\ UNCHANGED <<count, abandoned, confirmed>>
  BY DEF SendAck, serverVars
<1>3. m.kind = "ack" /\ m.client = c /\ ~m.old /\ m.op.sequence = ack[c]
  BY DEF Recorded
<1> HIDE DEF m
<1>4. Book' BY <1>1, <1>2, SameBook DEF SamePending
<1>5. \A b \in Clients : Requests(b)' = Requests(b) /\ Owed(b)' = Owed(b)
  BY <1>2, <1>3 DEF Requests, Owed
<1>6. OneRequest' BY <1>1, <1>2, <1>5 DEF Talk, OneRequest
<1>7. PhaseFits' BY <1>1, <1>2, <1>3 DEF Talk, PhaseFits
<1>8. RepliesAreKept' /\ MissingIsTrue'
  BY <1>1, <1>2 DEF Talk, RepliesAreKept, MissingIsTrue, Kept, Live
<1>9. LateIsHarmless'
  BY <1>1, <1>2, <1>3, LateKeeps DEF NoNewVersion, SamePending
<1>10. \A b \in Clients : Acks(b)' \subseteq Acks(b) \cup {0}
  <2> SUFFICES ASSUME NEW b \in Clients, NEW a \in Acks(b)'
               PROVE  a \in Acks(b) \cup {0}
    OBVIOUS
  <2>1. \/ a = ack'[b] \/ a = journal[b].last.sequence
        \/ \E w \in wire' : w.client = b /\ w.kind = "ack" /\ a = w.op.sequence
    BY <1>2 DEF Acks
  <2>2. ack \in [Clients -> Nat] BY DEF TypeOK
  <2>3. ack'[b] = ack[b] \/ ack'[b] = 0 BY <1>2, <2>2
  <2> QED BY <1>2, <1>3, <2>1, <2>3 DEF Acks
<1>11. \A b \in Clients : MayUse(b)' => MayUse(b) /\ sequence'[b] = sequence[b]
  BY <1>2 DEF MayUse
<1>12. AcksArePast' /\ ReadIsExpected'
  BY <1>1, <1>2, <1>10, <1>11, PastShrinks DEF NoNewVersion, SamePending, Book
<1> QED BY <1>4, <1>6, <1>7, <1>8, <1>9, <1>12 DEF ProtocolInv, Book

(* Submit: a new edit, under a sequence that every version accepts.        *)
LEMMA SubmitKeeps ==
    ASSUME TypeOK, ProtocolInv, NEW c \in Clients, Submit(c)
    PROVE  ProtocolInv'
<1>1. Book /\ Talk /\ AcksArePast /\ ReadIsExpected /\ LateIsHarmless BY Parts
<1> DEFINE n == IF c \in Desktop THEN sequence[c] ELSE NextSequence(Kept, c)
           e == [client |-> c, k |-> count[c] + 1]
           op == Recorded(n, e)
           m == [kind |-> "mutate", client |-> c, old |-> FALSE, op |-> op]
<1>2. /\ phase[c] = "ready" /\ journal' = [journal EXCEPT ![c].pending = op]
      /\ count' = [count EXCEPT ![c] = @ + 1]
      /\ versions' = versions /\ jobs' = jobs /\ inbox' = inbox
      /\ sequence' = sequence /\ ack' = ack /\ UNCHANGED <<abandoned, confirmed>>
      /\ \/ wire' = wire \cup {m} /\ phase' = [phase EXCEPT ![c] = "mutating"]
         \/ wire' = wire /\ phase' = [phase EXCEPT ![c] = "offline"]
  BY DEF Submit, serverVars, Send
<1>3. journal[c].pending = None BY <1>1, <1>2 DEF Talk, PhaseFits
<1>4. \A i \in DOMAIN versions : Expected(versions[i], c, n)
  <2>1. CASE c \in Desktop
    <3>1. MayUse(c) BY <1>2, <1>3, <2>1 DEF MayUse
    <3> QED BY <1>1, <2>1, <3>1 DEF ReadIsExpected
  <2>2. CASE c \notin Desktop
    <3>1. \A x \in Live.applied : x.client = c => x \in Kept.applied
      BY <1>1, <1>3, SettledIsKept DEF Book
    <3> QED BY <1>1, <2>2, <3>1, FreshSequence DEF Book
  <2> QED BY <2>1, <2>2
<1>5. \A a \in Acks(c) : a < n
  <2>1. CASE c \in Desktop
    <3>1. MayUse(c) BY <1>2, <1>3, <2>1 DEF MayUse
    <3> QED BY <1>1, <2>1, <3>1 DEF AcksArePast
  <2>2. CASE c \notin Desktop
    <3>1. 1 \in DOMAIN versions /\ Kept = versions[1] BY VersionFacts
    <3> QED BY <1>1, <2>2, <3>1 DEF AcksArePast
  <2> QED BY <2>1, <2>2
<1>6. n \in Nat \ {0}
  <2>1. 1 \in DOMAIN versions /\ versions[1] \in States BY VersionFacts
  <2>2. WellFormed(versions[1]) BY <1>1, <2>1 DEF Book, Tables
  <2>3. Expected(versions[1], c, n) BY <1>4, <2>1
  <2> HIDE DEF n
  <2> QED BY <2>1, <2>2, <2>3, ExpectedIsNat
<1> HIDE DEF n
<1>7. count \in [Clients -> Nat] BY DEF TypeOK
<1>8. e \in Edits /\ e.client = c /\ e.k = count[c] + 1 BY <1>7 DEF Edits
<1> HIDE DEF e
<1>9. op \in Ops /\ op.sequence = n /\ op.edit = e BY <1>6, <1>8 DEF Ops, Recorded
<1>10. op # None /\ op \in Sent
  <2>1. None.sequence = 0 BY DEF None, Recorded
  <2>2. op # None BY <2>1, <1>6, <1>9
  <2> QED BY <2>2, <1>9 DEF Ops, Sent
<1> HIDE DEF op
<1>11. journal \in [Clients -> [pending : Ops \cup {None}, last : Ops \cup {None}]]
  BY DEF TypeOK
<1>12. /\ journal'[c].pending = op /\ journal'[c].last = journal[c].last
       /\ \A b \in Clients \ {c} : journal'[b] = journal[b]
  BY <1>2, <1>11
<1>13. phase \in [Clients -> Phases] BY DEF TypeOK
<1>14. /\ phase'[c] \in {"mutating", "offline"}
       /\ phase'[c] = "offline" => wire' = wire
       /\ phase'[c] = "mutating" => wire' = wire \cup {m}
       /\ \A b \in Clients \ {c} : phase'[b] = phase[b]
  BY <1>2, <1>13
<1>15. m \in Messages /\ m.client = c /\ ~m.old /\ m.kind = "mutate" /\ m.op = op
  BY <1>10 DEF Messages
<1> HIDE DEF m
<1>16. Talk'
  <2>1. Requests(c) = {} /\ Owed(c) = {} /\ inbox[c] = {}
    BY <1>1, <1>2 DEF Talk, OneRequest
  <2>2. phase'[c] = "mutating" => Asks(c, m)
    BY <1>9, <1>12, <1>14, <1>15 DEF Asks
  <2>3. Speaks(c) BY <1>2, <1>10, <1>12, <1>14, <2>1, <2>2 DEF Speaks
  <2> QED BY <1>1, <2>3, SpeaksTalk
<1>17. \A b \in Clients : Acks(b)' = Acks(b)
  <2>1. \A b \in Clients : journal'[b].last = journal[b].last BY <1>12
  <2>2. \A w \in wire' : w \in wire \/ w = m BY <1>2
  <2>3. wire \subseteq wire' BY <1>2
  <2> QED BY <1>2, <1>15, <2>1, <2>2, <2>3 DEF Acks
<1>18. \A b \in Clients \ {c} : MayUse(b)' = MayUse(b) BY <1>12, <1>14 DEF MayUse
<1>19. ~MayUse(c)' BY <1>14 DEF MayUse
<1>20. AcksArePast'
  <2> SUFFICES ASSUME NEW b \in Clients, NEW a \in Acks(b)'
               PROVE  /\ \A i \in DOMAIN versions' : a < NextSequence(versions'[i], b)
                      /\ journal'[b].pending # None => a < journal'[b].pending.sequence
                      /\ MayUse(b)' => a < sequence'[b]
    BY DEF AcksArePast
  <2>1. a \in Acks(b) BY <1>17
  <2>2. CASE b = c
    BY <2>1, <2>2, <1>1, <1>2, <1>5, <1>9, <1>12, <1>19 DEF AcksArePast
  <2>3. CASE b # c BY <2>1, <2>3, <1>1, <1>2, <1>12, <1>18 DEF AcksArePast
  <2> QED BY <2>2, <2>3
<1>21. ReadIsExpected' BY <1>1, <1>2, <1>18, <1>19 DEF ReadIsExpected
<1>22. LateIsHarmless'
  <2> SUFFICES ASSUME NEW w \in wire', w.old
               PROVE  /\ RoomForAll /\ w.client \in Desktop
                      /\ w.kind = "mutate" =>
                           \/ w.op = journal'[w.client].pending
                           \/ \A i \in DOMAIN versions :
                                 /\ HasRecord(versions[i], w.client)
                                 /\ w.op.sequence < NextSequence(versions[i], w.client)
    BY <1>2 DEF LateIsHarmless
  <2>1. w \in wire BY <1>2, <1>15
  <2>2. w.client \in Clients BY <2>1 DEF TypeOK, Messages
  <2>3. w.kind = "mutate" => w.op # None
    <3>1. w.kind = "mutate" => w.op \in Ops BY <2>1, <1>1 DEF Talk, PhaseFits
    <3>2. None.sequence = 0 BY DEF None, Recorded
    <3> QED BY <3>1, <3>2 DEF Ops
  <2>4. CASE w.client = c BY <2>1, <2>3, <2>4, <1>1, <1>3 DEF LateIsHarmless
  <2>5. CASE w.client # c BY <2>1, <2>2, <2>5, <1>1, <1>12 DEF LateIsHarmless
  <2> QED BY <2>4, <2>5
<1>23. Book'
  <2>1. Tables' /\ VersionsGrow' /\ ToldIsTrue'
    BY <1>1, <1>2 DEF Book, Tables, VersionsGrow, ToldIsTrue, Kept, Live
  <2>2. Live \in States /\ Live.applied \subseteq Edits
    BY VersionFacts DEF States
  <2>3. /\ \A b \in Clients \ {c} : count'[b] = count[b]
        /\ count'[c] = count[c] + 1 /\ count[c] \in Nat
    BY <1>2, <1>7
  <2>4. ASSUME NEW x \in Live.applied, x.client = c PROVE x \in confirmed
    <3>1. x.k \in Nat \ {0} BY <2>2 DEF Edits
    <3>2. None.edit.k = 0 BY DEF None, Recorded, NoEdit
    <3> QED BY <1>1, <1>3, <2>4, <3>1, <3>2 DEF Book, EditsKnown
  <2>5. \A x \in abandoned \cup confirmed : x \in Edits BY DEF TypeOK
  <2>6. \A x \in abandoned \cup confirmed :
          x.k <= count'[x.client] /\ (x.client = c => x.k <= count[c])
    BY <1>1, <1>7, <2>3, <2>5 DEF Book, EditsKnown, Edits
  <2>7. e \notin abandoned \cup confirmed
    BY <1>8, <2>3, <2>6
  <2>8. EditsKnown'
    <3>1. ASSUME NEW b \in Clients, journal'[b].pending # None
          PROVE  LET x == journal'[b].pending.edit IN
                 x.client = b /\ x.k <= count'[b] /\ x \notin abandoned'
      <4>1. CASE b = c BY <4>1, <1>2, <1>8, <1>9, <1>12, <2>3, <2>7
      <4>2. CASE b # c BY <4>2, <3>1, <1>1, <1>2, <1>12, <2>3 DEF Book, EditsKnown
      <4> QED BY <4>1, <4>2
    <3>2. ASSUME NEW x \in Live.applied
          PROVE  x \in confirmed \/ x = journal'[x.client].pending.edit
      <4>1. x.client \in Clients BY <2>2 DEF Edits
      <4>2. CASE x.client = c BY <4>2, <2>4
      <4>3. CASE x.client # c BY <4>1, <4>3, <1>1, <1>12 DEF Book, EditsKnown
      <4> QED BY <4>2, <4>3
    <3> QED BY <1>2, <2>6, <3>1, <3>2 DEF EditsKnown, Live
  <2>9. OutcomeNotForgotten'
    <3> SUFFICES ASSUME NEW b \in Clients, NEW i \in DOMAIN versions,
                        journal'[b].pending # None,
                        journal'[b].pending.edit \in versions[i].applied
                 PROVE  journal'[b].pending \in
                           OutcomesAt(versions[i], b, journal'[b].pending.sequence)
      BY <1>2 DEF OutcomeNotForgotten
    <3>1. CASE b = c
      <4>1. e \in versions[i].applied BY <3>1, <1>9, <1>12
      <4>2. e \in Live.applied BY <4>1, <1>1, Between DEF Book
      <4> QED BY <4>2, <1>8, <2>4, <2>7
    <3>2. CASE b # c BY <3>2, <1>1, <1>12 DEF Book, OutcomeNotForgotten
    <3> QED BY <3>1, <3>2
  <2>10. PendingFits' BY <1>1, <1>2, <1>4, <1>9, <1>12 DEF Book, PendingFits
  <2> QED BY <2>1, <2>8, <2>9, <2>10 DEF Book
<1> QED BY <1>16, <1>20, <1>21, <1>22, <1>23 DEF ProtocolInv, Book, Talk

(* A client settles its pending edit, as it was told.                      *)
Settles(c) ==
    /\ versions' = versions /\ count' = count
    /\ journal[c].pending # None /\ journal'[c].pending = None
    /\ \A b \in Clients \ {c} : journal'[b] = journal[b]
    /\ \/ /\ confirmed' = confirmed \cup {journal[c].pending.edit}
          /\ abandoned' = abandoned /\ journal[c].pending.edit \in Kept.applied
       \/ /\ abandoned' = abandoned \cup {journal[c].pending.edit}
          /\ confirmed' = confirmed /\ journal[c].pending.edit \notin Live.applied

(* Then what is recorded stays true.                                       *)
LEMMA SettledBook ==
    ASSUME TypeOK, Book, NEW c \in Clients, Settles(c)
    PROVE  Book'
<1> USE DEF Book
<1> DEFINE e == journal[c].pending.edit
<1>1. /\ versions' = versions /\ count' = count /\ journal'[c].pending = None
      /\ \A b \in Clients \ {c} : journal'[b] = journal[b]
      /\ confirmed' \cup abandoned' = confirmed \cup abandoned \cup {e}
  BY DEF Settles
<1>2. e.client = c /\ e.k <= count[c] BY DEF Settles, EditsKnown
<1>3. Live \in States /\ Live.applied \subseteq Edits BY VersionFacts DEF States
<1>4. Tables' /\ VersionsGrow' BY <1>1 DEF Tables, VersionsGrow
<1>5. Live' = Live /\ Kept' = Kept BY <1>1 DEF Live, Kept
<1>6. ToldIsTrue' BY <1>5 DEF Settles, ToldIsTrue
<1>7. OutcomeNotForgotten' BY <1>1 DEF OutcomeNotForgotten
<1>8. PendingFits' BY <1>1 DEF PendingFits
<1>9. EditsKnown'
  <2>1. \A x \in abandoned' \cup confirmed' : x.k <= count'[x.client]
    BY <1>1, <1>2 DEF EditsKnown
  <2>2. ASSUME NEW b \in Clients, journal'[b].pending # None
        PROVE  LET x == journal'[b].pending.edit IN
               x.client = b /\ x.k <= count'[b] /\ x \notin abandoned'
    <3>1. b # c BY <2>2, <1>1
    <3>2. journal'[b] = journal[b] BY <3>1, <1>1
    <3>3. journal[b].pending.edit # e BY <2>2, <3>1, <3>2, <1>2 DEF EditsKnown
    <3>4. abandoned' \subseteq abandoned \cup {e} BY DEF Settles
    <3> QED BY <2>2, <3>2, <3>3, <3>4, <1>1 DEF EditsKnown
  <2>3. ASSUME NEW x \in Live.applied
        PROVE  x \in confirmed' \/ x = journal'[x.client].pending.edit
    <3>1. x.client \in Clients BY <1>3 DEF Edits
    <3>2. x \in confirmed \/ x = journal[x.client].pending.edit BY DEF EditsKnown
    <3>3. confirmed \subseteq confirmed' BY DEF Settles
    <3>4. CASE x.client = c BY <3>2, <3>3, <3>4 DEF Settles
    <3>5. CASE x.client # c BY <3>1, <3>2, <3>3, <3>5, <1>1
    <3> QED BY <3>4, <3>5
  <2> QED BY <2>1, <2>2, <2>3, <1>5 DEF EditsKnown
<1> QED BY <1>4, <1>6, <1>7, <1>8, <1>9

(* Retire: the client retires an outcome that is kept.                     *)
LEMMA RetireKeeps ==
    ASSUME TypeOK, ProtocolInv, NEW c \in Clients, Retire(c)
    PROVE  ProtocolInv'
<1>1. Book /\ Talk /\ AcksArePast /\ ReadIsExpected /\ LateIsHarmless BY Parts
<1> DEFINE op == journal[c].pending
<1>2. PICK reply \in inbox[c] :
        /\ phase[c] \in {"mutating", "resolving"}
        /\ reply.verdict = "outcome" /\ reply.op = op
        /\ journal' = [journal EXCEPT ![c] = [pending |-> None, last |-> op]]
        /\ confirmed' = confirmed \cup {op.edit}
        /\ ack' = [ack EXCEPT ![c] = op.sequence]
        /\ sequence' = [sequence EXCEPT ![c] = NextSequence(Kept, c)]
        /\ phase' = [phase EXCEPT ![c] = "settling"]
        /\ inbox' = [inbox EXCEPT ![c] = {}]
        /\ versions' = versions /\ jobs' = jobs /\ wire' = wire
        /\ count' = count /\ abandoned' = abandoned
  BY DEF Retire, serverVars
<1>3. op # None BY <1>1, <1>2 DEF Talk, PhaseFits
<1>4. op \in Ops /\ op.edit \in Kept.applied
  BY <1>1, <1>2 DEF Talk, RepliesAreKept
<1>5. /\ phase \in [Clients -> Phases] /\ sequence \in [Clients -> Nat]
      /\ ack \in [Clients -> Nat] /\ inbox \in [Clients -> SUBSET Replies]
      /\ journal \in [Clients -> [pending : Ops \cup {None}, last : Ops \cup {None}]]
  BY DEF TypeOK
<1> HIDE DEF op
<1>6. /\ phase'[c] = "settling" /\ inbox'[c] = {} /\ ack'[c] = op.sequence
      /\ sequence'[c] = NextSequence(Kept, c)
      /\ journal'[c].pending = None /\ journal'[c].last = op
      /\ \A b \in Clients \ {c} :
            /\ phase'[b] = phase[b] /\ inbox'[b] = inbox[b] /\ ack'[b] = ack[b]
            /\ sequence'[b] = sequence[b] /\ journal'[b] = journal[b]
  BY <1>2, <1>5
<1>7. ASSUME NEW i \in DOMAIN versions
      PROVE  /\ HasRecord(versions[i], c)
             /\ op.sequence < NextSequence(versions[i], c)
  <2>1. op.edit \in versions[i].applied BY <1>1, <1>4, Between DEF Book
  <2>2. op \in OutcomesAt(versions[i], c, op.sequence)
    BY <1>1, <1>3, <2>1 DEF Book, OutcomeNotForgotten, op
  <2>3. versions[i] \in States /\ WellFormed(versions[i])
    BY <1>1, VersionFacts DEF Book, Tables
  <2> QED BY <2>2, <2>3, OutcomeIsPast
<1>8. Book'
  <2>1. Settles(c) BY <1>2, <1>3, <1>4, <1>6 DEF Settles, op
  <2> QED BY <1>1, <2>1, SettledBook
<1>9. Talk'
  <2>1. Requests(c) = {} /\ Owed(c) = {}
    BY <1>1, <1>2, ReplyIsAlone DEF Talk
  <2>2. Speaks(c) BY <1>2, <1>6, <2>1 DEF Speaks
  <2> QED BY <1>1, <2>2, SpeaksTalk
<1>10. AcksArePast' /\ ReadIsExpected'
  <2>1. \A e \in Live.applied : e.client = c => e \in Kept.applied
    BY <1>1, <1>4, SettledIsKept DEF Book, op
  <2>2. Acks(c)' \subseteq Acks(c) \cup {op.sequence}
    BY <1>2, <1>6 DEF Acks
  <2>3. \A a \in Acks(c)' : \A i \in DOMAIN versions : a < NextSequence(versions[i], c)
    BY <1>1, <1>7, <2>2 DEF AcksArePast
  <2>4. \A b \in Clients \ {c} : Acks(b)' = Acks(b) /\ (MayUse(b)' => MayUse(b))
    BY <1>2, <1>6 DEF Acks, MayUse
  <2> QED BY <1>1, <1>2, <1>6, <2>1, <2>3, <2>4, ReadsPast
<1>11. LateIsHarmless'
  <2> SUFFICES ASSUME NEW w \in wire, w.old
               PROVE  /\ RoomForAll /\ w.client \in Desktop
                      /\ w.kind = "mutate" =>
                           \/ w.op = journal'[w.client].pending
                           \/ \A i \in DOMAIN versions :
                                 /\ HasRecord(versions[i], w.client)
                                 /\ w.op.sequence < NextSequence(versions[i], w.client)
    BY <1>2 DEF LateIsHarmless
  <2>1. w.client \in Clients BY DEF TypeOK, Messages
  <2>2. CASE w.client = c BY <2>2, <1>1, <1>7 DEF LateIsHarmless, op
  <2>3. CASE w.client # c BY <2>1, <2>3, <1>1, <1>6 DEF LateIsHarmless
  <2> QED BY <2>2, <2>3
<1> QED BY <1>8, <1>9, <1>10, <1>11 DEF ProtocolInv, Book, Talk

(* Abandon: the client gives up an edit that was applied nowhere.          *)
LEMMA AbandonKeeps ==
    ASSUME TypeOK, ProtocolInv, NEW c \in Clients, Abandon(c)
    PROVE  ProtocolInv'
<1>1. Book /\ Talk /\ AcksArePast /\ ReadIsExpected /\ LateIsHarmless BY Parts
<1>2. PICK reply \in inbox[c] :
        /\ phase[c] = "resolving" /\ reply.verdict = "missing"
        /\ journal' = [journal EXCEPT ![c].pending = None]
        /\ abandoned' = abandoned \cup {journal[c].pending.edit}
        /\ phase' = [phase EXCEPT ![c] = "ready"]
        /\ inbox' = [inbox EXCEPT ![c] = {}]
        /\ versions' = versions /\ jobs' = jobs /\ wire' = wire
        /\ sequence' = sequence /\ ack' = ack
        /\ count' = count /\ confirmed' = confirmed
  BY DEF Abandon, serverVars
<1>3. journal[c].pending # None /\ c \in CommandLine
  BY <1>1, <1>2 DEF Talk, PhaseFits
<1>4. c \notin Desktop BY <1>3, ProtocolAssumption
<1>5. journal[c].pending.edit \notin Live.applied
  BY <1>1, <1>2 DEF Talk, MissingIsTrue
<1>6. /\ phase \in [Clients -> Phases] /\ inbox \in [Clients -> SUBSET Replies]
      /\ journal \in [Clients -> [pending : Ops \cup {None}, last : Ops \cup {None}]]
  BY DEF TypeOK
<1>7. /\ phase'[c] = "ready" /\ inbox'[c] = {}
      /\ journal'[c].pending = None /\ journal'[c].last = journal[c].last
      /\ \A b \in Clients \ {c} :
            phase'[b] = phase[b] /\ inbox'[b] = inbox[b] /\ journal'[b] = journal[b]
  BY <1>2, <1>6
<1>8. Book'
  <2>1. Settles(c) BY <1>2, <1>3, <1>5, <1>7 DEF Settles
  <2> QED BY <1>1, <2>1, SettledBook
<1>9. Talk'
  <2>1. Requests(c) = {} /\ Owed(c) = {}
    BY <1>1, <1>2, ReplyIsAlone DEF Talk
  <2>2. Speaks(c) BY <1>2, <1>7, <2>1 DEF Speaks
  <2> QED BY <1>1, <2>2, SpeaksTalk
<1>10. \A b \in Clients : journal'[b].last = journal[b].last BY <1>7
<1>11. \A b \in Clients : Acks(b)' = Acks(b) BY <1>2, <1>10 DEF Acks
<1>12. \A b \in Clients : MayUse(b)' => MayUse(b) BY <1>4, <1>7 DEF MayUse
<1>13. AcksArePast'
  <2> SUFFICES ASSUME NEW b \in Clients, NEW a \in Acks(b)'
               PROVE  /\ \A i \in DOMAIN versions' : a < NextSequence(versions'[i], b)
                      /\ journal'[b].pending # None => a < journal'[b].pending.sequence
                      /\ MayUse(b)' => a < sequence'[b]
    BY DEF AcksArePast
  <2>1. a \in Acks(b) BY <1>11
  <2>2. journal'[b].pending = None \/ journal'[b].pending = journal[b].pending
    BY <1>7
  <2> QED BY <2>1, <2>2, <1>1, <1>2, <1>12 DEF AcksArePast
<1>14. ReadIsExpected' BY <1>1, <1>2, <1>12 DEF ReadIsExpected
<1>15. LateIsHarmless'
  <2> SUFFICES ASSUME NEW w \in wire, w.old
               PROVE  /\ RoomForAll /\ w.client \in Desktop
                      /\ w.kind = "mutate" =>
                           \/ w.op = journal'[w.client].pending
                           \/ \A i \in DOMAIN versions :
                                 /\ HasRecord(versions[i], w.client)
                                 /\ w.op.sequence < NextSequence(versions[i], w.client)
    BY <1>2 DEF LateIsHarmless
  <2>1. w.client \in Clients /\ w.client # c
    BY <1>1, <1>4 DEF LateIsHarmless, TypeOK, Messages
  <2> QED BY <2>1, <1>1, <1>7 DEF LateIsHarmless
<1> QED BY <1>8, <1>9, <1>13, <1>14, <1>15 DEF ProtocolInv, Book, Talk

(* Break: what is left of the connection is gone, or comes late.           *)
LEMMA BreakKeeps ==
    ASSUME TypeOK, ProtocolInv, Orderly, NEW c \in Clients, Break(c)
    PROVE  ProtocolInv'
<1>1. Book /\ Talk /\ AcksArePast /\ ReadIsExpected /\ LateIsHarmless BY Parts
<1>2. /\ phase' = [phase EXCEPT ![c] = "offline"] /\ ack' = [ack EXCEPT ![c] = 0]
      /\ inbox' = [inbox EXCEPT ![c] = {}] /\ jobs' = {j \in jobs : j.client # c}
      /\ versions' = versions /\ journal' = journal /\ sequence' = sequence
      /\ UNCHANGED <<count, abandoned, confirmed>>
  BY DEF Break
<1>3. PICK late \in IF c \in Overlap THEN SUBSET Left(c) ELSE {{}} :
        wire' = (wire \ Left(c)) \cup {[m EXCEPT !.old = TRUE] : m \in late}
  BY DEF Break
<1>4. /\ phase \in [Clients -> Phases] /\ ack \in [Clients -> Nat]
      /\ inbox \in [Clients -> SUBSET Replies] /\ wire \subseteq Messages
  BY DEF TypeOK
<1>5. /\ phase'[c] = "offline" /\ inbox'[c] = {} /\ ack'[c] = 0
      /\ \A b \in Clients \ {c} :
            phase'[b] = phase[b] /\ inbox'[b] = inbox[b] /\ ack'[b] = ack[b]
  BY <1>2, <1>4
<1>6. ASSUME NEW w \in wire'
      PROVE  \/ w \in wire /\ (w.client # c \/ w.old)
             \/ /\ w.old /\ w.client = c /\ c \in Overlap
                /\ \E m \in wire : /\ m.client = c /\ ~m.old
                                   /\ w.kind = m.kind /\ w.op = m.op
  <2>1. CASE w \in wire \ Left(c) BY <2>1 DEF Left
  <2>2. CASE w \notin wire \ Left(c)
    <3>1. PICK m \in late : w = [m EXCEPT !.old = TRUE] BY <2>2, <1>3
    <3>2. c \in Overlap /\ m \in Left(c) BY <1>3, <3>1
    <3>3. m \in wire /\ m.client = c /\ ~m.old /\ m \in Messages
      BY <3>2, <1>4 DEF Left
    <3>4. w.old /\ w.client = c /\ w.kind = m.kind /\ w.op = m.op
      BY <3>1, <3>3 DEF Messages
    <3> QED BY <3>2, <3>3, <3>4
  <2> QED BY <2>1, <2>2
<1>7. ASSUME NEW w \in wire, w.client # c PROVE w \in wire'
  BY <1>3, <1>7 DEF Left
<1>8. Book' BY <1>1, <1>2, SameBook DEF SamePending
<1>9. OneRequest'
  <2>1. Requests(c)' = {} /\ Owed(c)' = {}
    BY <1>2, <1>6 DEF Requests, Owed
  <2>2. \A b \in Clients \ {c} : Requests(b)' = Requests(b)
    BY <1>6, <1>7 DEF Requests
  <2>3. \A b \in Clients \ {c} : Owed(b)' = Owed(b) BY <1>2 DEF Owed
  <2> SUFFICES ASSUME NEW b \in Clients
               PROVE  /\ \A w, x \in Requests(b)' : w = x
                      /\ \A j, h \in Owed(b)' : j = h
                      /\ Requests(b)' # {} => Owed(b)' = {} /\ inbox'[b] = {}
                      /\ Owed(b)' # {} => inbox'[b] = {}
                      /\ phase'[b] \in {"offline", "settling", "ready"} =>
                            Requests(b)' = {} /\ Owed(b)' = {} /\ inbox'[b] = {}
    BY DEF OneRequest
  <2>4. CASE b = c BY <2>4, <2>1, <1>5
  <2>5. CASE b # c BY <2>5, <2>2, <2>3, <1>1, <1>5 DEF Talk, OneRequest
  <2> QED BY <2>4, <2>5
<1>10. PhaseFits'
  <2>1. \A b \in Clients :
          /\ phase'[b] \in {"ready", "confirming"} => journal'[b].pending = None
          /\ phase'[b] \in {"mutating", "resolving"} => journal'[b].pending # None
          /\ phase'[b] \in {"resolving", "confirming"} => b \in CommandLine
    BY <1>1, <1>2, <1>5 DEF Talk, PhaseFits
  <2>2. ASSUME NEW w \in wire'
        PROVE  /\ w.kind = "resolve" => w.client \in CommandLine
               /\ w.kind = "mutate" => w.op \in Ops
               /\ ~w.old /\ w.kind = "mutate" =>
                    phase'[w.client] = "mutating" /\ w.op = journal'[w.client].pending
               /\ ~w.old /\ w.kind = "resolve" /\ phase'[w.client] = "resolving" =>
                    w.op = journal'[w.client].pending
    <3>1. CASE w \in wire /\ (w.client # c \/ w.old)
      <4>1. w.client \in Clients BY <3>1, <1>4 DEF Messages
      <4> QED BY <3>1, <4>1, <1>1, <1>2, <1>5 DEF Talk, PhaseFits
    <3>2. CASE ~(w \in wire /\ (w.client # c \/ w.old))
      <4>1. PICK m \in wire : /\ m.client = c /\ ~m.old
                              /\ w.kind = m.kind /\ w.op = m.op
        BY <3>2, <1>6
      <4>2. w.old /\ w.client = c BY <3>2, <1>6
      <4>3. /\ m.kind = "resolve" => m.client \in CommandLine
            /\ m.kind = "mutate" => m.op \in Ops
        BY <1>1 DEF Talk, PhaseFits
      <4> QED BY <4>1, <4>2, <4>3
    <3> QED BY <3>1, <3>2
  <2> QED BY <2>1, <2>2 DEF PhaseFits
<1>11. RepliesAreKept'
  BY <1>1, <1>2, <1>5 DEF Talk, RepliesAreKept, Kept
<1>12. MissingIsTrue' BY <1>1, <1>2, <1>5 DEF Talk, MissingIsTrue, Live
<1>13. LateIsHarmless'
  <2> SUFFICES ASSUME NEW w \in wire', w.old
               PROVE  /\ RoomForAll /\ w.client \in Desktop
                      /\ w.kind = "mutate" =>
                           \/ w.op = journal[w.client].pending
                           \/ \A i \in DOMAIN versions :
                                 /\ HasRecord(versions[i], w.client)
                                 /\ w.op.sequence < NextSequence(versions[i], w.client)
    BY <1>2 DEF LateIsHarmless
  <2>1. CASE w \in wire BY <2>1, <1>1 DEF LateIsHarmless
  <2>2. CASE w \notin wire
    <3>1. PICK m \in wire : /\ m.client = c /\ ~m.old
                            /\ w.kind = m.kind /\ w.op = m.op
      BY <2>2, <1>6
    <3>2. w.client = c /\ c \in Overlap BY <2>2, <1>6
    <3>3. RoomForAll BY <3>2 DEF Orderly
    <3>4. c \in Desktop BY <3>2, <3>3 DEF RoomForAll
    <3>5. m.kind = "mutate" => m.op = journal[c].pending
      BY <1>1, <3>1 DEF Talk, PhaseFits
    <3> QED BY <3>1, <3>2, <3>3, <3>4, <3>5
  <2> QED BY <2>1, <2>2
<1>14. \A b \in Clients : Acks(b)' \subseteq Acks(b) \cup {0}
  <2> SUFFICES ASSUME NEW b \in Clients, NEW a \in Acks(b)'
               PROVE  a \in Acks(b) \cup {0}
    OBVIOUS
  <2>1. CASE a = ack'[b] \/ a = journal'[b].last.sequence
    <3>1. ack'[b] = ack[b] \/ ack'[b] = 0 BY <1>5
    <3> QED BY <2>1, <3>1, <1>2 DEF Acks
  <2>2. CASE \E w \in wire' : w.client = b /\ w.kind = "ack" /\ a = w.op.sequence
    <3>1. PICK w \in wire' : w.client = b /\ w.kind = "ack" /\ a = w.op.sequence
      BY <2>2
    <3>2. PICK m \in wire : m.client = b /\ m.kind = "ack" /\ m.op = w.op
      BY <3>1, <1>6
    <3> QED BY <3>1, <3>2 DEF Acks
  <2> QED BY <2>1, <2>2 DEF Acks
<1>15. \A b \in Clients : MayUse(b)' => MayUse(b) /\ sequence'[b] = sequence[b]
  BY <1>2, <1>5 DEF MayUse
<1>16. AcksArePast' /\ ReadIsExpected'
  BY <1>1, <1>2, <1>14, <1>15, PastShrinks DEF NoNewVersion, SamePending, Book
<1> QED BY <1>8, <1>9, <1>10, <1>11, <1>12, <1>13, <1>16 DEF ProtocolInv, Book

-----------------------------------------------------------------------------
(* The steps of the server.                                                *)

(* The outcome is replied.                                                 *)
LEMMA DeliverKeeps ==
    ASSUME TypeOK, ProtocolInv, NEW j \in jobs, Deliver(j)
    PROVE  ProtocolInv'
<1>1. Book /\ Talk /\ AcksArePast /\ ReadIsExpected /\ LateIsHarmless BY Parts
<1> DEFINE c == j.client
           r == [verdict |-> "outcome", op |-> j.op]
<1>2. /\ j.at = 1 /\ jobs' = jobs \ {j} /\ inbox' = [inbox EXCEPT ![c] = {r}]
      /\ versions' = versions /\ wire' = wire /\ UNCHANGED clientVars
  BY DEF Deliver
<1>3. j \in [client : Clients, op : Ops, at : Nat \ {0}] BY DEF TypeOK
<1>4. c \in Clients /\ j.op \in Ops BY <1>3
<1>5. /\ journal' = journal /\ phase' = phase /\ sequence' = sequence /\ ack' = ack
      /\ count' = count /\ abandoned' = abandoned /\ confirmed' = confirmed
  BY <1>2 DEF clientVars
<1>6. inbox \in [Clients -> SUBSET Replies] BY DEF TypeOK
<1>7. r.verdict = "outcome" /\ r.op = j.op OBVIOUS
<1> HIDE DEF r
<1>8. inbox'[c] = {r} /\ \A b \in Clients \ {c} : inbox'[b] = inbox[b]
  BY <1>2, <1>4, <1>6
<1>9. Book' BY <1>1, <1>2, <1>5, SameBook DEF SamePending
<1>10. j \in Owed(c) BY DEF Owed
<1>11. Owed(c)' = {} BY <1>1, <1>2, <1>4, <1>10 DEF Talk, OneRequest, Owed
<1>12. \A b \in Clients \ {c} : Owed(b)' = Owed(b) BY <1>2 DEF Owed
<1>13. \A b \in Clients : Requests(b)' = Requests(b) BY <1>2 DEF Requests
<1>14. /\ Requests(c) = {} /\ phase[c] \notin {"offline", "settling", "ready"}
  BY <1>1, <1>4, <1>10 DEF Talk, OneRequest
<1>15. OneRequest'
  <2> SUFFICES ASSUME NEW b \in Clients
               PROVE  /\ \A w, x \in Requests(b)' : w = x
                      /\ \A k, h \in Owed(b)' : k = h
                      /\ Requests(b)' # {} => Owed(b)' = {} /\ inbox'[b] = {}
                      /\ Owed(b)' # {} => inbox'[b] = {}
                      /\ phase'[b] \in {"offline", "settling", "ready"} =>
                            Requests(b)' = {} /\ Owed(b)' = {} /\ inbox'[b] = {}
    BY DEF OneRequest
  <2>1. CASE b = c BY <2>1, <1>4, <1>5, <1>11, <1>13, <1>14
  <2>2. CASE b # c BY <2>2, <1>1, <1>5, <1>8, <1>12, <1>13 DEF Talk, OneRequest
  <2> QED BY <2>1, <2>2
<1>16. PhaseFits' BY <1>1, <1>2, <1>5 DEF Talk, PhaseFits
<1>17. RepliesAreKept'
  <2>1. j.op.edit \in Kept.applied
    <3>1. j.op.edit \in versions[1].applied
      BY <1>1, <1>2 DEF Talk, RepliesAreKept
    <3> QED BY <3>1, VersionFacts
  <2>2. \A k \in jobs' : k \in jobs BY <1>2
  <2> QED BY <1>1, <1>2, <1>4, <1>7, <1>8, <2>1, <2>2 DEF Talk, RepliesAreKept, Kept
<1>18. MissingIsTrue'
  BY <1>1, <1>2, <1>5, <1>7, <1>8 DEF Talk, MissingIsTrue, Live
<1>19. AcksArePast' /\ ReadIsExpected'
  BY <1>1, <1>2, <1>5 DEF AcksArePast, ReadIsExpected, Acks, MayUse
<1>20. LateIsHarmless' BY <1>1, <1>2, <1>5 DEF LateIsHarmless
<1> QED BY <1>9, <1>15, <1>16, <1>17, <1>18, <1>19, <1>20 DEF ProtocolInv, Book

(* The server goes on from one of its versions alone.                      *)
LEMMA SingleVersion ==
    ASSUME TypeOK, NEW i \in DOMAIN versions, versions' = <<versions[i]>>
    PROVE  /\ Picked([h \in DOMAIN versions' |-> i])
           /\ DOMAIN versions' = {1} /\ versions'[1] = versions[i]
<1>1. versions[i] \in States BY VersionFacts
<1>2. /\ versions' \in Seq(States) /\ versions' # <<>> /\ DOMAIN versions' = {1}
      /\ versions'[1] = versions[i]
  BY <1>1
<1>3. i \in Nat BY VersionFacts
<1> QED BY <1>2, <1>3 DEF Picked

(* LoseWrite: replies that waited for a later version are refused.         *)
LEMMA LoseWriteKeeps ==
    ASSUME TypeOK, ProtocolInv, LoseWrite
    PROVE  ProtocolInv'
<1>1. Book /\ Talk /\ AcksArePast /\ ReadIsExpected /\ LateIsHarmless BY Parts
<1>2. PICK i \in DOMAIN versions :
        /\ versions' = <<versions[i]>> /\ jobs' = {j \in jobs : j.at = 1}
        /\ inbox' = [c \in Clients |->
              IF \E j \in jobs : j.client = c /\ j.at # 1
              THEN {[verdict |-> "refused", op |-> None]} ELSE inbox[c]]
        /\ wire' = wire /\ UNCHANGED clientVars
  BY DEF LoseWrite
<1>3. /\ journal' = journal /\ phase' = phase /\ sequence' = sequence /\ ack' = ack
      /\ count' = count /\ abandoned' = abandoned /\ confirmed' = confirmed
  BY <1>2 DEF clientVars
<1>4. /\ Picked([h \in DOMAIN versions' |-> i])
      /\ DOMAIN versions' = {1} /\ versions'[1] = versions[i]
  BY <1>2, SingleVersion
<1>5. /\ Book' /\ Live'.applied \subseteq Live.applied
      /\ Kept.applied \subseteq Kept'.applied
  BY <1>1, <1>3, <1>4, PickKeeps
<1>6. NoNewVersion BY <1>4 DEF NoNewVersion
<1>7. \A c \in Clients :
        \/ /\ \E j \in Owed(c) : j.at # 1
           /\ \A r \in inbox'[c] : r.verdict = "refused"
        \/ inbox'[c] = inbox[c]
  BY <1>2 DEF Owed
<1>8. \A c \in Clients : Owed(c)' = {j \in Owed(c) : j.at = 1} BY <1>2 DEF Owed
<1>9. \A c \in Clients : Requests(c)' = Requests(c) BY <1>2 DEF Requests
<1>10. OneRequest'
  <2> SUFFICES ASSUME NEW b \in Clients
               PROVE  /\ \A w, x \in Requests(b)' : w = x
                      /\ \A k, h \in Owed(b)' : k = h
                      /\ Requests(b)' # {} => Owed(b)' = {} /\ inbox'[b] = {}
                      /\ Owed(b)' # {} => inbox'[b] = {}
                      /\ phase'[b] \in {"offline", "settling", "ready"} =>
                            Requests(b)' = {} /\ Owed(b)' = {} /\ inbox'[b] = {}
    BY DEF OneRequest
  <2>1. /\ \A w, x \in Requests(b) : w = x
        /\ \A k, h \in Owed(b) : k = h
        /\ Requests(b) # {} => Owed(b) = {} /\ inbox[b] = {}
        /\ Owed(b) # {} => inbox[b] = {}
        /\ phase[b] \in {"offline", "settling", "ready"} =>
              Requests(b) = {} /\ Owed(b) = {} /\ inbox[b] = {}
    BY <1>1 DEF Talk, OneRequest
  <2>2. CASE \E j \in Owed(b) : j.at # 1
    <3>1. Owed(b)' = {} /\ Requests(b) = {} BY <2>1, <2>2, <1>8
    <3> QED BY <2>1, <2>2, <3>1, <1>3, <1>9
  <2>3. CASE inbox'[b] = inbox[b] BY <2>1, <2>3, <1>3, <1>8, <1>9
  <2> QED BY <2>2, <2>3, <1>7
<1>11. PhaseFits' BY <1>1, <1>2, <1>3 DEF Talk, PhaseFits
<1>12. RepliesAreKept'
  <2>1. ASSUME NEW j \in jobs'
        PROVE  j.at \in DOMAIN versions' /\ j.op.edit \in versions'[j.at].applied
    <3>1. j \in jobs /\ j.at = 1 BY <1>2
    <3>2. j.op.edit \in versions[1].applied BY <3>1, <1>1 DEF Talk, RepliesAreKept
    <3>3. Kept = versions[1] BY VersionFacts
    <3>4. j.op.edit \in versions[i].applied BY <3>2, <3>3, <1>1, Between DEF Book
    <3> QED BY <3>1, <3>4, <1>4
  <2>2. ASSUME NEW c \in Clients, NEW r \in inbox'[c], r.verdict = "outcome"
        PROVE  r.op \in Ops /\ r.op.edit \in Kept'.applied
    <3>1. r \in inbox[c] BY <2>2, <1>7
    <3> QED BY <2>2, <3>1, <1>1, <1>5 DEF Talk, RepliesAreKept
  <2> QED BY <2>1, <2>2 DEF RepliesAreKept
<1>13. MissingIsTrue'
  BY <1>1, <1>3, <1>5, <1>7 DEF Talk, MissingIsTrue
<1>14. AcksArePast' /\ ReadIsExpected'
  <2>1. \A c \in Clients : Acks(c)' = Acks(c) BY <1>2, <1>3 DEF Acks
  <2>2. \A c \in Clients : MayUse(c)' => MayUse(c) /\ sequence'[c] = sequence[c]
    BY <1>3 DEF MayUse
  <2> QED BY <1>1, <1>3, <1>6, <2>1, <2>2, PastShrinks DEF SamePending, Book
<1>15. LateIsHarmless' BY <1>1, <1>2, <1>3, <1>6, LateKeeps DEF SamePending
<1> QED BY <1>5, <1>10, <1>11, <1>12, <1>13, <1>14, <1>15 DEF ProtocolInv, Book

(* Crash: only what is recorded is left.                                   *)
LEMMA CrashKeeps ==
    ASSUME TypeOK, ProtocolInv, Crash
    PROVE  ProtocolInv'
<1>1. Book /\ Talk /\ AcksArePast /\ ReadIsExpected /\ LateIsHarmless BY Parts
<1>2. PICK i \in DOMAIN versions :
        /\ versions' = <<versions[i]>> /\ jobs' = {} /\ wire' = {}
        /\ inbox' = [c \in Clients |-> {}] /\ phase' = [c \in Clients |-> "offline"]
        /\ ack' = [c \in Clients |-> 0]
        /\ UNCHANGED <<journal, sequence, count, abandoned, confirmed>>
  BY DEF Crash
<1>3. /\ Picked([h \in DOMAIN versions' |-> i])
      /\ DOMAIN versions' = {1} /\ versions'[1] = versions[i]
  BY <1>2, SingleVersion
<1>4. Book' BY <1>1, <1>2, <1>3, PickKeeps
<1>5. NoNewVersion BY <1>3 DEF NoNewVersion
<1>6. \A c \in Clients : inbox'[c] = {} /\ phase'[c] = "offline" /\ ack'[c] = 0
  BY <1>2
<1>7. OneRequest' BY <1>2, <1>6 DEF OneRequest, Requests, Owed
<1>8. PhaseFits' BY <1>2, <1>6 DEF PhaseFits
<1>9. RepliesAreKept' /\ MissingIsTrue'
  BY <1>2, <1>6 DEF RepliesAreKept, MissingIsTrue
<1>10. LateIsHarmless' BY <1>2 DEF LateIsHarmless
<1>11. AcksArePast' /\ ReadIsExpected'
  <2>1. \A c \in Clients : Acks(c)' \subseteq Acks(c) \cup {0}
    BY <1>2, <1>6 DEF Acks
  <2>2. \A c \in Clients : ~MayUse(c)' BY <1>6 DEF MayUse
  <2> QED BY <1>1, <1>2, <1>5, <2>1, <2>2, PastShrinks DEF SamePending, Book
<1> QED BY <1>4, <1>7, <1>8, <1>9, <1>10, <1>11 DEF ProtocolInv, Book

(* Keep: replies move with the versions they wait for.                     *)
LEMMA KeepKeeps ==
    ASSUME TypeOK, ProtocolInv, Keep
    PROVE  ProtocolInv'
<1>1. Book /\ Talk /\ AcksArePast /\ ReadIsExpected /\ LateIsHarmless BY Parts
<1> DEFINE Moved(j, i) == [j EXCEPT !.at = IF @ > i THEN @ - i + 1 ELSE 1]
<1>2. PICK i \in 2..Len(versions) :
        /\ versions' = SubSeq(versions, i, Len(versions))
        /\ jobs' = {Moved(j, i) : j \in jobs}
        /\ wire' = wire /\ inbox' = inbox /\ UNCHANGED clientVars
  BY DEF Keep
<1> DEFINE N == Len(versions)
           f == [h \in 1..(N - i + 1) |-> h + i - 1]
<1>3. /\ versions \in Seq(States) /\ N \in Nat \ {0} /\ DOMAIN versions = 1..N
      /\ i \in Nat /\ 2 <= i /\ i <= N
  BY VersionFacts DEF TypeOK
<1>4. /\ versions' \in Seq(States) /\ Len(versions') = N - i + 1
      /\ DOMAIN versions' = 1..(N - i + 1)
      /\ \A h \in 1..(N - i + 1) : versions'[h] = versions[h + i - 1]
  BY <1>2, <1>3
<1>5. versions' # <<>>
  <2>1. Len(versions') # 0 BY <1>3, <1>4
  <2> QED BY <2>1
<1>6. Picked(f)
  <2>1. f \in [DOMAIN versions' -> DOMAIN versions] BY <1>3, <1>4
  <2>2. \A h \in DOMAIN versions' : versions'[h] = versions[f[h]] BY <1>4
  <2>3. \A g, h \in DOMAIN versions' : g <= h => f[g] <= f[h] BY <1>3, <1>4
  <2> QED BY <1>4, <1>5, <2>1, <2>2, <2>3 DEF Picked
<1> HIDE DEF f
<1>7. /\ journal' = journal /\ phase' = phase /\ sequence' = sequence /\ ack' = ack
      /\ count' = count /\ abandoned' = abandoned /\ confirmed' = confirmed
  BY <1>2 DEF clientVars
<1>8. /\ Book' /\ Live'.applied \subseteq Live.applied
      /\ Kept.applied \subseteq Kept'.applied
  BY <1>1, <1>6, <1>7, PickKeeps
<1>9. NoNewVersion BY <1>6 DEF NoNewVersion, Picked
<1>10. ASSUME NEW j \in jobs
       PROVE  /\ Moved(j, i).client = j.client /\ Moved(j, i).op = j.op
              /\ Moved(j, i).at = IF j.at > i THEN j.at - i + 1 ELSE 1
              /\ j.at \in Nat
  <2>1. j \in [client : Clients, op : Ops, at : Nat \ {0}] BY DEF TypeOK
  <2> QED BY <2>1
<1> HIDE DEF Moved
<1>11. \A c \in Clients : Owed(c)' = {Moved(j, i) : j \in Owed(c)}
  BY <1>2, <1>10 DEF Owed
<1>12. \A c \in Clients : Requests(c)' = Requests(c) BY <1>2 DEF Requests
<1>13. OneRequest'
  <2> SUFFICES ASSUME NEW b \in Clients
               PROVE  /\ \A w, x \in Requests(b)' : w = x
                      /\ \A k, h \in Owed(b)' : k = h
                      /\ Requests(b)' # {} => Owed(b)' = {} /\ inbox'[b] = {}
                      /\ Owed(b)' # {} => inbox'[b] = {}
                      /\ phase'[b] \in {"offline", "settling", "ready"} =>
                            Requests(b)' = {} /\ Owed(b)' = {} /\ inbox'[b] = {}
    BY DEF OneRequest
  <2>1. /\ \A w, x \in Requests(b) : w = x
        /\ \A k, h \in Owed(b) : k = h
        /\ Requests(b) # {} => Owed(b) = {} /\ inbox[b] = {}
        /\ Owed(b) # {} => inbox[b] = {}
        /\ phase[b] \in {"offline", "settling", "ready"} =>
              Requests(b) = {} /\ Owed(b) = {} /\ inbox[b] = {}
    BY <1>1 DEF Talk, OneRequest
  <2>2. /\ \A k, h \in Owed(b)' : k = h
        /\ Owed(b)' = {} <=> Owed(b) = {}
    BY <2>1, <1>11
  <2> QED BY <2>1, <2>2, <1>2, <1>7, <1>12
<1>14. PhaseFits' BY <1>1, <1>2, <1>7 DEF Talk, PhaseFits
<1>15. RepliesAreKept'
  <2>1. ASSUME NEW k \in jobs'
        PROVE  k.at \in DOMAIN versions' /\ k.op.edit \in versions'[k.at].applied
    <3>1. PICK j \in jobs : k = Moved(j, i) BY <1>2
    <3>2. k.op = j.op /\ k.at = (IF j.at > i THEN j.at - i + 1 ELSE 1) /\ j.at \in Nat
      BY <3>1, <1>10
    <3>3. j.at \in 1..N /\ j.op.edit \in versions[j.at].applied
      BY <1>1, <1>3 DEF Talk, RepliesAreKept
    <3>4. CASE j.at > i
      <4>1. k.at = j.at - i + 1 BY <3>2, <3>4
      <4>2. k.at \in 1..(N - i + 1) /\ k.at + i - 1 = j.at
        <5>1. \A a, n, h \in Nat : (a > h /\ a <= n) =>
                a - h + 1 \in 1..(n - h + 1) /\ a - h + 1 + h - 1 = a
          OBVIOUS
        <5>2. j.at > i /\ j.at <= N /\ j.at \in Nat /\ N \in Nat /\ i \in Nat
          BY <3>3, <3>4, <1>3
        <5> HIDE DEF N
        <5> QED BY <4>1, <5>1, <5>2
      <4> QED BY <4>2, <3>2, <3>3, <1>4
    <3>5. CASE ~(j.at > i)
      <4>1. k.at = 1 /\ j.at <= i BY <3>2, <3>5, <1>3
      <4>2. 1 \in 1..(N - i + 1) /\ 1 + i - 1 = i /\ i \in 1..N BY <1>3
      <4>3. versions'[1] = versions[i] BY <4>2, <1>4
      <4>4. versions[j.at].applied \subseteq versions[i].applied
        BY <4>1, <4>2, <3>3, <1>1, <1>3 DEF Book, VersionsGrow
      <4> QED BY <4>1, <4>2, <4>3, <4>4, <3>2, <3>3, <1>4
    <3> QED BY <3>4, <3>5
  <2> QED BY <2>1, <1>1, <1>2, <1>8 DEF Talk, RepliesAreKept
<1>16. MissingIsTrue' BY <1>1, <1>2, <1>7, <1>8 DEF Talk, MissingIsTrue
<1>17. AcksArePast' /\ ReadIsExpected'
  <2>1. \A c \in Clients : Acks(c)' = Acks(c) BY <1>2, <1>7 DEF Acks
  <2>2. \A c \in Clients : MayUse(c)' => MayUse(c) /\ sequence'[c] = sequence[c]
    BY <1>7 DEF MayUse
  <2> QED BY <1>1, <1>7, <1>9, <2>1, <2>2, PastShrinks DEF SamePending, Book
<1>18. LateIsHarmless' BY <1>1, <1>2, <1>7, <1>9, LateKeeps DEF SamePending
<1> QED BY <1>8, <1>13, <1>14, <1>15, <1>16, <1>17, <1>18 DEF ProtocolInv, Book

(* The server takes a request off its connection, and answers it there or  *)
(* owes an answer.                                                         *)
Handles(m) ==
    /\ wire' = wire \ {m} /\ UNCHANGED clientVars
    /\ m.old => jobs' = jobs /\ inbox' = inbox
    /\ ~m.old => \/ jobs' = jobs /\ \E r : inbox' = [inbox EXCEPT ![m.client] = {r}]
                 \/ inbox' = inbox /\ \E j : j.client = m.client /\ jobs' = jobs \cup {j}

(* Then its client still waits for one request at a time.                  *)
LEMMA HandlesTalk ==
    ASSUME TypeOK, OneRequest, PhaseFits, NEW m \in wire, m.kind # "ack", Handles(m)
    PROVE  OneRequest' /\ PhaseFits'
<1> DEFINE c == m.client
<1>1. /\ wire' = wire \ {m} /\ journal' = journal /\ phase' = phase
  BY DEF Handles, clientVars
<1>2. c \in Clients BY DEF TypeOK, Messages
<1>3. PhaseFits' BY <1>1 DEF PhaseFits
<1>4. CASE m.old
  <2>1. \A b \in Clients : Requests(b)' = Requests(b) BY <1>1, <1>4 DEF Requests
  <2>2. jobs' = jobs /\ inbox' = inbox BY <1>4 DEF Handles
  <2>3. \A b \in Clients : Owed(b)' = Owed(b) BY <2>2 DEF Owed
  <2>4. OneRequest' BY <1>1, <2>1, <2>2, <2>3 DEF OneRequest
  <2> QED BY <1>3, <2>4
<1>5. CASE ~m.old
  <2>1. m \in Requests(c) BY <1>5 DEF Requests
  <2>2. Requests(c)' = {} BY <1>1, <1>2, <2>1 DEF OneRequest, Requests
  <2>3. \A b \in Clients \ {c} : Requests(b)' = Requests(b) BY <1>1 DEF Requests
  <2>4. /\ Owed(c) = {} /\ inbox[c] = {}
        /\ phase[c] \notin {"offline", "settling", "ready"}
    BY <1>2, <2>1 DEF OneRequest
  <2>5. inbox \in [Clients -> SUBSET Replies] BY DEF TypeOK
  <2>6. \A b \in Clients \ {c} : Owed(b)' = Owed(b) /\ inbox'[b] = inbox[b]
    BY <1>5, <2>5 DEF Handles, Owed
  <2>7. /\ \A k, h \in Owed(c)' : k = h
        /\ Owed(c)' # {} => inbox'[c] = {}
    <3>1. CASE jobs' = jobs
      <4>1. Owed(c)' = {} BY <3>1, <2>4 DEF Owed
      <4> QED BY <4>1
    <3>2. CASE inbox' = inbox /\ \E j : j.client = c /\ jobs' = jobs \cup {j}
      <4>1. PICK j : j.client = c /\ jobs' = jobs \cup {j} BY <3>2
      <4>2. Owed(c)' = {j} BY <4>1, <2>4 DEF Owed
      <4> QED BY <3>2, <4>2, <2>4
    <3> QED BY <3>1, <3>2, <1>5 DEF Handles
  <2>8. OneRequest'
    <3> SUFFICES ASSUME NEW b \in Clients
                 PROVE  /\ \A w, x \in Requests(b)' : w = x
                        /\ \A k, h \in Owed(b)' : k = h
                        /\ Requests(b)' # {} => Owed(b)' = {} /\ inbox'[b] = {}
                        /\ Owed(b)' # {} => inbox'[b] = {}
                        /\ phase'[b] \in {"offline", "settling", "ready"} =>
                              Requests(b)' = {} /\ Owed(b)' = {} /\ inbox'[b] = {}
      BY DEF OneRequest
    <3>1. CASE b = c BY <3>1, <1>1, <2>2, <2>4, <2>7
    <3>2. CASE b # c BY <3>2, <1>1, <2>3, <2>6 DEF OneRequest
    <3> QED BY <3>1, <3>2
  <2> QED BY <1>3, <2>8
<1> QED BY <1>4, <1>5

(* Without a new version, the rest depends on what is answered.            *)
LEMMA AnswerKeeps ==
    ASSUME TypeOK, ProtocolInv, NEW m \in wire, m.kind # "ack", Handles(m),
           versions' = versions,
           \A j \in jobs' : j \in jobs \/ ( /\ j.at \in DOMAIN versions
                                            /\ j.op.edit \in versions[j.at].applied ),
           \A c \in Clients : \A r \in inbox'[c] : r \in inbox[c] \/
              ( /\ r.verdict # "outcome"
                /\ (phase[c] = "resolving" /\ r.verdict = "missing")
                      => journal[c].pending.edit \notin Live.applied )
    PROVE  ProtocolInv'
<1>1. Book /\ Talk /\ AcksArePast /\ ReadIsExpected /\ LateIsHarmless BY Parts
<1>2. /\ wire' = wire \ {m}
      /\ journal' = journal /\ phase' = phase /\ sequence' = sequence /\ ack' = ack
      /\ count' = count /\ abandoned' = abandoned /\ confirmed' = confirmed
  BY DEF Handles, clientVars
<1>3. OneRequest' /\ PhaseFits' BY <1>1, HandlesTalk DEF Talk
<1>4. Book' BY <1>1, <1>2, SameBook DEF SamePending
<1>5. Live' = Live /\ Kept' = Kept BY DEF Live, Kept
<1>6. RepliesAreKept' BY <1>1, <1>5 DEF Talk, RepliesAreKept
<1>7. MissingIsTrue' BY <1>1, <1>2, <1>5 DEF Talk, MissingIsTrue
<1>8. NoNewVersion /\ SamePending BY <1>2 DEF NoNewVersion, SamePending
<1>9. AcksArePast' /\ ReadIsExpected'
  <2>1. \A c \in Clients : Acks(c)' \subseteq Acks(c) BY <1>2 DEF Acks
  <2>2. \A c \in Clients : MayUse(c)' => MayUse(c) /\ sequence'[c] = sequence[c]
    BY <1>2 DEF MayUse
  <2> QED BY <1>1, <1>8, <2>1, <2>2, PastShrinks DEF Book
<1>10. LateIsHarmless' BY <1>1, <1>2, <1>8, LateKeeps
<1> QED BY <1>3, <1>4, <1>6, <1>7, <1>9, <1>10 DEF ProtocolInv, Book

(* An owed outcome is one the live version records.                        *)
LEMMA OwedIsApplied ==
    ASSUME TypeOK, Book, NEW c \in Clients, NEW n, NEW o \in OutcomesAt(Live, c, n)
    PROVE  /\ Len(versions) \in DOMAIN versions
           /\ o \in Ops /\ o.edit \in versions[Len(versions)].applied
<1>1. /\ Len(versions) \in DOMAIN versions /\ Live = versions[Len(versions)]
      /\ Live \in States
  BY VersionFacts
<1>2. WellFormed(Live) /\ Truthful(Live) BY <1>1 DEF Book, Tables
<1>3. o \in ToSet(PendingOf(Live, c)) BY DEF OutcomesAt
<1>4. o.edit \in Live.applied BY <1>2, <1>3 DEF Truthful
<1>5. o \in Ops BY <1>1, <1>2, OutcomeIsPast
<1> QED BY <1>1, <1>4, <1>5

(* Resolve: an absent outcome was applied nowhere.                         *)
LEMMA ResolveKeeps ==
    ASSUME TypeOK, ProtocolInv, NEW m \in wire, Resolve(m)
    PROVE  ProtocolInv'
<1>1. Book /\ Talk /\ AcksArePast /\ ReadIsExpected /\ LateIsHarmless BY Parts
<1> DEFINE c == m.client
           old == OutcomesAt(Live, c, m.op.sequence)
<1>2. /\ m.kind = "resolve" /\ wire' = wire \ {m} /\ versions' = versions
      /\ UNCHANGED clientVars
  BY DEF Resolve
<1>3. c \in Clients BY DEF TypeOK, Messages
<1>4. inbox \in [Clients -> SUBSET Replies] BY DEF TypeOK
<1>5. CASE old = {}
  <2> DEFINE r == [verdict |-> "missing", op |-> m.op]
  <2>1. jobs' = jobs /\ inbox' = IF m.old THEN inbox ELSE [inbox EXCEPT ![c] = {r}]
    BY <1>5 DEF Resolve, Answer
  <2>2. r.verdict = "missing" OBVIOUS
  <2> HIDE DEF r
  <2>3. Handles(m) BY <1>2, <2>1 DEF Handles
  <2>4. ASSUME ~m.old, phase[c] = "resolving"
        PROVE  journal[c].pending.edit \notin Live.applied
    <3>1. m.op = journal[c].pending BY <2>4, <1>1, <1>2 DEF Talk, PhaseFits
    <3>2. journal[c].pending # None BY <2>4, <1>1, <1>3 DEF Talk, PhaseFits
    <3>3. Len(versions) \in DOMAIN versions /\ Live = versions[Len(versions)]
      BY VersionFacts
    <3> QED BY <3>1, <3>2, <3>3, <1>1, <1>3, <1>5 DEF Book, OutcomeNotForgotten
  <2>5. ASSUME NEW b \in Clients, NEW x \in inbox'[b]
        PROVE  x \in inbox[b] \/
                 ( /\ x.verdict # "outcome"
                   /\ (phase[b] = "resolving" /\ x.verdict = "missing")
                         => journal[b].pending.edit \notin Live.applied )
    <3>1. x \in inbox[b] \/ (~m.old /\ b = c /\ x = r) BY <2>1, <1>3, <1>4
    <3> QED BY <3>1, <2>2, <2>4
  <2> QED BY <1>2, <2>1, <2>3, <2>5, AnswerKeeps
<1>6. CASE old # {}
  <2>1. PICK o \in old : Owe(m, o, Len(versions)) BY <1>6 DEF Resolve
  <2>2. inbox' = inbox BY <1>6 DEF Resolve
  <2> DEFINE k == [client |-> c, op |-> o, at |-> Len(versions)]
  <2>3. jobs' = IF m.old THEN jobs ELSE jobs \cup {k} BY <2>1 DEF Owe
  <2>4. k.client = c /\ k.op = o /\ k.at = Len(versions) OBVIOUS
  <2> HIDE DEF k
  <2>5. Handles(m) BY <1>2, <2>2, <2>3, <2>4 DEF Handles
  <2>6. k.at \in DOMAIN versions /\ k.op.edit \in versions[k.at].applied
    BY <1>1, <1>3, <2>4, OwedIsApplied
  <2> QED BY <1>2, <2>2, <2>3, <2>5, <2>6, AnswerKeeps
<1> QED BY <1>5, <1>6

(* Acknowledge: outcomes before the pending edit are retired.              *)
LEMMA AcknowledgeKeeps ==
    ASSUME TypeOK, ProtocolInv, NEW m \in wire, Acknowledge(m)
    PROVE  ProtocolInv'
<1>1. Book /\ Talk /\ AcksArePast /\ ReadIsExpected /\ LateIsHarmless BY Parts
<1> DEFINE c == m.client
           n == m.op.sequence
           t == Acknowledged(Live, c, n)
<1>2. /\ m.kind = "ack" /\ wire' = wire \ {m} /\ jobs' = jobs /\ inbox' = inbox
      /\ versions' = IF t = Live THEN versions ELSE Append(versions, t)
      /\ UNCHANGED clientVars
  BY DEF Acknowledge
<1>3. /\ journal' = journal /\ phase' = phase /\ sequence' = sequence /\ ack' = ack
      /\ count' = count /\ abandoned' = abandoned /\ confirmed' = confirmed
  BY <1>2 DEF clientVars
<1>4. c \in Clients /\ n \in Nat BY DEF TypeOK, Messages, Sent
<1>5. /\ Live \in States /\ Len(versions) \in DOMAIN versions
      /\ Live = versions[Len(versions)]
  BY VersionFacts
<1>6. WellFormed(Live) BY <1>1, <1>5 DEF Book, Tables
<1>7. t \in States /\ WellFormed(t) /\ Retires(Live, t, c, n)
  BY <1>4, <1>5, <1>6, AcknowledgedTable
<1>8. \A b \in Clients : Requests(b)' = Requests(b) /\ Owed(b)' = Owed(b)
  BY <1>2 DEF Requests, Owed
<1>9. OneRequest' BY <1>1, <1>2, <1>3, <1>8 DEF Talk, OneRequest
<1>10. PhaseFits' BY <1>1, <1>2, <1>3 DEF Talk, PhaseFits
<1> HIDE DEF t
<1>11. CASE t = Live
  <2>1. versions' = versions BY <1>2, <1>11
  <2>2. Book' BY <1>1, <1>3, <2>1, SameBook DEF SamePending
  <2>3. RepliesAreKept' /\ MissingIsTrue'
    BY <1>1, <1>2, <1>3, <2>1 DEF Talk, RepliesAreKept, MissingIsTrue, Kept, Live
  <2>4. NoNewVersion /\ SamePending BY <1>3, <2>1 DEF NoNewVersion, SamePending
  <2>5. AcksArePast' /\ ReadIsExpected'
    <3>1. \A b \in Clients : Acks(b)' \subseteq Acks(b) BY <1>2, <1>3 DEF Acks
    <3>2. \A b \in Clients : MayUse(b)' => MayUse(b) /\ sequence'[b] = sequence[b]
      BY <1>3 DEF MayUse
    <3> QED BY <1>1, <2>4, <3>1, <3>2, PastShrinks DEF Book
  <2>6. LateIsHarmless' BY <1>1, <1>2, <2>4, LateKeeps
  <2> QED BY <1>9, <1>10, <2>2, <2>3, <2>5, <2>6 DEF ProtocolInv, Book
<1>12. CASE t # Live
  <2>1. Extended(t) BY <1>2, <1>7, <1>12, ExtendedVersions
  <2>2. journal[c].pending # None => n < journal[c].pending.sequence
    <3>1. n \in Acks(c) BY <1>2 DEF Acks
    <3> QED BY <1>1, <1>4, <3>1 DEF AcksArePast
  <2>3. Book' BY <1>1, <1>3, <1>4, <1>7, <2>1, <2>2, RetiredBook
  <2>4. t.applied = Live.applied BY <1>7 DEF Retires
  <2>5. RepliesAreKept' BY <1>1, <1>2, <2>1 DEF Talk, RepliesAreKept, Extended
  <2>6. MissingIsTrue' BY <1>1, <1>2, <1>3, <2>1, <2>4 DEF Talk, MissingIsTrue, Extended
  <2>7. \A b \in Clients : Advances(t, b)
    <3>1. \A b \in Clients : Quiet(Live, t, b) BY <1>5, <1>6, <1>7, RetiresQuiet
    <3> QED BY <3>1, <1>7 DEF Advances, Retires
  <2>8. AcksArePast' /\ ReadIsExpected' /\ LateIsHarmless'
    <3>1. wire' \subseteq wire BY <1>2
    <3> QED BY <1>1, <1>2, <1>7, <2>1, <2>7, <3>1, PastExtends DEF Book
  <2> QED BY <1>9, <1>10, <2>3, <2>5, <2>6, <2>8 DEF ProtocolInv, Book
<1> QED BY <1>11, <1>12

(* Mutate: the edit is applied once, and only while it is pending.         *)
LEMMA MutateKeeps ==
    ASSUME TypeOK, ProtocolInv, NEW m \in wire, Mutate(m)
    PROVE  ProtocolInv'
<1>1. Book /\ Talk /\ AcksArePast /\ ReadIsExpected /\ LateIsHarmless BY Parts
<1> DEFINE c == m.client
           n == m.op.sequence
           old == OutcomesAt(Live, c, n)
           t == Applied(Live, c, n, m.op.edit)
           r == [verdict |-> "refused", op |-> m.op]
           k == [client |-> c, op |-> m.op, at |-> Len(versions)]
           h == [client |-> c, op |-> m.op, at |-> Len(versions) + 1]
<1>2. m.kind = "mutate" /\ wire' = wire \ {m} /\ UNCHANGED clientVars BY DEF Mutate
<1>3. \/ /\ \E o \in old : o.edit = m.op.edit
         /\ Owe(m, m.op, Len(versions)) /\ versions' = versions /\ inbox' = inbox
      \/ Answer(m, "refused", m.op) /\ versions' = versions /\ jobs' = jobs
      \/ /\ old = {} /\ Expected(Live, c, n) /\ HasRoom(Live, c)
         /\ versions' = Append(versions, t)
         /\ Owe(m, m.op, Len(versions) + 1) /\ inbox' = inbox
  BY DEF Mutate, serverVars
<1>4. c \in Clients BY DEF TypeOK, Messages
<1>5. m.op \in Ops BY <1>1, <1>2 DEF Talk, PhaseFits
<1>6. inbox \in [Clients -> SUBSET Replies] BY DEF TypeOK
<1>7. CASE /\ \E o \in old : o.edit = m.op.edit
           /\ Owe(m, m.op, Len(versions)) /\ versions' = versions /\ inbox' = inbox
  <2>1. jobs' = IF m.old THEN jobs ELSE jobs \cup {k} BY <1>7 DEF Owe
  <2>2. k.client = c /\ k.op = m.op /\ k.at = Len(versions) OBVIOUS
  <2> HIDE DEF k
  <2>3. Handles(m) BY <1>2, <1>7, <2>1, <2>2 DEF Handles
  <2>4. k.at \in DOMAIN versions /\ k.op.edit \in versions[k.at].applied
    BY <1>1, <1>4, <1>7, <2>2, OwedIsApplied
  <2> QED BY <1>2, <1>7, <2>1, <2>3, <2>4, AnswerKeeps
<1>8. CASE Answer(m, "refused", m.op) /\ versions' = versions /\ jobs' = jobs
  <2>1. inbox' = IF m.old THEN inbox ELSE [inbox EXCEPT ![c] = {r}]
    BY <1>8 DEF Answer
  <2>2. r.verdict = "refused" OBVIOUS
  <2> HIDE DEF r
  <2>3. Handles(m) BY <1>2, <1>8, <2>1 DEF Handles
  <2>4. \A b \in Clients : \A x \in inbox'[b] : x \in inbox[b] \/ x = r
    BY <1>4, <1>6, <2>1
  <2> QED BY <1>2, <1>8, <2>2, <2>3, <2>4, AnswerKeeps
<1>9. CASE /\ old = {} /\ Expected(Live, c, n) /\ HasRoom(Live, c)
           /\ versions' = Append(versions, t)
           /\ Owe(m, m.op, Len(versions) + 1) /\ inbox' = inbox
  <2> DEFINE op == m.op
  <2>1. /\ Live \in States /\ Len(versions) \in DOMAIN versions
        /\ Live = versions[Len(versions)]
    BY VersionFacts
  <2>2. WellFormed(Live) BY <1>1, <2>1 DEF Book, Tables
  <2>3. op = journal[c].pending
    <3>1. CASE ~m.old BY <3>1, <1>1, <1>2 DEF Talk, PhaseFits
    <3>2. CASE m.old
      <4>1. NextSequence(Live, c) \in Nat BY <2>1, <2>2, NextIsNat
      <4>2. ~(HasRecord(Live, c) /\ n < NextSequence(Live, c))
        BY <1>9, <4>1 DEF Expected
      <4> QED BY <3>2, <4>2, <1>1, <1>2, <2>1 DEF LateIsHarmless
    <3> QED BY <3>1, <3>2
  <2>4. op # None
    <3>1. None.sequence = 0 BY DEF None, Recorded
    <3> QED BY <3>1, <1>5 DEF Ops
  <2>5. Applies(t, c, op) BY <1>1, <1>4, <1>9, <2>3, <2>4, PendingApplies
  <2> HIDE DEF t
  <2>6. /\ t \in States /\ WellFormed(t) /\ Gathers(Live, t, c) /\ HasRecord(t, c)
        /\ NextSequence(t, c) = op.sequence + 1
        /\ t.applied = Live.applied \cup {op.edit}
    BY <2>5 DEF Applies
  <2>7. Extended(t) BY <1>9, <2>6, ExtendedVersions
  <2>8. /\ journal' = journal /\ phase' = phase /\ sequence' = sequence /\ ack' = ack
        /\ count' = count /\ abandoned' = abandoned /\ confirmed' = confirmed
    BY <1>2 DEF clientVars
  <2>9. Book' BY <1>1, <1>4, <2>3, <2>4, <2>5, <2>7, <2>8, AppliedBook
  <2>10. jobs' = IF m.old THEN jobs ELSE jobs \cup {h} BY <1>9 DEF Owe
  <2>11. h.client = c /\ h.op = op /\ h.at = Len(versions) + 1 OBVIOUS
  <2> HIDE DEF h
  <2>12. Handles(m) BY <1>2, <1>9, <2>10, <2>11 DEF Handles
  <2>13. OneRequest' /\ PhaseFits' BY <1>1, <1>2, <2>12, HandlesTalk DEF Talk
  <2>14. RepliesAreKept'
    <3>1. ASSUME NEW j \in jobs'
          PROVE  j.at \in DOMAIN versions' /\ j.op.edit \in versions'[j.at].applied
      <4>1. CASE j \in jobs BY <4>1, <1>1, <2>7 DEF Talk, RepliesAreKept, Extended
      <4>2. CASE j = h BY <4>2, <2>6, <2>7, <2>11 DEF Extended
      <4> QED BY <4>1, <4>2, <2>10
    <3>2. Kept' = Kept BY <2>7 DEF Extended
    <3> QED BY <1>1, <1>9, <3>1, <3>2 DEF Talk, RepliesAreKept
  <2>15. MissingIsTrue'
    <3> SUFFICES ASSUME NEW b \in Clients, NEW x \in inbox[b],
                        phase[b] = "resolving", x.verdict = "missing"
                 PROVE  journal[b].pending.edit \notin t.applied
      BY <1>9, <2>7, <2>8 DEF MissingIsTrue, Extended
    <3>1. journal[b].pending.edit \notin Live.applied
      BY <1>1 DEF Talk, MissingIsTrue
    <3>2. b # c
      <4>1. b \in CommandLine BY <1>1 DEF Talk, PhaseFits
      <4>2. ASSUME b = c PROVE FALSE
        <5>1. Requests(c) = {} BY <4>2, <1>1 DEF Talk, OneRequest
        <5>2. m.old BY <5>1, <1>2 DEF Requests
        <5>3. c \in Desktop BY <5>2, <1>1 DEF LateIsHarmless
        <5> QED BY <4>1, <4>2, <5>3, ProtocolAssumption
      <4> QED BY <4>2
    <3>3. journal[b].pending # None BY <1>1 DEF Talk, PhaseFits
    <3>4. journal[b].pending.edit.client = b /\ op.edit.client = c
      BY <3>3, <2>3, <2>4, <1>1, <1>4 DEF Book, EditsKnown
    <3> QED BY <3>1, <3>2, <3>4, <2>6
  <2>16. \A b \in Clients : Advances(t, b)
    <3> SUFFICES ASSUME NEW b \in Clients PROVE Advances(t, b) OBVIOUS
    <3>1. CASE b = c
      <4>1. HasRecord(Live, c) => NextSequence(Live, c) = op.sequence
        BY <1>9 DEF Expected
      <4> QED BY <3>1, <4>1, <2>3, <2>4, <2>6 DEF Advances
    <3>2. CASE b # c
      BY <3>2, <1>4, <2>1, <2>2, <2>6, GathersQuiet DEF Advances
    <3> QED BY <3>1, <3>2
  <2>17. AcksArePast' /\ ReadIsExpected' /\ LateIsHarmless'
    <3>1. wire' \subseteq wire BY <1>2
    <3> QED BY <1>1, <1>2, <2>6, <2>7, <2>16, <3>1, PastExtends DEF Book
  <2> QED BY <2>9, <2>13, <2>14, <2>15, <2>17 DEF ProtocolInv, Book
<1> QED BY <1>3, <1>7, <1>8, <1>9

-----------------------------------------------------------------------------
(* The types.                                                              *)

Journals == [pending : Ops \cup {None}, last : Ops \cup {None}]
Jobs == [client : Clients, op : Ops, at : Nat \ {0}]

(* What a record holds can be sent.                                        *)
LEMMA CanBeSent ==
    /\ \A op \in Ops \cup {None} : op \in Sent /\ op.sequence \in Nat
    /\ \A n \in Nat : Recorded(n, NoEdit) \in Sent
    /\ \A c \in Clients : \A kind \in {"mutate", "resolve", "ack"} : \A op \in Sent :
          [kind |-> kind, client |-> c, old |-> FALSE, op |-> op] \in Messages
    /\ \A v \in {"outcome", "refused", "missing"} : \A op \in Sent :
          [verdict |-> v, op |-> op] \in Replies
<1>1. \A n \in Nat : Recorded(n, NoEdit) \in Sent BY DEF Recorded, Sent
<1>2. None \in Sent /\ None.sequence \in Nat BY <1>1 DEF None, Recorded
<1>3. \A op \in Ops : op \in Sent /\ op.sequence \in Nat BY DEF Ops, Sent
<1>4. \A c \in Clients : \A kind \in {"mutate", "resolve", "ack"} : \A op \in Sent :
          [kind |-> kind, client |-> c, old |-> FALSE, op |-> op] \in Messages
  <2> HIDE DEF Sent
  <2> QED BY DEF Messages
<1>5. \A v \in {"outcome", "refused", "missing"} : \A op \in Sent :
          [verdict |-> v, op |-> op] \in Replies
  <2> HIDE DEF Sent
  <2> QED BY DEF Replies
<1> QED BY <1>1, <1>2, <1>3, <1>4, <1>5

(* A client's step keeps the types.                                        *)
LEMMA ClientTypes ==
    ASSUME TypeOK, ProtocolInv, NEW c \in Clients, ClientStep(c)
    PROVE  TypeOK'
<1>1. /\ versions \in Seq(States) /\ versions # <<>> /\ jobs \subseteq Jobs
      /\ wire \subseteq Messages /\ inbox \in [Clients -> SUBSET Replies]
      /\ journal \in [Clients -> Journals] /\ phase \in [Clients -> Phases]
      /\ sequence \in [Clients -> Nat] /\ ack \in [Clients -> Nat]
      /\ count \in [Clients -> Nat] /\ abandoned \subseteq Edits
      /\ confirmed \subseteq Edits /\ faults \in 0..MaxFaults
  BY DEF TypeOK, Jobs, Journals
<1>2. /\ versions' = versions /\ jobs' = jobs
  BY DEF ClientStep, Connect, ReadInventory, SendAck, Retry, Settle, Submit, Retire,
         Confirmed, AskConfirmed, Unconfirmed, AskAgain, Abandon, GiveUp, serverVars
<1> DEFINE Rest ==
      /\ wire' \subseteq Messages /\ inbox' \in [Clients -> SUBSET Replies]
      /\ journal' \in [Clients -> Journals] /\ phase' \in [Clients -> Phases]
      /\ sequence' \in [Clients -> Nat] /\ ack' \in [Clients -> Nat]
      /\ count' \in [Clients -> Nat] /\ abandoned' \subseteq Edits
      /\ confirmed' \subseteq Edits /\ faults' \in 0..MaxFaults
<1>3. SUFFICES Rest BY <1>1, <1>2 DEF TypeOK, Jobs, Journals
<1>4. NextSequence(Kept, c) \in Nat
  <2>1. 1 \in DOMAIN versions /\ Kept = versions[1] /\ Kept \in States BY VersionFacts
  <2>2. WellFormed(Kept) BY <2>1 DEF ProtocolInv, Tables
  <2> QED BY <2>1, <2>2, NextIsNat
<1>5. /\ journal[c] \in Journals
      /\ journal[c].pending \in Ops \cup {None} /\ journal[c].last \in Ops \cup {None}
      /\ journal[c].pending \in Sent /\ journal[c].last \in Sent
      /\ journal[c].last.sequence \in Nat
  <2>1. journal[c] \in Journals BY <1>1
  <2>2. journal[c].pending \in Ops \cup {None} /\ journal[c].last \in Ops \cup {None}
    BY <2>1 DEF Journals
  <2> QED BY <2>1, <2>2, CanBeSent
<1>6. journal[c].pending # None =>
        journal[c].pending \in Ops /\ journal[c].pending.edit \in Edits
  BY <1>5 DEF Ops
<1> HIDE DEF Journals
<1>7. Phases = {"offline", "settling", "mutating", "resolving", "confirming", "ready"}
  BY DEF Phases
<1>8. CASE Connect(c) BY <1>1, <1>4, <1>5, <1>7, <1>8 DEF Connect
<1>9. CASE ReadInventory(c) BY <1>1, <1>4, <1>9 DEF ReadInventory
<1>10. CASE SendAck(c)
  <2>1. ack[c] \in Nat BY <1>1
  <2> DEFINE m == [kind |-> "ack", client |-> c, old |-> FALSE,
                   op |-> Recorded(ack[c], NoEdit)]
  <2>2. m \in Messages BY <2>1, CanBeSent
  <2>3. wire' = wire \cup {m} /\ ack' = [ack EXCEPT ![c] = 0]
    BY <1>10 DEF SendAck
  <2> HIDE DEF m
  <2> QED BY <1>1, <1>10, <2>2, <2>3 DEF SendAck
<1>11. ASSUME NEW kind \in {"mutate", "resolve"}, NEW op \in Sent, Send(c, kind, op)
       PROVE  wire' \subseteq Messages
  <2> DEFINE m == [kind |-> kind, client |-> c, old |-> FALSE, op |-> op]
  <2>1. m \in Messages BY CanBeSent
  <2>2. wire' = wire \cup {m} BY <1>11 DEF Send
  <2> HIDE DEF m
  <2> QED BY <1>1, <2>1, <2>2
<1>12. CASE Retry(c)
  <2>1. wire' \subseteq Messages BY <1>5, <1>11, <1>12 DEF Retry
  <2> QED BY <1>1, <1>7, <1>12, <2>1 DEF Retry
<1>13. CASE Settle(c)
  <2>1. wire' \subseteq Messages BY <1>1, <1>5, <1>11, <1>13 DEF Settle
  <2>2. phase' \in [Clients -> Phases] BY <1>1, <1>7, <1>13 DEF Settle
  <2> QED BY <1>1, <1>13, <2>1, <2>2 DEF Settle
<1>14. CASE Submit(c)
  <2> DEFINE n == IF c \in Desktop THEN sequence[c] ELSE NextSequence(Kept, c)
             e == [client |-> c, k |-> count[c] + 1]
             op == Recorded(n, e)
  <2>1. phase[c] = "ready" BY <1>14 DEF Submit
  <2>2. n \in Nat \ {0}
    <3>1. 1 \in DOMAIN versions /\ Kept = versions[1] /\ Kept \in States
      BY VersionFacts
    <3>2. WellFormed(Kept) BY <3>1 DEF ProtocolInv, Tables
    <3>3. CASE c \in Desktop
      <4>1. MayUse(c) BY <2>1, <3>3 DEF MayUse, ProtocolInv, PhaseFits
      <4>2. Expected(Kept, c, sequence[c])
        BY <3>1, <4>1 DEF ProtocolInv, ReadIsExpected
      <4> QED BY <3>1, <3>2, <3>3, <4>2, ExpectedIsNat
    <3>4. CASE c \notin Desktop BY <3>1, <3>2, <3>4, NextIsNat
    <3> QED BY <3>3, <3>4
  <2> HIDE DEF n
  <2>3. e \in Edits BY <1>1 DEF Edits
  <2> HIDE DEF e
  <2>4. op \in Ops BY <2>2, <2>3 DEF Recorded, Ops
  <2>5. op \in Sent BY <2>4, CanBeSent
  <2>6. /\ journal' = [journal EXCEPT ![c].pending = op]
        /\ \/ Send(c, "mutate", op) /\ phase' = [phase EXCEPT ![c] = "mutating"]
                                    /\ faults' = faults
           \/ /\ faults < MaxFaults
              /\ faults' = faults + 1
              /\ phase' = [phase EXCEPT ![c] = "offline"]
              /\ wire' = wire
        /\ count' = [count EXCEPT ![c] = @ + 1]
        /\ UNCHANGED <<serverVars, inbox, sequence, ack, abandoned, confirmed>>
    BY <1>14 DEF Submit, n, e
  <2> HIDE DEF op
  <2>7. wire' \subseteq Messages BY <1>1, <1>11, <2>5, <2>6
  <2>8. journal' \in [Clients -> Journals]
    <3>1. [journal[c] EXCEPT !.pending = op] \in Journals
      BY <1>5, <2>4 DEF Journals
    <3> QED BY <1>1, <2>6, <3>1
  <2>9. phase' \in [Clients -> Phases] BY <1>1, <1>7, <2>6
  <2>10. faults' \in 0..MaxFaults BY <1>1, <2>6, ProtocolAssumption
  <2>11. count' \in [Clients -> Nat] BY <1>1, <2>6
  <2> QED BY <1>1, <2>6, <2>7, <2>8, <2>9, <2>10, <2>11
<1>15. CASE Retire(c)
  <2>1. phase[c] \in {"mutating", "resolving"} BY <1>15 DEF Retire
  <2>2. journal[c].pending # None BY <2>1 DEF ProtocolInv, PhaseFits
  <2>3. journal[c].pending.sequence \in Nat BY <1>5, CanBeSent
  <2>4. [pending |-> None, last |-> journal[c].pending] \in Journals
    BY <1>5 DEF Journals
  <2> QED BY <1>1, <1>4, <1>6, <1>7, <1>15, <2>2, <2>3, <2>4 DEF Retire
<1>16. CASE Confirmed(c)
  <2>1. [journal[c] EXCEPT !.last = None] \in Journals BY <1>5 DEF Journals
  <2> QED BY <1>1, <1>7, <1>16, <2>1 DEF Confirmed
<1>17. CASE AskConfirmed(c) BY <1>1, <1>7, <1>17 DEF AskConfirmed
<1>18. CASE Unconfirmed(c) BY <1>1, <1>7, <1>18 DEF Unconfirmed
<1>19. CASE AskAgain(c)
  <2>1. wire' \subseteq Messages BY <1>5, <1>11, <1>19 DEF AskAgain
  <2> QED BY <1>1, <1>7, <1>19, <2>1 DEF AskAgain
<1>20. CASE Abandon(c)
  <2>1. phase[c] = "resolving" BY <1>20 DEF Abandon
  <2>2. journal[c].pending # None BY <2>1 DEF ProtocolInv, PhaseFits
  <2>3. [journal[c] EXCEPT !.pending = None] \in Journals BY <1>5 DEF Journals
  <2> QED BY <1>1, <1>6, <1>7, <1>20, <2>2, <2>3 DEF Abandon
<1>21. CASE GiveUp(c) BY <1>1, <1>7, <1>21 DEF GiveUp
<1> QED BY <1>8, <1>9, <1>10, <1>12, <1>13, <1>14, <1>15, <1>16, <1>17, <1>18, <1>19,
           <1>20, <1>21 DEF ClientStep

(* A fault keeps the types.                                                *)
LEMMA FaultTypes ==
    ASSUME TypeOK, (\E c \in Clients : Break(c)) \/ LoseWrite \/ Crash
    PROVE  TypeOK'
<1>1. /\ versions \in Seq(States) /\ versions # <<>> /\ jobs \subseteq Jobs
      /\ wire \subseteq Messages /\ inbox \in [Clients -> SUBSET Replies]
      /\ phase \in [Clients -> Phases] /\ ack \in [Clients -> Nat]
      /\ faults \in 0..MaxFaults
  BY DEF TypeOK, Jobs
<1>2. MaxFaults \in Nat BY ProtocolAssumption
<1>3. "offline" \in Phases BY DEF Phases
<1>4. ASSUME NEW i \in DOMAIN versions, versions' = <<versions[i]>>
      PROVE  versions' \in Seq(States) /\ versions' # <<>>
  BY <1>4, SingleVersion DEF Picked
<1>5. ASSUME NEW c \in Clients, Break(c) PROVE TypeOK'
  <2>1. wire' \subseteq Messages
    <3>1. PICK late \in IF c \in Overlap THEN SUBSET Left(c) ELSE {{}} :
            wire' = (wire \ Left(c)) \cup {[m EXCEPT !.old = TRUE] : m \in late}
      BY <1>5 DEF Break
    <3>2. late \subseteq Messages BY <1>1 DEF Left
    <3>3. \A m \in Messages : [m EXCEPT !.old = TRUE] \in Messages
      <4> HIDE DEF Sent
      <4> QED BY DEF Messages
    <3> QED BY <1>1, <3>1, <3>2, <3>3
  <2>2. faults' \in 0..MaxFaults BY <1>1, <1>2, <1>5 DEF Break
  <2>3. jobs' \subseteq Jobs BY <1>1, <1>5 DEF Break
  <2>4. /\ inbox' \in [Clients -> SUBSET Replies] /\ phase' \in [Clients -> Phases]
        /\ ack' \in [Clients -> Nat]
    BY <1>1, <1>3, <1>5 DEF Break
  <2> QED BY <1>5, <2>1, <2>2, <2>3, <2>4 DEF Break, TypeOK, Jobs
<1>6. CASE LoseWrite
  <2>1. versions' \in Seq(States) /\ versions' # <<>> BY <1>4, <1>6 DEF LoseWrite
  <2>2. jobs' \subseteq Jobs BY <1>1, <1>6 DEF LoseWrite
  <2>3. inbox' \in [Clients -> SUBSET Replies]
    <3> DEFINE r == [verdict |-> "refused", op |-> None]
    <3>1. r \in Replies BY CanBeSent
    <3>2. inbox' = [c \in Clients |->
            IF \E j \in jobs : j.client = c /\ j.at # 1 THEN {r} ELSE inbox[c]]
      BY <1>6 DEF LoseWrite
    <3> HIDE DEF r
    <3> QED BY <1>1, <3>1, <3>2
  <2>4. faults' \in 0..MaxFaults BY <1>1, <1>2, <1>6 DEF LoseWrite
  <2>5. wire' = wire /\ UNCHANGED clientVars BY <1>6 DEF LoseWrite
  <2> QED BY <2>1, <2>2, <2>3, <2>4, <2>5 DEF TypeOK, Jobs, clientVars
<1>7. CASE Crash
  <2>1. versions' \in Seq(States) /\ versions' # <<>> BY <1>4, <1>7 DEF Crash
  <2>2. faults' \in 0..MaxFaults BY <1>1, <1>2, <1>7 DEF Crash
  <2>3. /\ inbox' \in [Clients -> SUBSET Replies] /\ phase' \in [Clients -> Phases]
        /\ ack' \in [Clients -> Nat] /\ jobs' = {} /\ wire' = {}
    BY <1>3, <1>7 DEF Crash
  <2> QED BY <1>7, <2>1, <2>2, <2>3 DEF Crash, TypeOK
<1> QED BY <1>5, <1>6, <1>7

(* A step of the server keeps the types.                                   *)
LEMMA ServerTypes ==
    ASSUME TypeOK, ProtocolInv, ServerStep
    PROVE  TypeOK'
<1>1. /\ versions \in Seq(States) /\ versions # <<>> /\ jobs \subseteq Jobs
      /\ wire \subseteq Messages /\ inbox \in [Clients -> SUBSET Replies]
  BY DEF TypeOK, Jobs
<1>2. /\ Len(versions) \in Nat \ {0} /\ DOMAIN versions = 1..Len(versions)
      /\ Len(versions) \in DOMAIN versions /\ Live = versions[Len(versions)]
      /\ Live \in States
  BY VersionFacts
<1>3. WellFormed(Live) BY <1>2 DEF ProtocolInv, Tables
<1>4. UNCHANGED clientVars /\ faults' = faults
  BY DEF ServerStep, Mutate, Resolve, Acknowledge, Keep, Deliver
<1>5. SUFFICES /\ versions' \in Seq(States) /\ versions' # <<>> /\ jobs' \subseteq Jobs
               /\ wire' \subseteq Messages /\ inbox' \in [Clients -> SUBSET Replies]
  BY <1>4 DEF TypeOK, Jobs, clientVars
<1>6. ASSUME NEW c \in Clients, NEW v \in {"outcome", "refused", "missing"},
             NEW op \in Sent, inbox' = [inbox EXCEPT ![c] = {[verdict |-> v, op |-> op]}]
      PROVE  inbox' \in [Clients -> SUBSET Replies]
  <2> DEFINE r == [verdict |-> v, op |-> op]
  <2>1. r \in Replies BY CanBeSent
  <2>2. inbox' = [inbox EXCEPT ![c] = {r}] BY <1>6
  <2> HIDE DEF r
  <2> QED BY <1>1, <2>1, <2>2
<1>7. ASSUME NEW m \in wire
      PROVE  m.client \in Clients /\ m.op \in Sent /\ m.op.sequence \in Nat
  <2>1. m.client \in Clients /\ m.op \in Sent BY <1>1 DEF Messages
  <2> QED BY <2>1 DEF Sent
<1>8. ASSUME NEW m \in wire, NEW v \in {"refused", "missing"}, Answer(m, v, m.op)
      PROVE  inbox' \in [Clients -> SUBSET Replies]
  BY <1>1, <1>6, <1>7, <1>8 DEF Answer
<1>9. ASSUME NEW m \in wire, NEW op \in Ops, NEW at \in Nat \ {0}, Owe(m, op, at)
      PROVE  jobs' \subseteq Jobs
  <2> DEFINE k == [client |-> m.client, op |-> op, at |-> at]
  <2>1. k \in Jobs BY <1>7 DEF Jobs
  <2>2. jobs' = IF m.old THEN jobs ELSE jobs \cup {k} BY <1>9 DEF Owe
  <2> HIDE DEF k
  <2> QED BY <1>1, <2>1, <2>2
<1>10. ASSUME NEW t \in States, versions' = Append(versions, t)
       PROVE  versions' \in Seq(States) /\ versions' # <<>>
  BY <1>10, ExtendedVersions DEF Extended
<1>11. ASSUME NEW m \in wire, Mutate(m)
       PROVE  /\ versions' \in Seq(States) /\ versions' # <<>> /\ jobs' \subseteq Jobs
              /\ wire' \subseteq Messages /\ inbox' \in [Clients -> SUBSET Replies]
  <2> DEFINE c == m.client
             n == m.op.sequence
             old == OutcomesAt(Live, c, n)
             t == Applied(Live, c, n, m.op.edit)
  <2>1. m.kind = "mutate" /\ wire' = wire \ {m} BY <1>11 DEF Mutate
  <2>2. m.op \in Ops BY <2>1 DEF ProtocolInv, PhaseFits
  <2>3. n \in Nat \ {0} /\ m.op.edit \in Edits BY <2>2 DEF Ops
  <2>4. \/ Owe(m, m.op, Len(versions)) /\ versions' = versions /\ inbox' = inbox
        \/ Answer(m, "refused", m.op) /\ versions' = versions /\ jobs' = jobs
        \/ /\ old = {} /\ Expected(Live, c, n) /\ HasRoom(Live, c)
           /\ versions' = Append(versions, t)
           /\ Owe(m, m.op, Len(versions) + 1) /\ inbox' = inbox
    BY <1>11 DEF Mutate, serverVars
  <2>5. wire' \subseteq Messages BY <1>1, <2>1
  <2>6. CASE Owe(m, m.op, Len(versions)) /\ versions' = versions /\ inbox' = inbox
    BY <1>1, <1>2, <1>9, <2>2, <2>5, <2>6
  <2>7. CASE Answer(m, "refused", m.op) /\ versions' = versions /\ jobs' = jobs
    BY <1>1, <1>8, <2>5, <2>7
  <2>8. CASE /\ old = {} /\ Expected(Live, c, n) /\ HasRoom(Live, c)
             /\ versions' = Append(versions, t)
             /\ Owe(m, m.op, Len(versions) + 1) /\ inbox' = inbox
    <3>1. t \in States
      BY <1>2, <1>3, <1>7, <2>3, <2>8, AppliedTable
    <3> HIDE DEF t
    <3>2. versions' \in Seq(States) /\ versions' # <<>> BY <1>10, <2>8, <3>1
    <3>3. Len(versions) + 1 \in Nat \ {0} BY <1>2
    <3>4. jobs' \subseteq Jobs BY <1>9, <2>2, <2>8, <3>3
    <3> QED BY <1>1, <2>5, <2>8, <3>2, <3>4
  <2> QED BY <2>4, <2>6, <2>7, <2>8
<1>12. ASSUME NEW m \in wire, Resolve(m)
       PROVE  /\ versions' \in Seq(States) /\ versions' # <<>> /\ jobs' \subseteq Jobs
              /\ wire' \subseteq Messages /\ inbox' \in [Clients -> SUBSET Replies]
  <2> DEFINE old == OutcomesAt(Live, m.client, m.op.sequence)
  <2>1. wire' = wire \ {m} /\ versions' = versions BY <1>12 DEF Resolve
  <2>2. CASE old = {}
    <3>1. Answer(m, "missing", m.op) /\ jobs' = jobs BY <1>12, <2>2 DEF Resolve
    <3>2. inbox' \in [Clients -> SUBSET Replies] BY <1>8, <3>1
    <3> QED BY <1>1, <2>1, <3>1, <3>2
  <2>3. CASE old # {}
    <3>1. PICK o \in old : Owe(m, o, Len(versions)) BY <1>12, <2>3 DEF Resolve
    <3>2. inbox' = inbox BY <1>12, <2>3 DEF Resolve
    <3>3. o \in Ops BY <1>2, <1>3, OutcomeIsPast
    <3>4. jobs' \subseteq Jobs BY <1>2, <1>9, <3>1, <3>3
    <3> QED BY <1>1, <2>1, <3>2, <3>4
  <2> QED BY <2>2, <2>3
<1>13. ASSUME NEW m \in wire, Acknowledge(m)
       PROVE  /\ versions' \in Seq(States) /\ versions' # <<>> /\ jobs' \subseteq Jobs
              /\ wire' \subseteq Messages /\ inbox' \in [Clients -> SUBSET Replies]
  <2> DEFINE t == Acknowledged(Live, m.client, m.op.sequence)
  <2>1. t \in States BY <1>2, <1>3, <1>7, AcknowledgedTable
  <2>2. /\ wire' = wire \ {m} /\ jobs' = jobs /\ inbox' = inbox
        /\ versions' = IF t = Live THEN versions ELSE Append(versions, t)
    BY <1>13 DEF Acknowledge
  <2> HIDE DEF t
  <2>3. versions' \in Seq(States) /\ versions' # <<>> BY <1>1, <1>10, <2>1, <2>2
  <2> QED BY <1>1, <2>2, <2>3
<1>14. ASSUME Keep
       PROVE  /\ versions' \in Seq(States) /\ versions' # <<>> /\ jobs' \subseteq Jobs
              /\ wire' \subseteq Messages /\ inbox' \in [Clients -> SUBSET Replies]
  <2>1. PICK i \in 2..Len(versions) :
          /\ versions' = SubSeq(versions, i, Len(versions))
          /\ jobs' = {[j EXCEPT !.at = IF @ > i THEN @ - i + 1 ELSE 1] : j \in jobs}
          /\ wire' = wire /\ inbox' = inbox
    BY <1>14 DEF Keep
  <2>2. i \in Nat /\ 2 <= i /\ i <= Len(versions) BY <1>2
  <2>3. versions' \in Seq(States) /\ Len(versions') = Len(versions) - i + 1
    BY <1>1, <1>2, <2>1, <2>2
  <2>4. versions' # <<>>
    <3>1. Len(versions') # 0 BY <1>2, <2>2, <2>3
    <3> QED BY <3>1
  <2>5. ASSUME NEW j \in Jobs
        PROVE  [j EXCEPT !.at = IF @ > i THEN @ - i + 1 ELSE 1] \in Jobs
    <3>1. j.at \in Nat BY DEF Jobs
    <3> DEFINE a == IF j.at > i THEN j.at - i + 1 ELSE 1
    <3>2. a \in Nat \ {0} BY <3>1, <2>2
    <3>3. [j EXCEPT !.at = IF @ > i THEN @ - i + 1 ELSE 1] = [j EXCEPT !.at = a]
      OBVIOUS
    <3> HIDE DEF a
    <3>4. [j EXCEPT !.at = a] \in Jobs BY <3>2 DEF Jobs
    <3> QED BY <3>3, <3>4
  <2>6. jobs' \subseteq Jobs BY <1>1, <2>1, <2>5
  <2> QED BY <1>1, <2>1, <2>3, <2>4, <2>6
<1>15. ASSUME NEW j \in jobs, Deliver(j)
       PROVE  /\ versions' \in Seq(States) /\ versions' # <<>> /\ jobs' \subseteq Jobs
              /\ wire' \subseteq Messages /\ inbox' \in [Clients -> SUBSET Replies]
  <2>1. j.client \in Clients /\ j.op \in Ops BY <1>1 DEF Jobs
  <2>2. j.op \in Sent BY <2>1, CanBeSent
  <2>3. inbox' \in [Clients -> SUBSET Replies] BY <1>6, <1>15, <2>1, <2>2 DEF Deliver
  <2> QED BY <1>1, <1>15, <2>3 DEF Deliver
<1> QED BY <1>11, <1>12, <1>13, <1>14, <1>15 DEF ServerStep

-----------------------------------------------------------------------------
(* The theorems.                                                           *)

(* At the start the table is empty and nobody waits for anything.          *)
LEMMA InitHolds ==
    ASSUME Init
    PROVE  TypeOK /\ ProtocolInv
<1>1. EmptyState \in States BY DEF EmptyState, States
<1>2. versions \in Seq(States) /\ versions # <<>> /\ Len(versions) = 1
  BY <1>1 DEF Init
<1>3. DOMAIN versions = {1} /\ versions[1] = EmptyState BY <1>2 DEF Init
<1>4. TypeOK
  <2>1. "offline" \in Phases BY DEF Phases
  <2>2. journal \in [Clients -> [pending : Ops \cup {None}, last : Ops \cup {None}]]
    BY DEF Init
  <2>3. faults \in 0..MaxFaults BY ProtocolAssumption DEF Init
  <2> QED BY <1>2, <2>1, <2>2, <2>3 DEF Init, TypeOK
<1>5. Kept = EmptyState /\ Live = EmptyState BY <1>2, <1>3 DEF Kept, Live, Last
<1>6. /\ EmptyState.devices = <<>> /\ EmptyState.applied = {} /\ EmptyState.twice = {}
      /\ EmptyState.floor = 0
  BY DEF EmptyState
<1>7. \A c : ~HasRecord(EmptyState, c) /\ NextSequence(EmptyState, c) = 1
  BY <1>6 DEF HasRecord, PlacesOf, NextSequence
<1>8. \A c \in Clients : /\ journal[c].pending = None /\ journal[c].last = None
                         /\ inbox[c] = {} /\ phase[c] = "offline" /\ ack[c] = 0
  BY DEF Init
<1>9. jobs = {} /\ wire = {} /\ abandoned = {} /\ confirmed = {} BY DEF Init
<1>10. None.sequence = 0 BY DEF None, Recorded
<1>11. WellFormed(EmptyState)
  BY <1>6, ProtocolAssumption DEF WellFormed
<1>12. Tables
  <2>1. Truthful(EmptyState) BY <1>6, <1>7 DEF Truthful, PendingOf, ToSet
  <2> QED BY <1>3, <1>11, <2>1 DEF Tables
<1>13. VersionsGrow
  <2>1. \A c : Quiet(EmptyState, EmptyState, c) BY <1>1, <1>11, QuietRefl
  <2> QED BY <1>3, <2>1 DEF VersionsGrow
<1>14. EditsKnown /\ ToldIsTrue
  BY <1>5, <1>6, <1>8, <1>9 DEF EditsKnown, ToldIsTrue
<1>15. OutcomeNotForgotten /\ PendingFits
  BY <1>8 DEF OutcomeNotForgotten, PendingFits
<1>16. RepliesAreKept /\ MissingIsTrue /\ LateIsHarmless
  BY <1>8, <1>9 DEF RepliesAreKept, MissingIsTrue, LateIsHarmless
<1>17. \A c \in Clients : Acks(c) = {0} /\ ~MayUse(c)
  BY <1>8, <1>9, <1>10 DEF Acks, MayUse
<1>18. AcksArePast BY <1>3, <1>7, <1>8, <1>17 DEF AcksArePast
<1>19. ReadIsExpected BY <1>17 DEF ReadIsExpected
<1>20. OneRequest BY <1>8, <1>9 DEF OneRequest, Requests, Owed
<1>21. PhaseFits BY <1>8, <1>9 DEF PhaseFits
<1> QED BY <1>4, <1>12, <1>13, <1>14, <1>15, <1>16, <1>18, <1>19, <1>20, <1>21
        DEF ProtocolInv

(* Every step keeps the types and the invariant.                           *)
LEMMA NextKeeps ==
    ASSUME Orderly, TypeOK, ProtocolInv, [Next]_vars
    PROVE  TypeOK' /\ ProtocolInv'
<1>1. CASE UNCHANGED vars
  <2>1. /\ versions' = versions /\ jobs' = jobs /\ wire' = wire /\ inbox' = inbox
        /\ journal' = journal /\ phase' = phase /\ sequence' = sequence /\ ack' = ack
        /\ count' = count /\ abandoned' = abandoned /\ confirmed' = confirmed
        /\ faults' = faults
    BY <1>1 DEF vars, serverVars, clientVars
  <2>2. TypeOK' BY <2>1 DEF TypeOK
  <2>3. Book /\ Talk /\ AcksArePast /\ ReadIsExpected /\ LateIsHarmless BY Parts
  <2>4. Book' BY <2>1, <2>3, SameBook DEF SamePending
  <2>5. Talk'
    BY <2>1, <2>3 DEF Talk, OneRequest, PhaseFits, RepliesAreKept, MissingIsTrue,
                      Requests, Owed, Kept, Live
  <2>6. AcksArePast' /\ ReadIsExpected' /\ LateIsHarmless'
    BY <2>1, <2>3 DEF AcksArePast, ReadIsExpected, LateIsHarmless, Acks, MayUse
  <2> QED BY <2>2, <2>4, <2>5, <2>6 DEF ProtocolInv, Book, Talk
<1>2. ASSUME NEW c \in Clients, ClientStep(c) PROVE ProtocolInv'
  BY <1>2, ReadKeeps, SendAckKeeps, RetryKeeps, SettleKeeps, SubmitKeeps, RetireKeeps,
     ConfirmingKeeps, AskAgainKeeps, AbandonKeeps, GiveUpKeeps DEF ClientStep
<1>3. ASSUME ServerStep PROVE ProtocolInv'
  BY <1>3, MutateKeeps, ResolveKeeps, AcknowledgeKeeps, KeepKeeps, DeliverKeeps
     DEF ServerStep
<1>4. ASSUME NEW c \in Clients, ClientStep(c) \/ Break(c) PROVE TypeOK' /\ ProtocolInv'
  BY <1>2, <1>4, ClientTypes, FaultTypes, BreakKeeps
<1>5. CASE LoseWrite \/ Crash BY <1>5, FaultTypes, LoseWriteKeeps, CrashKeeps
<1>6. CASE ServerStep BY <1>3, <1>6, ServerTypes
<1> QED BY <1>1, <1>4, <1>5, <1>6 DEF Next

(* Clients and server keep to the protocol: the inductive invariant holds  *)
(* for any number of clients, edits and faults.                            *)
THEOREM ProtocolInvHolds ==
    ASSUME Orderly
    PROVE  Spec => [](TypeOK /\ ProtocolInv)
<1>1. Init => TypeOK /\ ProtocolInv BY InitHolds
<1>2. TypeOK /\ ProtocolInv /\ [Next]_vars => (TypeOK /\ ProtocolInv)' BY NextKeeps
<1> QED BY <1>1, <1>2, PTL DEF Spec

(* Types: every variable of client, server and wire keeps its type.        *)
THEOREM EditProtocolTypeCorrect ==
    ASSUME Orderly
    PROVE  Spec => []TypeOK
BY ProtocolInvHolds, PTL

(* State::apply: no edit is applied twice, however often it is dispatched  *)
(* again, and whatever the server loses or replaces in between.            *)
THEOREM AppliedOnce ==
    ASSUME Orderly
    PROVE  Spec => []AppliedAtMostOnce
<1>1. ProtocolInv => AppliedAtMostOnce
  BY DEF ProtocolInv, Tables, Truthful, AppliedAtMostOnce
<1> QED BY <1>1, ProtocolInvHolds, PTL

(* ClientJournal::retire and abandon: an outcome that was retired is kept  *)
(* for good, and an edit that was abandoned is never applied.              *)
THEOREM ToldStaysTrue ==
    ASSUME Orderly
    PROVE  Spec => []ToldIsTrue
<1>1. ProtocolInv => ToldIsTrue BY DEF ProtocolInv
<1> QED BY <1>1, ProtocolInvHolds, PTL

(* hierarchy::State: the outcome of an edit that was applied is on record  *)
(* as long as its client has the edit pending.                             *)
THEOREM OutcomesNotForgotten ==
    ASSUME Orderly
    PROVE  Spec => []OutcomeNotForgotten
<1>1. ProtocolInv => OutcomeNotForgotten BY DEF ProtocolInv
<1> QED BY <1>1, ProtocolInvHolds, PTL

(* State::apply: the sequence of a pending edit is one the server has the  *)
(* outcome of, or still accepts.                                           *)
THEOREM PendingStaysExpected ==
    ASSUME Orderly
    PROVE  Spec => []PendingIsExpected
<1>1. TypeOK /\ ProtocolInv => PendingIsExpected
  <2> SUFFICES ASSUME TypeOK, ProtocolInv PROVE PendingIsExpected OBVIOUS
  <2>1. Len(versions) \in DOMAIN versions /\ Live = versions[Len(versions)]
    BY VersionFacts
  <2> QED BY <2>1 DEF ProtocolInv, PendingFits, PendingIsExpected
<1> QED BY <1>1, ProtocolInvHolds, PTL

=============================================================================
