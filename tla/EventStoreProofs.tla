-------------------------- MODULE EventStoreProofs --------------------------
(***************************************************************************)
(* Theorems of EventStore, for every set of events, journals and rules and *)
(* every bound: what engines and their rows know of events, what revisions *)
(* say of them, and the refinement of AuditedEvents.                       *)
(***************************************************************************)
EXTENDS EventStore, SequenceTheorems, TLAPS

Tabled ==
    /\ clock \in Instants
    /\ events \in [EventIds -> Event \cup {None}]
    /\ resources \subseteq Journals \cup Bases
    /\ rules \in [Rules -> Journals \cup {None}]
    /\ last \in [Rules -> EventIds \cup {None}]
    /\ memory \in [Rules -> EventIds \cup {None}]
    /\ forgotten \in [Rules -> Engine \cup {None}]
    /\ observing \in BOOLEAN
    /\ gate \in Seq(Operations)
    /\ disturbed \subseteq {"clock", "cancel", "forget"}

Waiting == {gate[i] : i \in DOMAIN gate}

(* While no caller was cancelled, maintenance waits only inside the pause  *)
(* that asked for it.                                                      *)
Apart ==
    Undisturbed({"cancel"}) =>
        \A o \in Waiting : o.op \in Maintenance => ~observing /\ o.attended

(* FOREIGN KEY(last_event_id), and what a running engine remembers.        *)
RowsRefer == \A r \in Rules : last[r] \in Stored \cup {None}
EnginesRemember ==
    Undisturbed({"cancel"}) /\ observing =>
        \A r \in Rules : memory[r] \in Stored \cup {None}

Inv == Tabled /\ Apart /\ RowsRefer /\ EnginesRemember

-----------------------------------------------------------------------------
(* The gate.                                                               *)

(* Joining the gate adds an operation to those that wait.                  *)
LEMMA SubmitAdds ==
    ASSUME Tabled, NEW o \in Operations, Submit(o)
    PROVE  gate' \in Seq(Operations) /\ Waiting' = Waiting \cup {o}
<1>1. gate \in Seq(Operations) /\ gate' = Append(gate, o)
  BY DEF Tabled, Submit
<1>2. /\ gate' \in Seq(Operations) /\ Len(gate') = Len(gate) + 1
      /\ \A i \in 1 .. Len(gate) : gate'[i] = gate[i]
      /\ gate'[Len(gate) + 1] = o
  BY <1>1, AppendProperties
<1>3. /\ DOMAIN gate = 1 .. Len(gate) /\ Len(gate) \in Nat
      /\ DOMAIN gate' = 1 .. Len(gate) + 1
  BY <1>1, <1>2
<1>4. DOMAIN gate' = DOMAIN gate \cup {Len(gate) + 1}
  BY <1>3
<1> QED
  BY <1>2, <1>3, <1>4 DEF Waiting

(* Leaving it takes the first operation away.                              *)
LEMMA TailRemoves ==
    ASSUME Tabled, gate # <<>>, gate' = Tail(gate)
    PROVE  /\ gate' \in Seq(Operations) /\ Waiting' \subseteq Waiting
           /\ Request \in Waiting /\ Request \in Operations
<1>1. gate \in Seq(Operations) /\ Len(gate) \in Nat \ {0}
      /\ DOMAIN gate = 1 .. Len(gate)
  BY DEF Tabled
<1>2. /\ gate' \in Seq(Operations) /\ Len(gate') = Len(gate) - 1
      /\ \A i \in 1 .. Len(gate') : gate'[i] = gate[i + 1]
      /\ Head(gate) = gate[1] /\ Head(gate) \in Operations
  BY <1>1, HeadTailProperties
<1>3. \A i \in DOMAIN gate' : i + 1 \in DOMAIN gate /\ gate'[i] = gate[i + 1]
  BY <1>1, <1>2
<1>4. Waiting' \subseteq Waiting
  BY <1>3 DEF Waiting
<1>5. 1 \in DOMAIN gate
  BY <1>1
<1> QED
  BY <1>2, <1>4, <1>5 DEF Request, Waiting

(* The fields of the operations, by kind.                                  *)
LEMMA Fields ==
    ASSUME NEW o \in Operations
    PROVE  /\ o.op \in {"confirm", "save", "upsertRule"} => o.rule \in Rules
           /\ o.op \in {"status", "add", "confirm"} =>
                o.event \in EventIds /\ o.at \in Instants
           /\ o.op = "save" => o.event \in EventIds \cup {None}
           /\ o.op = "status" => o.target \in Statuses
           /\ o.op = "add" => o.occurred \in Instants
           /\ o.op = "purge" => o.before \in Instants
           /\ o.op = "upsert" => o.row \in Journals \cup Bases
           /\ o.op \in {"add", "confirm", "purge", "upsertRule"} =>
                o.journal \in Journals
BY DEF Operations

(* A caller that lets go of an operation changes nothing else of it.       *)
LEMMA Unattended ==
    ASSUME NEW o \in Operations
    PROVE  LET left == [o EXCEPT !.attended = FALSE]
           IN  /\ left \in Operations /\ left.op = o.op
               /\ o.op \in {"add", "confirm"} => left.event = o.event
BY DEF Operations

(* The place in the queue that place i is filled from when the first       *)
(* operation goes behind others, to place n.                               *)
From(n, i) == IF i < n THEN i + 1 ELSE IF i = n THEN 1 ELSE i

LEMMA CancelMoves ==
    ASSUME Tabled, CancelCall
    PROVE  /\ gate' \in Seq(Operations) /\ DOMAIN gate' = DOMAIN gate
           /\ \E n \in DOMAIN gate :
                /\ \A i \in DOMAIN gate :
                     /\ From(n, i) \in DOMAIN gate
                     /\ gate'[i].op = gate[From(n, i)].op
                     /\ gate[From(n, i)].op \in {"add", "confirm"} =>
                          gate'[i].event = gate[From(n, i)].event
                /\ \A i, k \in DOMAIN gate :
                     i # k => From(n, i) # From(n, k)
                /\ \A k \in DOMAIN gate :
                     \E i \in DOMAIN gate : From(n, i) = k
<1>1. /\ gate \in Seq(Operations) /\ Len(gate) \in Nat \ {0}
      /\ DOMAIN gate = 1 .. Len(gate)
  BY DEF Tabled, CancelCall
<1>2. /\ 1 \in DOMAIN gate /\ Request = gate[1]
      /\ \A i \in DOMAIN gate : gate[i] \in Operations
  BY <1>1, HeadTailProperties DEF Request
<1>3. PICK n \in DOMAIN gate :
        gate' = [i \in DOMAIN gate |->
                   IF i < n THEN gate[i + 1]
                   ELSE IF i = n THEN [Request EXCEPT !.attended = FALSE]
                   ELSE gate[i]]
  BY DEF CancelCall
<1> DEFINE free == [Request EXCEPT !.attended = FALSE]
<1>4. /\ free \in Operations /\ free.op = Request.op
      /\ Request.op \in {"add", "confirm"} => free.event = Request.event
  BY <1>2, Unattended
<1> HIDE DEF free
<1>5. \A i \in DOMAIN gate :
        /\ From(n, i) \in DOMAIN gate
        /\ i # n => gate'[i] = gate[From(n, i)]
        /\ i = n => gate'[i] = free /\ From(n, i) = 1
  BY <1>1, <1>3 DEF From, free
<1>6. DOMAIN gate' = DOMAIN gate
  BY <1>3
<1>7. \A i \in DOMAIN gate : gate'[i] \in Operations
  BY <1>2, <1>4, <1>5
<1>8. gate' \in Seq(Operations)
  <2>1. gate' \in [1 .. Len(gate) -> Operations]
    <3>1. gate' = [i \in 1 .. Len(gate) |-> gate'[i]]
      BY <1>1, <1>3
    <3> QED
      BY <1>1, <1>7, <3>1
  <2> QED
    BY <1>1, <2>1
<1>9. \A i, k \in DOMAIN gate : i # k => From(n, i) # From(n, k)
  BY <1>1, <1>3 DEF From
<1>10. ASSUME NEW k \in DOMAIN gate
       PROVE  \E i \in DOMAIN gate : From(n, i) = k
  <2> DEFINE i == IF k = 1 THEN n ELSE IF k <= n THEN k - 1 ELSE k
  <2>1. i \in DOMAIN gate /\ From(n, i) = k
    BY <1>1, <1>3 DEF From
  <2> QED
    BY <2>1
<1>11. \A i \in DOMAIN gate :
         /\ gate'[i].op = gate[From(n, i)].op
         /\ gate[From(n, i)].op \in {"add", "confirm"} =>
              gate'[i].event = gate[From(n, i)].event
  BY <1>2, <1>4, <1>5
<1> QED
  BY <1>3, <1>5, <1>6, <1>8, <1>9, <1>10, <1>11

-----------------------------------------------------------------------------
(* Calls.                                                                  *)

Creates(o) == o.op \in {"add", "confirm"}
Stamped(o) == o.op \in {"status", "add", "confirm"}

Calls ==
    \/ ResetDatabase
    \/ \E e \in EventIds, j \in Journals, t \in Instants : AddEvent(e, j, t)
    \/ \E e \in EventIds, m \in {"exclude", "restore"} : MutateEvent(e, m)
    \/ \E r \in Rules :
         \/ EngineSaves(r) \/ ForgottenFires(r)
         \/ \E e \in EventIds : EngineConfirms(r, e)
         \/ \E j \in Journals : UpsertRule(r, j)
    \/ \E x \in Journals \cup Bases : UpsertResource(x)
    \/ \E j \in Journals, before \in Instants : PurgeEvents(j, before)

(* What a call is to tables, identifiers and engines.                      *)
Joined(o) ==
    /\ o \in Operations /\ Submit(o)
    /\ UNCHANGED <<clock, Tables, disturbed>>
    /\ forgotten' \in [Rules -> Engine \cup {None}]
    /\ memory' \in [Rules -> EventIds \cup {None}]
    /\ \/ UNCHANGED <<memory, observing>> /\ o.op \notin Maintenance
       \/ observing' = FALSE /\ o.attended
    /\ Stamped(o) => o.at = clock
    /\ IF Creates(o) THEN o.event \notin used /\ used' = used \cup {o.event}
       ELSE used' = used

LEMMA PauseJoins ==
    ASSUME Tabled, NEW o \in Operations, o.op \in Maintenance, o.attended,
           Pause(o)
    PROVE  Joined(o)
BY DEF Pause, Joined, Creates, Stamped, Maintenance, Tabled, Tables

LEMMA CallJoins ==
    ASSUME Inv, Calls
    PROVE  \E o : Joined(o)
<1>0. /\ clock \in Instants /\ Tabled
      /\ forgotten \in [Rules -> Engine \cup {None}]
      /\ memory \in [Rules -> EventIds \cup {None}]
      /\ rules \in [Rules -> Journals \cup {None}]
  BY DEF Inv, Tabled
<1>1. CASE ResetDatabase
  <2> DEFINE o == [op |-> "reset", attended |-> TRUE]
  <2>1. o \in Operations /\ o.op \in Maintenance /\ o.attended
    BY DEF Operations, Maintenance
  <2> QED
    BY <1>0, <1>1, <2>1, PauseJoins DEF ResetDatabase
<1>2. ASSUME NEW x \in Journals \cup Bases, UpsertResource(x)
      PROVE  \E o : Joined(o)
  <2> DEFINE o == [op |-> "upsert", row |-> x, attended |-> TRUE]
  <2>1. o \in Operations /\ o.op \in Maintenance /\ o.attended
    BY DEF Operations, Maintenance
  <2> QED
    BY <1>0, <1>2, <2>1, PauseJoins DEF UpsertResource
<1>3. ASSUME NEW j \in Journals, NEW before \in Instants, PurgeEvents(j, before)
      PROVE  \E o : Joined(o)
  <2> DEFINE o == [op |-> "purge", journal |-> j, before |-> before,
                   attended |-> TRUE]
  <2>1. o \in Operations /\ o.op \in Maintenance /\ o.attended
    BY DEF Operations, Maintenance
  <2> QED
    BY <1>0, <1>3, <2>1, PauseJoins DEF PurgeEvents
<1>4. ASSUME NEW r \in Rules, NEW j \in Journals, UpsertRule(r, j)
      PROVE  \E o : Joined(o)
  <2> DEFINE o == [op |-> "upsertRule", rule |-> r, journal |-> j,
                   attended |-> TRUE]
  <2>1. o \in Operations /\ o.op \in Maintenance /\ o.attended
    BY DEF Operations, Maintenance
  <2> QED
    BY <1>0, <1>4, <2>1, PauseJoins DEF UpsertRule
<1>5. ASSUME NEW e \in EventIds, NEW j \in Journals, NEW t \in Instants,
             AddEvent(e, j, t)
      PROVE  \E o : Joined(o)
  <2> DEFINE o == [op |-> "add", event |-> e, journal |-> j, occurred |-> t,
                   at |-> clock, attended |-> TRUE]
  <2>1. o \in Operations /\ o.op = "add" /\ o.event = e /\ o.at = clock
    BY <1>0 DEF Operations
  <2> HIDE DEF o
  <2>2. Submit(o)
    BY <1>5 DEF AddEvent, o
  <2>3. Joined(o)
    BY <1>0, <1>5, <2>1, <2>2
    DEF AddEvent, Joined, Creates, Maintenance, engines
  <2> QED
    BY <2>3
<1>6. ASSUME NEW e \in EventIds, NEW m \in {"exclude", "restore"},
             MutateEvent(e, m)
      PROVE  \E o : Joined(o)
  <2> DEFINE o == [op |-> "status", event |-> e, target |-> TargetOf(m),
                   at |-> clock, attended |-> TRUE]
  <2>1. o \in Operations /\ o.op = "status" /\ o.at = clock
    BY <1>0 DEF Operations, TargetOf, Statuses
  <2> HIDE DEF o
  <2>2. Submit(o)
    BY <1>6 DEF MutateEvent, o
  <2>3. Joined(o)
    BY <1>0, <1>6, <2>1, <2>2
    DEF MutateEvent, Joined, Creates, Maintenance, engines
  <2> QED
    BY <2>3
<1>7. ASSUME NEW r \in Rules, EngineSaves(r)
      PROVE  \E o : Joined(o)
  <2> DEFINE o == [op |-> "save", rule |-> r, event |-> memory[r],
                   attended |-> TRUE]
  <2>1. o \in Operations /\ o.op = "save"
    BY <1>0 DEF Operations
  <2> HIDE DEF o
  <2>2. Submit(o)
    BY <1>7 DEF EngineSaves, o
  <2>3. Joined(o)
    BY <1>0, <1>7, <2>1, <2>2
    DEF EngineSaves, Joined, Creates, Stamped, Maintenance, engines
  <2> QED
    BY <2>3
<1>8. ASSUME NEW r \in Rules, NEW e \in EventIds, NEW j \in Journals,
             NEW attended \in BOOLEAN, Confirms(r, e, j, attended),
             forgotten' \in [Rules -> Engine \cup {None}],
             UNCHANGED <<clock, Tables, memory, observing, disturbed>>
      PROVE  \E o : Joined(o)
  <2> DEFINE o == [op |-> "confirm", event |-> e, rule |-> r, journal |-> j,
                   at |-> clock, attended |-> attended]
  <2>1. o \in Operations /\ o.op = "confirm" /\ o.event = e /\ o.at = clock
    BY <1>0 DEF Operations
  <2> HIDE DEF o
  <2>2. Submit(o) /\ e \notin used /\ used' = used \cup {e}
    BY <1>8 DEF Confirms, o
  <2>3. Joined(o)
    BY <1>0, <1>8, <2>1, <2>2 DEF Joined, Creates, Maintenance
  <2> QED
    BY <2>3
<1>9. ASSUME NEW r \in Rules, NEW e \in EventIds, EngineConfirms(r, e)
      PROVE  \E o : Joined(o)
  <2>1. rules[r] \in Journals
    BY <1>0, <1>9 DEF EngineConfirms, Known
  <2> QED
    BY <1>0, <1>8, <1>9, <2>1 DEF EngineConfirms, engines
<1>10. ASSUME NEW r \in Rules, ForgottenFires(r)
       PROVE  \E o : Joined(o)
  <2>1. /\ forgotten[r] \in Engine
        /\ forgotten' \in [Rules -> Engine \cup {None}]
        /\ UNCHANGED <<clock, Tables, memory, observing, disturbed>>
    BY <1>0, <1>10 DEF ForgottenFires
  <2>2. /\ forgotten[r].journal \in Journals
        /\ forgotten[r].event \in EventIds \cup {None}
    BY <2>1 DEF Engine
  <2>3. CASE \E e \in EventIds : Confirms(r, e, forgotten[r].journal, FALSE)
    BY <1>8, <2>1, <2>2, <2>3
  <2> DEFINE o == [op |-> "save", rule |-> r, event |-> forgotten[r].event,
                   attended |-> FALSE]
  <2>4. CASE Submit(o) /\ used' = used
    <3>1. o \in Operations /\ o.op = "save"
      BY <2>2 DEF Operations
    <3> HIDE DEF o
    <3>2. Joined(o)
      BY <1>0, <2>1, <2>4, <3>1 DEF Joined, Creates, Stamped, Maintenance
    <3> QED
      BY <3>2
  <2> QED
    BY <1>10, <2>3, <2>4 DEF ForgottenFires
<1> QED
  BY <1>1, <1>2, <1>3, <1>4, <1>5, <1>6, <1>7, <1>9, <1>10 DEF Calls

-----------------------------------------------------------------------------
(* The invariant, one lemma for each action that it could depend on.       *)

(* A call joins the gate in the mode its operation belongs to.             *)
LEMMA CallKeepsInv ==
    ASSUME Inv, NEW o, Joined(o)
    PROVE  Inv'
<1>1. /\ gate' \in Seq(Operations) /\ Waiting' = Waiting \cup {o}
      /\ UNCHANGED <<clock, events, resources, rules, last, disturbed>>
  BY SubmitAdds DEF Inv, Joined, Tables
<1>2. Tabled'
  BY <1>1 DEF Inv, Tabled, Joined
<1>3. Apart'
  BY <1>1 DEF Inv, Apart, Undisturbed, Joined
<1>4. RowsRefer' /\ EnginesRemember'
  BY <1>1 DEF Inv, RowsRefer, EnginesRemember, Stored, Undisturbed, Joined
<1> QED
  BY <1>2, <1>3, <1>4 DEF Inv

(* An operation that leaves what the engines remember alone or fails.      *)
LEMMA ServedKeepsInv ==
    ASSUME Inv, gate # <<>>, gate' = Tail(gate),
           UNCHANGED <<clock, engines, disturbed>>,
           last' \in [Rules -> EventIds \cup {None}],
           resources' \subseteq Journals \cup Bases,
           rules' \in [Rules -> Journals \cup {None}],
           events' \in [EventIds -> Event \cup {None}],
           \A r \in Rules : last'[r] \in Stored' \cup {None},
           Stored \subseteq Stored' \/ Request.op \in Maintenance
    PROVE  Inv'
<1>1. /\ gate' \in Seq(Operations) /\ Waiting' \subseteq Waiting
      /\ Request \in Waiting
  BY TailRemoves DEF Inv
<1>2. Tabled'
  BY <1>1 DEF Inv, Tabled, engines
<1>3. Apart'
  BY <1>1 DEF Inv, Apart, engines, Undisturbed
<1>4. RowsRefer'
  BY DEF RowsRefer
<1>5. EnginesRemember'
  <2> SUFFICES ASSUME Undisturbed({"cancel"}), observing
               PROVE  \A r \in Rules : memory[r] \in Stored' \cup {None}
    BY DEF EnginesRemember, engines, Undisturbed
  <2>1. Stored \subseteq Stored'
    BY <1>1 DEF Inv, Apart
  <2> QED
    BY <2>1 DEF Inv, EnginesRemember
<1> QED
  BY <1>2, <1>3, <1>4, <1>5 DEF Inv

LEMMA RunAddStep ==
    ASSUME Inv, RunAdd
    PROVE  Inv'
<1>1. /\ gate # <<>> /\ gate' = Tail(gate) /\ Request.op = "add"
      /\ UNCHANGED <<clock, engines, disturbed, resources, rules, last>>
      /\ Tabled /\ RowsRefer
  BY DEF RunAdd, Serve, Request, Inv
<1>2. /\ Request.event \in EventIds /\ Request.at \in Instants
      /\ Request.journal \in Journals /\ Request.occurred \in Instants
  BY <1>1, TailRemoves, Fields
<1> DEFINE row == [journal |-> Request.journal, rule |-> None,
                   occurred |-> Request.occurred, created |-> Request.at,
                   audit |-> [status |-> "confirmed", at |-> Request.at]]
<1>3. row \in Event /\ row # None
  BY <1>2, RowAssumption DEF Event, Audits, Statuses
<1>4. events' = events \/ events' = [events EXCEPT ![Request.event] = row]
  BY DEF RunAdd
<1> HIDE DEF row
<1>5. events' \in [EventIds -> Event \cup {None}] /\ Stored \subseteq Stored'
  BY <1>1, <1>2, <1>3, <1>4 DEF Tabled, Stored
<1> QED
  BY <1>1, <1>5, ServedKeepsInv DEF Tabled, RowsRefer

LEMMA RunMutationStep ==
    ASSUME Inv, RunMutation
    PROVE  Inv'
<1>1. /\ gate # <<>> /\ gate' = Tail(gate) /\ Request.op = "status"
      /\ UNCHANGED <<clock, engines, disturbed, resources, rules, last>>
      /\ Tabled /\ RowsRefer
  BY DEF RunMutation, Serve, Request, Inv
<1>2. /\ Request.event \in EventIds /\ Request.at \in Instants
      /\ Request.target \in Statuses
  BY <1>1, TailRemoves, Fields
<1> DEFINE new == [status |-> Request.target, at |-> Request.at]
<1>3. CASE ~Changes(Request.event, Request.target)
  BY <1>1, <1>3, ServedKeepsInv DEF RunMutation, Tabled, RowsRefer, Stored
<1>4. CASE Changes(Request.event, Request.target)
  <2>1. events' = [events EXCEPT ![Request.event].audit = new]
    BY <1>4 DEF RunMutation
  <2>2. new \in Audits
    BY <1>2 DEF Audits
  <2> HIDE DEF new
  <2>3. Request.event \in Stored
    BY <1>4 DEF Changes
  <2> DEFINE row == [events[Request.event] EXCEPT !.audit = new]
  <2>4. events[Request.event] \in Event
    BY <1>1, <2>3 DEF Stored, Tabled
  <2>5. row \in Event /\ row # None
    BY <2>2, <2>4, RowAssumption DEF Event
  <2>6. events' = [events EXCEPT ![Request.event] = row]
    BY <2>1
  <2> HIDE DEF row
  <2>7. events' \in [EventIds -> Event \cup {None}] /\ Stored \subseteq Stored'
    BY <1>1, <1>2, <2>5, <2>6 DEF Tabled, Stored
  <2> QED
    BY <1>1, <2>7, ServedKeepsInv DEF Tabled, RowsRefer
<1> QED
  BY <1>3, <1>4

LEMMA RunConfirmStep ==
    ASSUME Inv, RunConfirm
    PROVE  Inv'
<1>1. /\ gate # <<>> /\ gate' = Tail(gate) /\ Request.op = "confirm"
      /\ UNCHANGED <<clock, observing, forgotten, disturbed, resources, rules>>
      /\ Tabled /\ Apart /\ RowsRefer /\ EnginesRemember
  BY DEF RunConfirm, Serve, Request, Inv
<1> DEFINE e == Request.event
           r == Request.rule
           row == [journal |-> Request.journal, rule |-> r,
                   occurred |-> Request.at, created |-> Request.at,
                   audit |-> [status |-> "confirmed", at |-> Request.at]]
<1>2. /\ e \in EventIds /\ r \in Rules /\ Request.at \in Instants
      /\ Request.journal \in Journals
      /\ gate' \in Seq(Operations) /\ Waiting' \subseteq Waiting
  BY <1>1, TailRemoves, Fields
<1>3. row \in Event /\ row # None
  BY <1>2, RowAssumption DEF Event, Audits, Statuses
<1>4. /\ \/ /\ events' = [events EXCEPT ![e] = row]
            /\ last' = [last EXCEPT ![r] = e]
         \/ events' = events /\ last' = last
      /\ \/ memory' = memory
         \/ memory' = [memory EXCEPT ![r] = last'[r]]
  BY DEF RunConfirm
<1> HIDE DEF row, e, r
<1>5. /\ events' \in [EventIds -> Event \cup {None}] /\ Stored \subseteq Stored'
      /\ last' \in [Rules -> EventIds \cup {None}]
      /\ \A q \in Rules : last'[q] \in Stored' \cup {None}
  <2>1. CASE events' = events /\ last' = last
    BY <1>1, <2>1 DEF Tabled, Stored, RowsRefer
  <2>2. CASE /\ events' = [events EXCEPT ![e] = row]
             /\ last' = [last EXCEPT ![r] = e]
    <3>1. /\ events' \in [EventIds -> Event \cup {None}]
          /\ Stored' = Stored \cup {e}
      BY <1>1, <1>2, <1>3, <2>2 DEF Tabled, Stored
    <3>2. /\ last' \in [Rules -> EventIds \cup {None}]
          /\ \A q \in Rules : last'[q] = e \/ last'[q] = last[q]
      BY <1>1, <1>2, <2>2 DEF Tabled
    <3> QED
      BY <1>1, <3>1, <3>2 DEF RowsRefer
  <2> QED
    BY <1>4, <2>1, <2>2
<1>6. memory' \in [Rules -> EventIds \cup {None}]
  BY <1>1, <1>2, <1>4, <1>5 DEF Tabled
<1>7. Tabled'
  BY <1>1, <1>2, <1>5, <1>6 DEF Tabled
<1>8. Apart'
  BY <1>1, <1>2 DEF Apart, Undisturbed
<1>9. RowsRefer' /\ EnginesRemember'
  BY <1>1, <1>2, <1>4, <1>5
  DEF RowsRefer, EnginesRemember, Tabled, Undisturbed
<1> QED
  BY <1>7, <1>8, <1>9 DEF Inv

LEMMA RunSaveStep ==
    ASSUME Inv, RunSave
    PROVE  Inv'
<1>1. /\ gate # <<>> /\ gate' = Tail(gate) /\ Request.op = "save"
      /\ UNCHANGED <<clock, events, resources, rules, engines, disturbed>>
      /\ Tabled /\ RowsRefer
  BY DEF RunSave, Serve, Request, Inv
<1>2. Request.rule \in Rules /\ Request.event \in EventIds \cup {None}
  BY <1>1, TailRemoves, Fields
<1>3. /\ Stored' = Stored
      /\ \/ last' = last
         \/ /\ last' = [last EXCEPT ![Request.rule] = Request.event]
            /\ Request.event \in Stored \cup {None}
  BY <1>1 DEF RunSave, Savable, Stored
<1>4. /\ last' \in [Rules -> EventIds \cup {None}]
      /\ \A r \in Rules : last'[r] \in Stored' \cup {None}
  BY <1>1, <1>2, <1>3 DEF Tabled, RowsRefer
<1> QED
  BY <1>1, <1>3, <1>4, ServedKeepsInv DEF Tabled

(* What a purge or a reset deletes, no row names any more.                 *)
LEMMA RunPurgeStep ==
    ASSUME Inv, RunPurge
    PROVE  Inv'
<1>1. /\ gate # <<>> /\ gate' = Tail(gate) /\ Request.op \in Maintenance
      /\ UNCHANGED <<clock, resources, rules, engines, disturbed>>
      /\ Tabled /\ RowsRefer
  BY DEF RunPurge, Serve, Request, Inv, Maintenance
<1> DEFINE doomed == Doomed(Request.journal, Request.before)
<1>2. CASE events' = events /\ last' = last
  BY <1>1, <1>2, ServedKeepsInv DEF Tabled, RowsRefer, Stored
<1>3. CASE /\ events' = [e \in EventIds |->
                           IF e \in doomed THEN None ELSE events[e]]
           /\ last' = ClearRuntimeEvents(doomed)
  <2> HIDE DEF doomed
  <2>1. /\ events' \in [EventIds -> Event \cup {None}]
        /\ Stored' = Stored \ doomed
    BY <1>1, <1>3 DEF Tabled, Stored
  <2>2. /\ last' \in [Rules -> EventIds \cup {None}]
        /\ \A r \in Rules : last'[r] \in Stored' \cup {None}
    BY <1>1, <1>3, <2>1 DEF ClearRuntimeEvents, Tabled, RowsRefer
  <2> QED
    BY <1>1, <2>1, <2>2, ServedKeepsInv DEF Tabled
<1> QED
  BY <1>2, <1>3 DEF RunPurge

LEMMA RunResetStep ==
    ASSUME Inv, RunReset
    PROVE  Inv'
<1>1. /\ gate # <<>> /\ gate' = Tail(gate) /\ Request.op \in Maintenance
      /\ UNCHANGED <<clock, engines, disturbed>>
      /\ events' = [e \in EventIds |-> None]
      /\ resources' = {} /\ rules' = [r \in Rules |-> None]
      /\ last' = [r \in Rules |-> None]
  BY DEF RunReset, Serve, Request, Maintenance
<1> QED
  BY <1>1, ServedKeepsInv

LEMMA RunUpsertsStep ==
    ASSUME Inv, RunUpsert \/ RunUpsertRule \/ Fail
    PROVE  Inv'
<1>1. /\ gate # <<>> /\ gate' = Tail(gate)
      /\ UNCHANGED <<clock, events, last, engines, disturbed>>
      /\ Tabled /\ RowsRefer
  BY DEF RunUpsert, RunUpsertRule, Fail, Serve, Tables, Inv
<1>2. Stored' = Stored
  BY <1>1 DEF Stored
<1>3. /\ resources' \subseteq Journals \cup Bases
      /\ rules' \in [Rules -> Journals \cup {None}]
  <2>1. CASE RunUpsert
    <3>1. Request.row \in Journals \cup Bases
      BY <1>1, <2>1, TailRemoves, Fields DEF RunUpsert, Serve, Request
    <3> QED
      BY <1>1, <2>1, <3>1 DEF RunUpsert, Tabled
  <2>2. CASE RunUpsertRule
    <3>1. Request.rule \in Rules /\ Request.journal \in Journals
      BY <1>1, <2>2, TailRemoves, Fields DEF RunUpsertRule, Serve, Request
    <3> QED
      BY <1>1, <2>2, <3>1 DEF RunUpsertRule, Tabled
  <2>3. CASE Fail
    BY <1>1, <2>3 DEF Fail, Tables, Tabled
  <2> QED
    BY <2>1, <2>2, <2>3
<1> QED
  BY <1>1, <1>2, <1>3, ServedKeepsInv DEF Tabled, RowsRefer

-----------------------------------------------------------------------------
(* The theorem.                                                            *)

LEMMA InitInv == Init => Inv
<1> SUFFICES ASSUME Init
             PROVE  Inv
  OBVIOUS
<1>1. gate = <<>> /\ Waiting = {} /\ clock \in Instants
  BY StoreAssumption DEF Init, Waiting, Instants
<1> QED
  BY <1>1 DEF Init, Inv, Tabled, Apart, RowsRefer, EnginesRemember

LEMMA NextInv == Inv /\ [Next]_vars => Inv'
<1> SUFFICES ASSUME Inv, [Next]_vars
             PROVE  Inv'
  OBVIOUS
<1>1. CASE Tick \/ AdjustClock
  <2>1. /\ clock' \in Instants
        /\ UNCHANGED <<Tables, engines, gate>>
        /\ disturbed' \in {disturbed, disturbed \cup {"clock"}}
    BY <1>1, StoreAssumption
    DEF Tick, AdjustClock, Disturb, Inv, Tabled, Instants
  <2> QED
    BY <2>1 DEF Inv, Tabled, Apart, RowsRefer, EnginesRemember, Stored,
       Waiting, Tables, engines, Undisturbed
<1>2. CASE Resume
  <2>1. Undisturbed({"cancel"}) => \A o \in Waiting : o.op \notin Maintenance
    BY <1>2 DEF Resume, Rebuilding, Inv, Apart, Waiting
  <2> QED
    BY <1>2, <2>1 DEF Resume, Inv, Tabled, Apart, RowsRefer,
       EnginesRemember, Stored, Waiting, Tables, Undisturbed
<1>3. CASE \E r \in Rules : ForgetEngine(r)
  <2>1. PICK r \in Rules : ForgetEngine(r)
    BY <1>3
  <2> DEFINE lost == [event |-> last[r], journal |-> rules[r]]
  <2>2. /\ UNCHANGED <<clock, Tables, memory, observing, gate>>
        /\ forgotten' = [forgotten EXCEPT ![r] = lost]
        /\ disturbed' = disturbed \cup {"forget"}
    BY <2>1 DEF ForgetEngine, Disturb
  <2>3. lost \in Engine
    BY <2>1 DEF ForgetEngine, Known, Inv, Tabled, Engine
  <2> HIDE DEF lost
  <2> QED
    BY <2>2, <2>3 DEF Inv, Tabled, Apart, RowsRefer, EnginesRemember, Stored,
       Waiting, Tables, Undisturbed
<1>4. CASE CancelCall
  <2>1. /\ gate' \in Seq(Operations) /\ UNCHANGED <<clock, Tables, engines>>
        /\ disturbed' = disturbed \cup {"cancel"}
    BY <1>4, CancelMoves DEF CancelCall, Disturb, Inv
  <2>2. ~Undisturbed({"cancel"})'
    BY <2>1 DEF Undisturbed
  <2> QED
    BY <2>1, <2>2 DEF Inv, Tabled, Apart, RowsRefer, EnginesRemember, Stored,
       Tables, engines
<1>5. CASE Die
  <2>1. gate' = <<>> /\ DOMAIN gate' = {} /\ gate' \in Seq(Operations)
    BY <1>5 DEF Die
  <2> QED
    BY <1>5, <2>1 DEF Die, Tables, Inv, Tabled, Apart, RowsRefer,
       EnginesRemember, Stored, Waiting, Undisturbed
<1>6. CASE UNCHANGED vars
  BY <1>6 DEF vars, Tables, engines, Inv, Tabled, Apart, RowsRefer,
     EnginesRemember, Stored, Waiting, Undisturbed
<1>7. CASE Calls
  BY <1>7, CallJoins, CallKeepsInv
<1> QED
  BY <1>1, <1>2, <1>3, <1>4, <1>5, <1>6, <1>7, RunAddStep, RunMutationStep,
     RunConfirmStep, RunSaveStep, RunPurgeStep, RunResetStep, RunUpsertsStep
  DEF Next, Calls

(* No order of purges, resets, upserts, confirmations and saves leaves a   *)
(* running engine (engine.py) with an event that storage/maintenance.py    *)
(* deleted, while no caller leaves its worker behind.                      *)
THEOREM EnginesNeverStranded == Spec => []EnginesCanSave
<1>1. Inv => EnginesCanSave
  BY DEF Inv, EnginesRemember, EnginesCanSave, Savable, Known
<1>2. Inv /\ [Next]_vars => Inv'
  BY NextInv
<1> QED
  BY InitInv, <1>1, <1>2, PTL DEF Spec

-----------------------------------------------------------------------------
(* Identifiers, dates and revisions.                                       *)

Typed == revisions \in [EventIds -> Seq(Revision)] /\ used \subseteq EventIds

(* A waiting event has no row and no revision yet, and no other waits that *)
(* has its identifier.                                                     *)
Fresh ==
    /\ Stored \subseteq used
    /\ \A e \in EventIds : e \notin Stored => revisions[e] = <<>>
    /\ \A i \in DOMAIN gate :
         Creates(gate[i]) => gate[i].event \in used \ Stored
    /\ \A i, k \in DOMAIN gate :
         i # k /\ Creates(gate[i]) /\ Creates(gate[k])
         => gate[i].event # gate[k].event

(* Clock and gate keep the order of things.                                *)
Steady == Undisturbed({"clock", "cancel"})

(* Instants wait in order, behind those of the tables and not past now.    *)
Dated ==
    /\ \A i \in DOMAIN gate : Stamped(gate[i]) => gate[i].at <= clock
    /\ \A i, k \in DOMAIN gate :
         i < k /\ Stamped(gate[i]) /\ Stamped(gate[k])
         => gate[i].at <= gate[k].at
    /\ \A e \in Stored :
         /\ events[e].audit.at <= clock
         /\ \A i \in DOMAIN gate :
              Stamped(gate[i]) => events[e].audit.at <= gate[i].at

Ordered ==
    \A e \in Stored : \A i, k \in DOMAIN revisions[e] :
        i < k => revisions[e][i].new.at <= revisions[e][k].new.at

AuditInv == Typed /\ Fresh /\ TrailExplainsStatus
DateInv == Dated /\ Ordered

(* What a step is to the events: a call that joins the gate (Joined), an   *)
(* operation that leaves it and drops, records, revises or deletes events  *)
(* or opens a journal, a cancelled call that others overtake, a death, or  *)
(* nothing but time.                                                       *)
Left == gate # <<>> /\ gate' = Tail(gate) /\ UNCHANGED <<clock, used, disturbed>>

Dropped == Left /\ UNCHANGED <<events, revisions, resources>>

Opened(x) ==
    /\ Left /\ ~Creates(Request)
    /\ x \in Journals \cup Bases /\ resources' = resources \cup {x}
    /\ UNCHANGED <<events, revisions>>

Created(at) == [status |-> "confirmed", at |-> at]

Recorded(row) ==
    /\ Left /\ Creates(Request)
    /\ row \in Event /\ row.created = Request.at
    /\ row.audit = Created(Request.at) /\ row.journal \in resources
    /\ events' = [events EXCEPT ![Request.event] = row]
    /\ UNCHANGED <<revisions, resources>>

Revised(new) ==
    /\ Left /\ Request.op = "status"
    /\ Changes(Request.event, Request.target)
    /\ new = [status |-> Request.target, at |-> Request.at]
    /\ events' = [events EXCEPT ![Request.event].audit = new]
    /\ revisions' = [revisions EXCEPT ![Request.event] =
         Append(@, [old |-> events[Request.event].audit, new |-> new])]
    /\ UNCHANGED resources

Deleted(doomed) ==
    /\ Left /\ ~Creates(Request)
    /\ events' = [e \in EventIds |-> IF e \in doomed THEN None ELSE events[e]]
    /\ revisions' =
         [e \in EventIds |-> IF e \in doomed THEN <<>> ELSE revisions[e]]

Died == gate' = <<>> /\ UNCHANGED <<clock, events, revisions, resources, used,
                                    disturbed>>

Waited ==
    /\ clock' \in Instants /\ clock <= clock' /\ Steady' = Steady
    /\ UNCHANGED <<gate, events, revisions, resources, used>>

Upset ==
    /\ ~Steady'
    /\ UNCHANGED <<gate, events, revisions, resources, used>>

Kinds ==
    \/ \E o : Joined(o)
    \/ Dropped
    \/ \E x : Opened(x)
    \/ \E row : Recorded(row)
    \/ \E new : Revised(new)
    \/ \E j \in Journals, before \in Instants :
         Deleted(Doomed(j, before)) /\ resources' = resources
    \/ Deleted(Stored) /\ resources' = {}
    \/ Died
    \/ Waited
    \/ Upset
    \/ CancelCall

LEMMA ServedKinds ==
    ASSUME Inv, AuditInv,
           RunAdd \/ RunMutation \/ RunConfirm \/ RunSave \/ RunPurge
             \/ RunReset \/ RunUpsert \/ RunUpsertRule \/ Fail
    PROVE  Kinds
<1>1. CASE RunSave \/ RunUpsertRule \/ Fail
  BY <1>1
  DEF RunSave, RunUpsertRule, Fail, Serve, Tables, Kinds, Dropped, Left
<1>2. CASE RunAdd
  <2>1. Left /\ UNCHANGED <<revisions, resources>> /\ Request.op = "add"
    BY <1>2 DEF RunAdd, Serve, Left, Request
  <2>2. /\ Request.event \in EventIds /\ Request.at \in Instants
        /\ Request.journal \in Journals /\ Request.occurred \in Instants
    BY <2>1, TailRemoves, Fields DEF Left, Inv
  <2> DEFINE row == [journal |-> Request.journal, rule |-> None,
                     occurred |-> Request.occurred, created |-> Request.at,
                     audit |-> [status |-> "confirmed", at |-> Request.at]]
  <2>3. /\ row \in Event /\ row.created = Request.at
        /\ row.audit = Created(Request.at)
    BY <2>2 DEF Event, Audits, Statuses, Created
  <2>4. \/ events' = events
        \/ /\ events' = [events EXCEPT ![Request.event] = row]
           /\ row.journal \in resources
    BY <1>2 DEF RunAdd, Admits
  <2> HIDE DEF row
  <2>5. Dropped \/ Recorded(row)
    BY <2>1, <2>3, <2>4 DEF Dropped, Recorded, Creates
  <2> QED
    BY <2>5 DEF Kinds
<1>3. CASE RunConfirm
  <2>1. Left /\ UNCHANGED <<revisions, resources>> /\ Request.op = "confirm"
    BY <1>3 DEF RunConfirm, Serve, Left, Request
  <2>2. /\ Request.event \in EventIds /\ Request.at \in Instants
        /\ Request.rule \in Rules /\ Request.journal \in Journals
    BY <2>1, TailRemoves, Fields DEF Left, Inv
  <2> DEFINE row == [journal |-> Request.journal, rule |-> Request.rule,
                     occurred |-> Request.at, created |-> Request.at,
                     audit |-> [status |-> "confirmed", at |-> Request.at]]
  <2>3. /\ row \in Event /\ row.created = Request.at
        /\ row.audit = Created(Request.at)
    BY <2>2 DEF Event, Audits, Statuses, Created
  <2>4. \/ events' = events
        \/ /\ events' = [events EXCEPT ![Request.event] = row]
           /\ row.journal \in resources
    BY <1>3 DEF RunConfirm, Admits
  <2> HIDE DEF row
  <2>5. Dropped \/ Recorded(row)
    BY <2>1, <2>3, <2>4 DEF Dropped, Recorded, Creates
  <2> QED
    BY <2>5 DEF Kinds
<1>4. CASE RunMutation
  <2>1. Left /\ Request.op = "status" /\ resources' = resources
    BY <1>4 DEF RunMutation, Serve, Left, Request
  <2> DEFINE new == [status |-> Request.target, at |-> Request.at]
  <2>2. CASE Changes(Request.event, Request.target)
    <3>1. Revised(new)
      BY <1>4, <2>1, <2>2 DEF RunMutation, Revised
    <3> QED
      BY <3>1 DEF Kinds
  <2>3. CASE ~Changes(Request.event, Request.target)
    BY <1>4, <2>1, <2>3 DEF RunMutation, Kinds, Dropped
  <2> QED
    BY <2>2, <2>3
<1>5. CASE RunPurge
  <2>1. Left /\ Request.op = "purge" /\ resources' = resources
    BY <1>5 DEF RunPurge, Serve, Left, Request
  <2>2. Request.journal \in Journals /\ Request.before \in Instants
    BY <2>1, TailRemoves, Fields DEF Left, Inv
  <2>3. Dropped \/ Deleted(Doomed(Request.journal, Request.before))
    BY <1>5, <2>1 DEF RunPurge, Dropped, Deleted, Creates
  <2> QED
    BY <2>1, <2>2, <2>3 DEF Kinds
<1>6. CASE RunReset
  <2>1. Left /\ Request.op = "reset" /\ resources' = {}
    BY <1>6 DEF RunReset, Serve, Left, Request
  <2>2. /\ events' = [e \in EventIds |-> None]
        /\ revisions' = [e \in EventIds |-> <<>>]
    BY <1>6 DEF RunReset
  <2>3. \A e \in EventIds :
          e \notin Stored => events[e] = None /\ revisions[e] = <<>>
    BY DEF Stored, AuditInv, Fresh
  <2>4. Deleted(Stored)
    BY <2>1, <2>2, <2>3 DEF Deleted, Creates
  <2> QED
    BY <2>1, <2>4 DEF Kinds
<1>7. CASE RunUpsert
  <2>1. Left /\ Request.op = "upsert"
    BY <1>7 DEF RunUpsert, Serve, Left, Request
  <2>2. Request.row \in Journals \cup Bases
    BY <2>1, TailRemoves, Fields DEF Left, Inv
  <2>3. Opened(Request.row)
    BY <1>7, <2>1, <2>2 DEF RunUpsert, Opened, Creates
  <2> QED
    BY <2>3 DEF Kinds
<1> QED
  BY <1>1, <1>2, <1>3, <1>4, <1>5, <1>6, <1>7

LEMMA StepKinds ==
    ASSUME Inv, AuditInv, [Next]_vars
    PROVE  Kinds
<1>1. clock \in Instants /\ MaxTime \in Nat
  BY StoreAssumption DEF Inv, Tabled
<1>2. CASE Tick \/ Resume \/ UNCHANGED vars
  BY <1>1, <1>2 DEF Tick, Resume, vars, Tables, Kinds, Waited, Instants,
     Steady, Undisturbed
<1>3. CASE \E r \in Rules : ForgetEngine(r)
  <2>1. /\ UNCHANGED <<clock, Tables, gate, used>>
        /\ disturbed' = disturbed \cup {"forget"}
    BY <1>3 DEF ForgetEngine, Disturb
  <2>2. Steady' = Steady
    BY <2>1 DEF Steady, Undisturbed
  <2> QED
    BY <1>1, <2>1, <2>2 DEF Kinds, Waited, Tables, Instants
<1>4. CASE AdjustClock
  BY <1>4 DEF AdjustClock, Disturb, Tables, Kinds, Upset, Steady, Undisturbed
<1>5. CASE Die
  BY <1>5 DEF Die, Tables, Kinds, Died
<1>6. CASE CancelCall
  BY <1>6 DEF Kinds
<1>7. CASE Calls
  BY <1>7, CallJoins DEF Kinds
<1> QED
  BY <1>2, <1>3, <1>4, <1>5, <1>6, <1>7, ServedKinds DEF Next, Calls

(* Where operations stand after a call joined, or the first one left.      *)
LEMMA JoinedIndices ==
    ASSUME Tabled, NEW o, Joined(o)
    PROVE  \A i \in DOMAIN gate' :
             \/ i \in DOMAIN gate /\ gate'[i] = gate[i]
             \/ /\ i \notin DOMAIN gate /\ gate'[i] = o
                /\ \A k \in DOMAIN gate : k < i
<1>1. gate \in Seq(Operations) /\ o \in Operations /\ gate' = Append(gate, o)
  BY DEF Tabled, Joined, Submit
<1>2. /\ Len(gate') = Len(gate) + 1 /\ gate' \in Seq(Operations)
      /\ \A i \in 1 .. Len(gate) : gate'[i] = gate[i]
      /\ gate'[Len(gate) + 1] = o
  BY <1>1, AppendProperties
<1>3. /\ DOMAIN gate = 1 .. Len(gate) /\ Len(gate) \in Nat
      /\ DOMAIN gate' = 1 .. Len(gate) + 1
  BY <1>1, <1>2
<1> QED
  BY <1>2, <1>3

LEMMA OnlyLastIsNew ==
    ASSUME Tabled, NEW o, Joined(o),
           NEW i \in DOMAIN gate', NEW k \in DOMAIN gate',
           i # k, i \notin DOMAIN gate
    PROVE  k \in DOMAIN gate /\ gate'[k] = gate[k]
<1>1. gate \in Seq(Operations) /\ gate' \in Seq(Operations)
  BY SubmitAdds DEF Tabled, Joined
<1>2. i \in Int /\ k \in Int
  BY <1>1
<1>3. CASE k \notin DOMAIN gate
  <2>1. Len(gate') = Len(gate) + 1
    BY <1>1, AppendProperties DEF Joined, Submit
  <2>2. i = Len(gate) + 1 /\ k = Len(gate) + 1
    BY <1>1, <1>3, <2>1
  <2> QED
    BY <2>2
<1> QED
  BY <1>3, JoinedIndices

LEMMA LeftIndices ==
    ASSUME Tabled, Left
    PROVE  /\ 1 \in DOMAIN gate /\ Request = gate[1]
           /\ DOMAIN gate \subseteq Nat \ {0}
           /\ \A i \in DOMAIN gate' :
                i \in Nat \ {0} /\ i + 1 \in DOMAIN gate /\ gate'[i] = gate[i + 1]
<1>1. gate \in Seq(Operations) /\ Len(gate) \in Nat \ {0}
      /\ DOMAIN gate = 1 .. Len(gate) /\ gate' = Tail(gate)
  BY DEF Tabled, Left
<1>2. /\ gate' \in Seq(Operations) /\ Len(gate') = Len(gate) - 1
      /\ \A i \in 1 .. Len(gate') : gate'[i] = gate[i + 1]
      /\ Head(gate) = gate[1]
  BY <1>1, HeadTailProperties
<1>3. DOMAIN gate' = 1 .. Len(gate')
  BY <1>2
<1> QED
  BY <1>1, <1>2, <1>3 DEF Request

LEMMA RequestTyped ==
    ASSUME Inv, Left
    PROVE  /\ Request \in Operations
           /\ Creates(Request) \/ Request.op = "status" =>
                Request.event \in EventIds /\ Request.at \in Instants
           /\ Request.op = "status" => Request.target \in Statuses
BY TailRemoves, Fields DEF Inv, Left, Creates

LEMMA OperationInstant ==
    ASSUME Tabled, NEW i \in DOMAIN gate, Stamped(gate[i])
    PROVE  gate[i].at \in Nat
<1>1. gate[i] \in Operations
  BY DEF Tabled
<1> QED
  BY <1>1, Fields DEF Stamped, Instants

(* An event in the table.                                                  *)
LEMMA StoredRow ==
    ASSUME Tabled, NEW e \in Stored
    PROVE  /\ e \in EventIds /\ events[e] \in Event
           /\ events[e].audit \in Audits /\ events[e].audit.at \in Nat
BY DEF Tabled, Stored, Event, Audits, Instants

-----------------------------------------------------------------------------
(* Tables that stay as they are.                                           *)

LEMMA JoinedKeepsAudit ==
    ASSUME Inv, AuditInv, NEW o, Joined(o)
    PROVE  AuditInv'
<1>1. Tabled /\ o \in Operations /\ UNCHANGED <<clock, events, revisions>>
  BY DEF Inv, Joined, Tables
<1>2. Stored' = Stored
  BY <1>1 DEF Stored
<1>3. Typed'
  BY <1>1, Fields DEF AuditInv, Typed, Joined, Creates
<1>4. Creates(o) => o.event \notin used /\ used' = used \cup {o.event}
  BY DEF Joined
<1>5. used \subseteq used'
  BY DEF Joined
<1>6. Fresh'
  <2>1. \A i \in DOMAIN gate' :
          \/ i \in DOMAIN gate /\ gate'[i] = gate[i]
          \/ i \notin DOMAIN gate /\ gate'[i] = o
    BY <1>1, JoinedIndices
  <2>2. \A i \in DOMAIN gate' :
          Creates(gate'[i]) => gate'[i].event \in used' \ Stored'
    BY <1>2, <1>4, <1>5, <2>1 DEF AuditInv, Fresh
  <2>3. \A i \in DOMAIN gate :
          Creates(gate[i]) /\ Creates(o) => gate[i].event # o.event
    BY <1>4 DEF AuditInv, Fresh
  <2>4. ASSUME NEW i \in DOMAIN gate', NEW k \in DOMAIN gate', i # k,
               Creates(gate'[i]), Creates(gate'[k])
        PROVE  gate'[i].event # gate'[k].event
    <3>1. CASE i \in DOMAIN gate /\ gate'[i] = gate[i]
      BY <2>1, <2>3, <2>4, <3>1 DEF AuditInv, Fresh
    <3>2. CASE i \notin DOMAIN gate /\ gate'[i] = o
      <4>1. k \in DOMAIN gate /\ gate'[k] = gate[k]
        BY <1>1, <2>4, <3>2, OnlyLastIsNew
      <4> QED
        BY <2>3, <2>4, <3>2, <4>1
    <3> QED
      BY <2>1, <3>1, <3>2
  <2> QED
    BY <1>1, <1>2, <1>5, <2>2, <2>4 DEF AuditInv, Fresh
<1>7. TrailExplainsStatus'
  BY <1>1, <1>2 DEF AuditInv, TrailExplainsStatus
<1> QED
  BY <1>3, <1>6, <1>7 DEF AuditInv

LEMMA JoinedKeepsDates ==
    ASSUME Inv, DateInv, NEW o, Joined(o)
    PROVE  DateInv'
<1>1. Tabled /\ o \in Operations /\ UNCHANGED <<clock, events, revisions>>
  BY DEF Inv, Joined, Tables
<1>2. Stored' = Stored
  BY <1>1 DEF Stored
<1>3. Stamped(o) => o.at = clock
  BY DEF Joined
<1>4. clock \in Nat /\ DOMAIN gate \subseteq Nat
  BY <1>1 DEF Tabled, Instants
<1>5. Dated'
  <2>1. \A i \in DOMAIN gate' : Stamped(gate'[i]) => gate'[i].at <= clock'
    BY <1>1, <1>3, <1>4, JoinedIndices DEF DateInv, Dated
  <2>2. \A i, k \in DOMAIN gate' :
          i < k /\ Stamped(gate'[i]) /\ Stamped(gate'[k])
          => gate'[i].at <= gate'[k].at
    <3> SUFFICES ASSUME NEW i \in DOMAIN gate', NEW k \in DOMAIN gate',
                        i < k, Stamped(gate'[i]), Stamped(gate'[k])
                 PROVE  gate'[i].at <= gate'[k].at
      OBVIOUS
    <3>1. CASE k \in DOMAIN gate /\ gate'[k] = gate[k]
      <4>1. i \in DOMAIN gate /\ gate'[i] = gate[i]
        <5>1. \/ i \in DOMAIN gate /\ gate'[i] = gate[i]
              \/ k < i
          BY <1>1, <3>1, JoinedIndices
        <5>2. i \in Int /\ k \in Int
          <6>1. gate' \in Seq(Operations)
            BY <1>1, SubmitAdds DEF Joined
          <6> QED
            BY <6>1
        <5> QED
          BY <5>1, <5>2
      <4> QED
        BY <3>1, <4>1 DEF DateInv, Dated
    <3>2. CASE gate'[k] = o
      BY <1>1, <1>3, <2>1, <3>2
    <3> QED
      BY <1>1, <3>1, <3>2, JoinedIndices
  <2>3. \A e \in Stored' : events'[e].audit.at <= clock'
    BY <1>1, <1>2 DEF DateInv, Dated
  <2>4. \A e \in Stored' : \A i \in DOMAIN gate' :
          Stamped(gate'[i]) => events'[e].audit.at <= gate'[i].at
    BY <1>1, <1>2, <1>3, JoinedIndices DEF DateInv, Dated
  <2> QED
    BY <2>1, <2>2, <2>3, <2>4 DEF Dated
<1>6. Ordered'
  BY <1>1, <1>2 DEF DateInv, Ordered
<1> QED
  BY <1>5, <1>6 DEF DateInv

(* What is still waiting when the first one left.                          *)
LEMMA LeftKeepsDates ==
    ASSUME Inv, DateInv, Left
    PROVE  /\ \A i \in DOMAIN gate' : Stamped(gate'[i]) => gate'[i].at <= clock'
           /\ \A i, k \in DOMAIN gate' :
                i < k /\ Stamped(gate'[i]) /\ Stamped(gate'[k])
                => gate'[i].at <= gate'[k].at
           /\ \A e \in Stored : \A i \in DOMAIN gate' :
                Stamped(gate'[i]) => events[e].audit.at <= gate'[i].at
           /\ Stamped(Request) =>
                /\ Request.at <= clock'
                /\ \A e \in Stored : events[e].audit.at <= Request.at
                /\ \A i \in DOMAIN gate' :
                     Stamped(gate'[i]) => Request.at <= gate'[i].at
<1>1. Tabled /\ Dated /\ clock' = clock
  BY DEF Inv, DateInv, Left
<1>2. /\ 1 \in DOMAIN gate /\ Request = gate[1]
      /\ \A i \in DOMAIN gate' :
           i \in Nat \ {0} /\ i + 1 \in DOMAIN gate /\ gate'[i] = gate[i + 1]
  BY <1>1, LeftIndices
<1>3. \A i, k \in DOMAIN gate' : i < k => i + 1 < k + 1
  BY <1>2
<1>4. \A i \in DOMAIN gate' : 1 < i + 1
  BY <1>2
<1> QED
  BY <1>1, <1>2, <1>3, <1>4 DEF Dated

LEMMA LeftKeepsFresh ==
    ASSUME Inv, AuditInv, Left
    PROVE  /\ Creates(Request) => Request.event \in used \ Stored
           /\ \A i \in DOMAIN gate' : Creates(gate'[i]) =>
                /\ gate'[i].event \in used' \ Stored
                /\ Creates(Request) => gate'[i].event # Request.event
           /\ \A i, k \in DOMAIN gate' :
                i # k /\ Creates(gate'[i]) /\ Creates(gate'[k])
                => gate'[i].event # gate'[k].event
<1>1. Tabled /\ Fresh /\ used' = used
  BY DEF Inv, AuditInv, Left
<1>2. /\ 1 \in DOMAIN gate /\ Request = gate[1]
      /\ \A i \in DOMAIN gate' :
           i \in Nat \ {0} /\ i + 1 \in DOMAIN gate /\ gate'[i] = gate[i + 1]
  BY <1>1, LeftIndices
<1>3. \A i \in DOMAIN gate' : 1 # i + 1
  BY <1>2
<1>4. \A i, k \in DOMAIN gate' : i # k => i + 1 # k + 1
  BY <1>2
<1> QED
  BY <1>1, <1>2, <1>3, <1>4 DEF Fresh

LEMMA DroppedKeepsAudit ==
    ASSUME Inv, AuditInv, Left, UNCHANGED <<events, revisions>>
    PROVE  AuditInv' /\ (DateInv => DateInv')
<1>1. UNCHANGED <<clock, used, events, revisions>> /\ Stored' = Stored
  BY DEF Left, Stored
<1>2. Fresh'
  BY <1>1, LeftKeepsFresh DEF AuditInv, Fresh
<1>3. DateInv => DateInv'
  BY <1>1, LeftKeepsDates DEF DateInv, Dated, Ordered
<1> QED
  BY <1>1, <1>2, <1>3 DEF AuditInv, Typed, TrailExplainsStatus

LEMMA DiedKeepsAudit ==
    ASSUME Inv, AuditInv, Died
    PROVE  AuditInv' /\ (DateInv => DateInv')
<1>1. DOMAIN gate' = {} /\ UNCHANGED <<clock, used, events, revisions>>
      /\ Stored' = Stored
  BY DEF Died, Stored
<1>2. Fresh' /\ (DateInv => DateInv')
  BY <1>1 DEF AuditInv, Fresh, DateInv, Dated, Ordered
<1> QED
  BY <1>1, <1>2 DEF AuditInv, Typed, TrailExplainsStatus

LEMMA WaitedKeepsAudit ==
    ASSUME Inv, AuditInv, Waited \/ Upset
    PROVE  AuditInv' /\ (Waited /\ DateInv => DateInv')
<1>1. UNCHANGED <<gate, used, events, revisions>> /\ Stored' = Stored
  BY DEF Waited, Upset, Stored
<1>2. ASSUME Waited, DateInv
      PROVE  DateInv'
  <2>1. Tabled /\ clock <= clock' /\ clock \in Nat /\ clock' \in Nat
    BY <1>2 DEF Inv, Tabled, Waited, Instants
  <2> QED
    BY <1>1, <1>2, <2>1, OperationInstant, StoredRow
    DEF DateInv, Dated, Ordered
<1> QED
  BY <1>1, <1>2 DEF AuditInv, Typed, Fresh, TrailExplainsStatus

(* Each operation keeps its identifier wherever it goes.                   *)
LEMMA CancelKeepsAudit ==
    ASSUME Inv, AuditInv, CancelCall
    PROVE  AuditInv' /\ ~Steady'
<1>1. UNCHANGED <<used, events, revisions>> /\ Stored' = Stored /\ ~Steady'
  BY DEF CancelCall, Disturb, Tables, Stored, Steady, Undisturbed
<1>2. Tabled /\ DOMAIN gate' = DOMAIN gate
  BY CancelMoves DEF Inv
<1>3. PICK n \in DOMAIN gate :
        /\ \A i \in DOMAIN gate :
             /\ From(n, i) \in DOMAIN gate
             /\ gate'[i].op = gate[From(n, i)].op
             /\ gate[From(n, i)].op \in {"add", "confirm"} =>
                  gate'[i].event = gate[From(n, i)].event
        /\ \A i, k \in DOMAIN gate : i # k => From(n, i) # From(n, k)
  BY CancelMoves DEF Inv
<1>4. \A i \in DOMAIN gate' :
        /\ From(n, i) \in DOMAIN gate
        /\ Creates(gate'[i]) =>
             /\ Creates(gate[From(n, i)])
             /\ gate'[i].event = gate[From(n, i)].event
  BY <1>2, <1>3 DEF Creates
<1>5. Fresh'
  <2>1. \A i \in DOMAIN gate' :
          Creates(gate'[i]) => gate'[i].event \in used' \ Stored'
    BY <1>1, <1>4 DEF AuditInv, Fresh
  <2>2. ASSUME NEW i \in DOMAIN gate', NEW k \in DOMAIN gate', i # k,
               Creates(gate'[i]), Creates(gate'[k])
        PROVE  gate'[i].event # gate'[k].event
    <3>1. From(n, i) # From(n, k)
      BY <1>2, <1>3, <2>2
    <3> QED
      BY <1>4, <2>2, <3>1 DEF AuditInv, Fresh
  <2> QED
    BY <1>1, <2>1, <2>2 DEF AuditInv, Fresh
<1> QED
  BY <1>1, <1>5 DEF AuditInv, Typed, TrailExplainsStatus

-----------------------------------------------------------------------------
(* Tables that change.                                                     *)

(* The stages of the events when one is recorded, revised, or deleted.     *)
LEMMA RecordedStored ==
    ASSUME Inv, AuditInv, NEW row, Recorded(row)
    PROVE  /\ Request.event \in EventIds /\ Request.event \in used \ Stored
           /\ Stored' = Stored \cup {Request.event}
           /\ events'[Request.event] = row
           /\ \A e \in Stored : e # Request.event /\ events'[e] = events[e]
<1>1. Left /\ Creates(Request) /\ row \in Event /\ row # None
      /\ events' = [events EXCEPT ![Request.event] = row]
  BY RowAssumption DEF Recorded
<1>2. Request.event \in EventIds /\ Request.event \in used \ Stored
  BY <1>1, RequestTyped, LeftKeepsFresh
<1>3. events \in [EventIds -> Event \cup {None}]
  BY DEF Inv, Tabled
<1>4. /\ events'[Request.event] = row
      /\ \A e \in EventIds : e # Request.event => events'[e] = events[e]
  BY <1>1, <1>2, <1>3
<1> QED
  BY <1>1, <1>2, <1>4 DEF Stored

LEMMA RevisedStored ==
    ASSUME Inv, AuditInv, NEW new, Revised(new)
    PROVE  /\ Request.event \in Stored /\ Stored' = Stored
           /\ new \in Audits /\ new.at = Request.at
           /\ new.status # events[Request.event].audit.status
           /\ events'[Request.event].audit = new
           /\ events'[Request.event].created = events[Request.event].created
           /\ \A e \in Stored : e # Request.event => events'[e] = events[e]
<1> DEFINE e == Request.event
           row == [events[e] EXCEPT !.audit = new]
<1>1. Left /\ Request.op = "status" /\ e \in Stored
      /\ new = [status |-> Request.target, at |-> Request.at]
      /\ new.status # events[e].audit.status
      /\ events' = [events EXCEPT ![e].audit = new]
  BY DEF Revised, Changes
<1>2. new \in Audits /\ new.at = Request.at
  BY <1>1, RequestTyped DEF Audits
<1>3. e \in EventIds /\ events[e] \in Event
      /\ events \in [EventIds -> Event \cup {None}]
  BY <1>1, StoredRow DEF Inv, Tabled
<1>4. row \in Event /\ row # None /\ row.audit = new
      /\ row.created = events[e].created
  BY <1>2, <1>3, RowAssumption DEF Event
<1>5. events' = [events EXCEPT ![e] = row]
  BY <1>1
<1> HIDE DEF row
<1>6. events'[e] = row /\ \A f \in EventIds : f # e => events'[f] = events[f]
  BY <1>3, <1>5
<1>7. Stored' = Stored
  BY <1>1, <1>4, <1>6 DEF Stored
<1>8. Stored \subseteq EventIds
  BY DEF Stored
<1> QED
  BY <1>1, <1>2, <1>4, <1>6, <1>7, <1>8

LEMMA DeletedStored ==
    ASSUME NEW doomed, Deleted(doomed)
    PROVE  /\ Stored' = Stored \ doomed
           /\ \A e \in Stored' :
                events'[e] = events[e] /\ revisions'[e] = revisions[e]
           /\ \A e \in EventIds :
                e \in doomed \/ revisions[e] = <<>> => revisions'[e] = <<>>
BY DEF Deleted, Stored

LEMMA RecordedKeepsAudit ==
    ASSUME Inv, AuditInv, NEW row, Recorded(row)
    PROVE  AuditInv'
<1> DEFINE e == Request.event
<1>1. Left /\ Creates(Request) /\ UNCHANGED <<used, clock, revisions>>
  BY DEF Recorded, Left
<1>2. /\ e \in EventIds /\ e \in used \ Stored /\ Stored' = Stored \cup {e}
      /\ events'[e] = row
      /\ \A f \in Stored : f # e /\ events'[f] = events[f]
  BY RecordedStored
<1>3. row.created = Request.at /\ row.audit = Created(Request.at)
      /\ row.audit.at = Request.at /\ Stamped(Request)
  BY <1>1 DEF Recorded, Created, Creates, Stamped
<1>4. revisions[e] = <<>>
  BY <1>2 DEF AuditInv, Fresh
<1> HIDE DEF e
<1>5. Fresh'
  <2>1. \A i \in DOMAIN gate' : Creates(gate'[i]) =>
          gate'[i].event \in used' \ Stored'
    BY <1>1, <1>2, LeftKeepsFresh DEF e
  <2>2. \A i, k \in DOMAIN gate' :
          i # k /\ Creates(gate'[i]) /\ Creates(gate'[k])
          => gate'[i].event # gate'[k].event
    BY <1>1, LeftKeepsFresh
  <2>3. /\ Stored' \subseteq used'
        /\ \A f \in EventIds : f \notin Stored' => revisions'[f] = <<>>
    BY <1>1, <1>2 DEF AuditInv, Fresh
  <2> QED
    BY <2>1, <2>2, <2>3 DEF Fresh
<1>6. TrailExplainsStatus'
  <2> SUFFICES ASSUME NEW f \in Stored'
               PROVE  LET trail == revisions'[f]
                          start == [status |-> "confirmed",
                                    at |-> events'[f].created]
                      IN  /\ \A i \in DOMAIN trail :
                               /\ trail[i].old = IF i = 1 THEN start
                                                 ELSE trail[i - 1].new
                               /\ trail[i].new.status # trail[i].old.status
                          /\ events'[f].audit =
                               IF trail = <<>> THEN start
                               ELSE trail[Len(trail)].new
    BY DEF TrailExplainsStatus
  <2>1. CASE f = e
    BY <1>1, <1>2, <1>3, <1>4, <2>1 DEF Created
  <2>2. CASE f \in Stored
    BY <1>1, <1>2, <2>2 DEF AuditInv, TrailExplainsStatus
  <2> QED
    BY <1>2, <2>1, <2>2
<1> QED
  BY <1>1, <1>5, <1>6 DEF AuditInv, Typed

LEMMA RecordedKeepsDates ==
    ASSUME Inv, AuditInv, DateInv, NEW row, Recorded(row)
    PROVE  DateInv'
<1> DEFINE e == Request.event
<1>1. Left /\ Creates(Request) /\ UNCHANGED <<used, clock, revisions>>
  BY DEF Recorded, Left
<1>2. /\ e \in EventIds /\ e \in used \ Stored /\ Stored' = Stored \cup {e}
      /\ events'[e] = row
      /\ \A f \in Stored : f # e /\ events'[f] = events[f]
  BY RecordedStored
<1>3. row.created = Request.at /\ row.audit = Created(Request.at)
      /\ row.audit.at = Request.at /\ Stamped(Request)
  BY <1>1 DEF Recorded, Created, Creates, Stamped
<1>4. revisions[e] = <<>>
  BY <1>2 DEF AuditInv, Fresh
<1> HIDE DEF e
<1>5. Dated'
  <2>1. /\ \A i \in DOMAIN gate' : Stamped(gate'[i]) => gate'[i].at <= clock'
        /\ \A i, k \in DOMAIN gate' :
             i < k /\ Stamped(gate'[i]) /\ Stamped(gate'[k])
             => gate'[i].at <= gate'[k].at
    BY <1>1, LeftKeepsDates
  <2>2. ASSUME NEW f \in Stored'
        PROVE  /\ events'[f].audit.at <= clock'
               /\ \A i \in DOMAIN gate' :
                    Stamped(gate'[i]) => events'[f].audit.at <= gate'[i].at
    <3>1. CASE f = e
      BY <1>1, <1>2, <1>3, <3>1, LeftKeepsDates
    <3>2. CASE f \in Stored
      BY <1>1, <1>2, <3>2, LeftKeepsDates DEF DateInv, Dated
    <3> QED
      BY <1>2, <3>1, <3>2
  <2> QED
    BY <2>1, <2>2 DEF Dated
<1>6. Ordered'
  BY <1>1, <1>2, <1>4 DEF DateInv, Ordered
<1> QED
  BY <1>5, <1>6 DEF DateInv

(* No revision is younger than the state of its event.                     *)
LEMMA TrailBounded ==
    ASSUME Inv, AuditInv, DateInv, NEW e \in Stored, NEW i \in DOMAIN revisions[e]
    PROVE  revisions[e][i].new.at <= events[e].audit.at
<1> DEFINE trail == revisions[e]
           n == Len(trail)
<1>1. trail \in Seq(Revision) /\ trail # <<>> /\ n \in Nat /\ i \in 1 .. n
  BY StoredRow DEF Inv, AuditInv, Typed
<1>2. events[e].audit = trail[n].new
  BY <1>1 DEF AuditInv, TrailExplainsStatus
<1>3. CASE i = n
  <2>1. events[e].audit.at \in Nat
    BY StoredRow DEF Inv
  <2> QED
    BY <1>2, <1>3, <2>1
<1>4. CASE i < n
  BY <1>1, <1>2, <1>4 DEF DateInv, Ordered
<1> QED
  BY <1>1, <1>3, <1>4

LEMMA RevisedKeepsAudit ==
    ASSUME Inv, AuditInv, NEW new, Revised(new)
    PROVE  AuditInv'
<1> DEFINE e == Request.event
           old == events[e].audit
           step == [old |-> old, new |-> new]
           n == Len(revisions[e])
<1>1. Left /\ UNCHANGED <<used, clock>> /\ Stamped(Request)
      /\ revisions' = [revisions EXCEPT ![e] = Append(@, step)]
  BY DEF Revised, Left, Stamped
<1>2. /\ e \in Stored /\ Stored' = Stored
      /\ new \in Audits /\ new.at = Request.at /\ new.status # old.status
      /\ events'[e].audit = new /\ events'[e].created = events[e].created
      /\ \A f \in Stored : f # e => events'[f] = events[f]
  BY RevisedStored
<1>3. e \in EventIds /\ old \in Audits /\ step \in Revision
  BY <1>2, StoredRow DEF Inv, Revision
<1>4. revisions \in [EventIds -> Seq(Revision)] /\ revisions[e] \in Seq(Revision)
  BY <1>3 DEF AuditInv, Typed
<1>5. /\ revisions'[e] \in Seq(Revision) /\ Len(revisions'[e]) = n + 1
      /\ n \in Nat /\ DOMAIN revisions[e] = 1 .. n
      /\ DOMAIN revisions'[e] = 1 .. n + 1
      /\ \A i \in 1 .. n : revisions'[e][i] = revisions[e][i]
      /\ revisions'[e][n + 1] = step
  <2>1. revisions'[e] = Append(revisions[e], step)
    BY <1>1, <1>3, <1>4
  <2> HIDE DEF step
  <2>2. /\ revisions'[e] \in Seq(Revision) /\ Len(revisions'[e]) = n + 1
        /\ \A i \in 1 .. n : revisions'[e][i] = revisions[e][i]
        /\ revisions'[e][n + 1] = step
    BY <1>3, <1>4, <2>1, AppendProperties
  <2> QED
    BY <1>4, <2>2
<1>6. \A f \in EventIds : f # e => revisions'[f] = revisions[f]
  BY <1>1, <1>4
<1>7. Typed'
  <2>1. revisions' \in [EventIds -> Seq(Revision)]
    <3>1. Append(revisions[e], step) \in Seq(Revision)
      BY <1>1, <1>3, <1>4, <1>5
    <3> QED
      BY <1>1, <1>3, <1>4, <3>1
  <2> QED
    BY <1>1, <2>1 DEF AuditInv, Typed
<1>8. step.old = old /\ step.new = new
  OBVIOUS
<1> HIDE DEF e, n, step
<1>9. Fresh'
  BY <1>1, <1>2, <1>6, LeftKeepsFresh DEF AuditInv, Fresh
<1>10. TrailExplainsStatus'
  <2> DEFINE first == [status |-> "confirmed", at |-> events[e].created]
  <2> SUFFICES ASSUME NEW f \in Stored
               PROVE  LET trail == revisions'[f]
                          start == [status |-> "confirmed",
                                    at |-> events'[f].created]
                      IN  /\ \A i \in DOMAIN trail :
                               /\ trail[i].old = IF i = 1 THEN start
                                                 ELSE trail[i - 1].new
                               /\ trail[i].new.status # trail[i].old.status
                          /\ events'[f].audit =
                               IF trail = <<>> THEN start
                               ELSE trail[Len(trail)].new
    BY <1>2 DEF TrailExplainsStatus
  <2>1. CASE f # e
    <3>1. events'[f] = events[f] /\ revisions'[f] = revisions[f]
      BY <1>2, <1>6, <2>1 DEF Stored
    <3> QED
      BY <3>1 DEF AuditInv, TrailExplainsStatus
  <2>2. CASE f = e
    <3>1. /\ \A i \in 1 .. n :
               /\ revisions[e][i].old = IF i = 1 THEN first
                                        ELSE revisions[e][i - 1].new
               /\ revisions[e][i].new.status # revisions[e][i].old.status
          /\ old = IF revisions[e] = <<>> THEN first
                   ELSE revisions[e][n].new
      <4>1. Len(revisions[e]) = n
        BY DEF n
      <4>2. /\ \A i \in DOMAIN revisions[e] :
                 /\ revisions[e][i].old = IF i = 1 THEN first
                                          ELSE revisions[e][i - 1].new
                 /\ revisions[e][i].new.status # revisions[e][i].old.status
            /\ events[e].audit =
                 IF revisions[e] = <<>> THEN first
                 ELSE revisions[e][Len(revisions[e])].new
        BY <1>2, Zenon DEF AuditInv, TrailExplainsStatus
      <4> HIDE DEF first
      <4> QED
        BY <1>5, <4>1, <4>2
    <3>2. revisions[e] = <<>> <=> n = 0
      BY <1>4, <1>5 DEF n
    <3>3. ASSUME NEW i \in 1 .. n + 1
          PROVE  /\ revisions'[e][i].old = IF i = 1 THEN first
                                           ELSE revisions'[e][i - 1].new
                 /\ revisions'[e][i].new.status # revisions'[e][i].old.status
      <4>1. CASE i \in 1 .. n
        <5>1. i = 1 \/ i - 1 \in 1 .. n
          BY <1>5, <4>1
        <5> QED
          BY <1>5, <3>1, <4>1, <5>1
      <4>2. CASE i = n + 1
        <5>1. i = 1 <=> n = 0
          BY <1>5, <4>2
        <5>2. n # 0 => n \in 1 .. n /\ i - 1 = n
          BY <1>5, <4>2
        <5>3. revisions'[e][i].old = old /\ revisions'[e][i].new = new
          BY <1>5, <1>8, <4>2
        <5> QED
          BY <1>2, <1>5, <3>1, <3>2, <5>1, <5>2, <5>3
      <4> QED
        BY <1>5, <4>1, <4>2
    <3>4. revisions'[e] # <<>> /\ revisions'[e][Len(revisions'[e])].new = new
      BY <1>5, <1>8
    <3> QED
      BY <1>2, <1>5, <2>2, <3>3, <3>4
  <2> QED
    BY <2>1, <2>2
<1> QED
  BY <1>7, <1>9, <1>10 DEF AuditInv

LEMMA RevisedKeepsDates ==
    ASSUME Inv, AuditInv, DateInv, NEW new, Revised(new)
    PROVE  DateInv'
<1> DEFINE e == Request.event
           old == events[e].audit
           step == [old |-> old, new |-> new]
           n == Len(revisions[e])
<1>1. Left /\ UNCHANGED <<used, clock>> /\ Stamped(Request)
      /\ revisions' = [revisions EXCEPT ![e] = Append(@, step)]
  BY DEF Revised, Left, Stamped
<1>2. /\ e \in Stored /\ Stored' = Stored
      /\ new \in Audits /\ new.at = Request.at /\ new.status # old.status
      /\ events'[e].audit = new /\ events'[e].created = events[e].created
      /\ \A f \in Stored : f # e => events'[f] = events[f]
  BY RevisedStored
<1>3. e \in EventIds /\ old \in Audits /\ step \in Revision
  BY <1>2, StoredRow DEF Inv, Revision
<1>4. revisions \in [EventIds -> Seq(Revision)] /\ revisions[e] \in Seq(Revision)
  BY <1>3 DEF AuditInv, Typed
<1>5. /\ revisions'[e] \in Seq(Revision) /\ Len(revisions'[e]) = n + 1
      /\ n \in Nat /\ DOMAIN revisions[e] = 1 .. n
      /\ DOMAIN revisions'[e] = 1 .. n + 1
      /\ \A i \in 1 .. n : revisions'[e][i] = revisions[e][i]
      /\ revisions'[e][n + 1] = step
  <2>1. revisions'[e] = Append(revisions[e], step)
    BY <1>1, <1>3, <1>4
  <2> HIDE DEF step
  <2>2. /\ revisions'[e] \in Seq(Revision) /\ Len(revisions'[e]) = n + 1
        /\ \A i \in 1 .. n : revisions'[e][i] = revisions[e][i]
        /\ revisions'[e][n + 1] = step
    BY <1>3, <1>4, <2>1, AppendProperties
  <2> QED
    BY <1>4, <2>2
<1>6. \A f \in EventIds : f # e => revisions'[f] = revisions[f]
  BY <1>1, <1>4
<1>7. step.old = old /\ step.new = new
  OBVIOUS
<1> HIDE DEF e, n, step
<1>8. Dated'
  <2>1. /\ \A i \in DOMAIN gate' : Stamped(gate'[i]) => gate'[i].at <= clock'
        /\ \A i, k \in DOMAIN gate' :
             i < k /\ Stamped(gate'[i]) /\ Stamped(gate'[k])
             => gate'[i].at <= gate'[k].at
    BY <1>1, LeftKeepsDates
  <2>2. ASSUME NEW f \in Stored'
        PROVE  /\ events'[f].audit.at <= clock'
               /\ \A i \in DOMAIN gate' :
                    Stamped(gate'[i]) => events'[f].audit.at <= gate'[i].at
    <3>1. CASE f = e
      BY <1>1, <1>2, <3>1, LeftKeepsDates
    <3>2. CASE f # e
      BY <1>1, <1>2, <3>2, LeftKeepsDates DEF DateInv, Dated
    <3> QED
      BY <3>1, <3>2
  <2> QED
    BY <2>1, <2>2 DEF Dated
<1>9. Ordered'
  <2> SUFFICES ASSUME NEW f \in Stored, NEW i \in DOMAIN revisions'[f],
                      NEW k \in DOMAIN revisions'[f], i < k
               PROVE  revisions'[f][i].new.at <= revisions'[f][k].new.at
    BY <1>2 DEF Ordered
  <2>1. CASE f # e
    BY <1>6, <2>1, StoredRow DEF Inv, DateInv, Ordered
  <2>2. CASE f = e /\ k \in 1 .. n
    BY <1>2, <1>5, <2>2 DEF DateInv, Ordered
  <2>3. CASE f = e /\ k = n + 1
    <3>1. i \in 1 .. n /\ revisions'[e][k].new = new
          /\ revisions'[e][i] = revisions[e][i]
      BY <1>5, <1>7, <2>3
    <3>2. revisions[e][i].new.at <= old.at
      BY <1>2, <1>5, <3>1, TrailBounded
    <3>3. old.at <= Request.at
      BY <1>1, <1>2, LeftKeepsDates
    <3>4. /\ old.at \in Nat /\ new.at \in Nat
          /\ revisions[e][i].new.at \in Nat
      <4>1. revisions[e][i] \in Revision
        BY <1>4, <1>5, <3>1
      <4> QED
        BY <1>2, <1>3, <4>1 DEF Audits, Instants, Revision
    <3> QED
      BY <1>2, <2>3, <3>1, <3>2, <3>3, <3>4
  <2> QED
    BY <1>5, <2>1, <2>2, <2>3
<1> QED
  BY <1>8, <1>9 DEF DateInv

LEMMA DeletedKeepsAudit ==
    ASSUME Inv, AuditInv, NEW doomed, Deleted(doomed)
    PROVE  AuditInv' /\ (DateInv => DateInv')
<1>1. Left /\ UNCHANGED <<used, clock>>
  BY DEF Deleted, Left
<1>2. /\ Stored' = Stored \ doomed /\ Stored' \subseteq Stored
      /\ Stored' \subseteq EventIds
      /\ \A e \in Stored' :
           events'[e] = events[e] /\ revisions'[e] = revisions[e]
      /\ \A e \in EventIds :
           e \in doomed \/ revisions[e] = <<>> => revisions'[e] = <<>>
  BY DeletedStored DEF Stored
<1>3. Typed'
  <2>1. <<>> \in Seq(Revision)
    OBVIOUS
  <2> QED
    BY <1>1, <2>1 DEF AuditInv, Typed, Deleted
<1>4. Fresh'
  <2>1. \A i \in DOMAIN gate' : Creates(gate'[i]) =>
          gate'[i].event \in used' \ Stored'
    BY <1>1, <1>2, LeftKeepsFresh
  <2>2. \A e \in EventIds : e \notin Stored' => revisions'[e] = <<>>
    BY <1>2 DEF AuditInv, Fresh
  <2>3. Stored' \subseteq used'
    BY <1>1, <1>2 DEF AuditInv, Fresh
  <2> QED
    BY <1>1, <2>1, <2>2, <2>3, LeftKeepsFresh DEF Fresh
<1>5. DateInv => DateInv'
  BY <1>1, <1>2, LeftKeepsDates DEF DateInv, Dated, Ordered
<1>6. TrailExplainsStatus'
  BY <1>2 DEF AuditInv, TrailExplainsStatus
<1> QED
  BY <1>3, <1>4, <1>5, <1>6 DEF AuditInv

LEMMA NextAudit == Inv /\ AuditInv /\ [Next]_vars => AuditInv'
BY StepKinds, JoinedKeepsAudit, DroppedKeepsAudit, RecordedKeepsAudit,
   RevisedKeepsAudit, DeletedKeepsAudit, DiedKeepsAudit, WaitedKeepsAudit,
   CancelKeepsAudit
DEF Kinds, Dropped, Opened

(* Only a corrected clock or a cancelled caller ends the order of dates.   *)
LEMMA NextDates ==
    ASSUME Inv, AuditInv, Steady => DateInv, [Next]_vars
    PROVE  Steady' => DateInv'
<1> SUFFICES ASSUME Steady'
             PROVE  DateInv'
  OBVIOUS
<1>1. Steady
  <2>1. disturbed \subseteq disturbed'
    BY DEF Next, vars, Tick, AdjustClock, Resume, ResetDatabase, Fail,
       CancelCall, Die, RunAdd, RunMutation, RunConfirm, RunSave, RunPurge,
       RunReset, RunUpsert, RunUpsertRule, AddEvent, MutateEvent,
       EngineSaves, ForgottenFires, ForgetEngine, EngineConfirms,
       UpsertRule, UpsertResource, PurgeEvents, Pause, Disturb
  <2> QED
    BY <2>1 DEF Steady, Undisturbed
<1>2. DateInv
  BY <1>1
<1> QED
  BY <1>2, StepKinds, JoinedKeepsDates, DroppedKeepsAudit,
     RecordedKeepsDates, RevisedKeepsDates, DeletedKeepsAudit,
     DiedKeepsAudit, WaitedKeepsAudit, CancelKeepsAudit
  DEF Kinds, Dropped, Opened, Upset

-----------------------------------------------------------------------------
(* The theorems about types, trails and purges.                            *)

LEMMA InvariantsAlways == Spec => [](Inv /\ AuditInv /\ (Steady => DateInv))
<1>1. Init => AuditInv /\ DateInv
  <2> SUFFICES ASSUME Init
               PROVE  AuditInv /\ DateInv
    OBVIOUS
  <2>1. /\ DOMAIN gate = {} /\ Stored = {} /\ used = {}
        /\ \A e \in EventIds : revisions[e] = <<>>
        /\ revisions \in [EventIds -> Seq(Revision)]
    BY DEF Init, Stored
  <2> QED
    BY <2>1 DEF AuditInv, Typed, Fresh, TrailExplainsStatus, DateInv, Dated,
       Ordered
<1> DEFINE IInv == Inv /\ AuditInv /\ (Steady => DateInv)
<1>2. IInv /\ [Next]_vars => IInv'
  BY NextInv, NextAudit, NextDates
<1>3. Init => IInv
  BY InitInv, <1>1
<1> QED
  BY <1>2, <1>3, PTL DEF Spec

(* The tables, the engines' memory and the queue of the gate keep their    *)
(* types under any interleaving of calls, failures and process deaths.     *)
THEOREM TypeOKAlways == Spec => []TypeOK
<1>1. Inv /\ AuditInv => TypeOK
  BY DEF Inv, Tabled, AuditInv, Typed, TypeOK
<1> QED
  BY <1>1, InvariantsAlways, PTL

(* The revisions of every retained event (storage/events.py) lead without  *)
(* a gap from its creation to the status it has now.                       *)
THEOREM TrailsExplain == Spec => []TrailExplainsStatus
<1>1. AuditInv => TrailExplainsStatus
  BY DEF AuditInv
<1> QED
  BY <1>1, InvariantsAlways, PTL

(* Though changed_at is read before a mutation waits for the gate, the     *)
(* revisions of an event are dated in the order they were made, as long as *)
(* the clock is not set back and no cancelled caller leaves its worker     *)
(* behind in the queue.                                                    *)
THEOREM TrailsOrdered == Spec => []TrailInOrder
<1>1. (Steady => DateInv) => TrailInOrder
  BY DEF Steady, DateInv, Ordered, TrailInOrder
<1> QED
  BY <1>1, InvariantsAlways, PTL

(* A purge (storage/maintenance.py) deletes in an order that no foreign    *)
(* key refuses, and leaves every event it spares with its whole trail.     *)
THEOREM PurgesComplete == Spec => PurgeIsComplete
<1>1. ASSUME Inv, RunPurge
      PROVE  LET doomed == Doomed(Request.journal, Request.before)
             IN  /\ Stored' = Stored \ doomed
                 /\ \A e \in Stored \ doomed :
                      events'[e] = events[e] /\ revisions'[e] = revisions[e]
                 /\ \A e \in doomed : revisions'[e] = <<>>
                 /\ \A r \in Rules : last'[r] \notin doomed
  <2> DEFINE doomed == Doomed(Request.journal, Request.before)
             kept == [e \in EventIds |->
                        IF e \in doomed THEN <<>> ELSE revisions[e]]
             cleared == ClearRuntimeEvents(doomed)
  <2>1. doomed \subseteq EventIds /\ None \notin doomed
    BY StoreAssumption DEF Doomed, Stored
  <2>2. \A r \in Rules : cleared[r] \notin doomed
    BY <2>1 DEF ClearRuntimeEvents
  <2>3. \A e \in doomed : ~Referred(e, kept, cleared)
    BY <2>1, <2>2 DEF Referred
  <2>4. /\ events' = [e \in EventIds |->
                        IF e \in doomed THEN None ELSE events[e]]
        /\ revisions' = kept /\ last' = cleared
    BY <1>1, <2>3 DEF RunPurge
  <2> HIDE DEF doomed, cleared
  <2>5. Stored' = Stored \ doomed /\ Stored \subseteq EventIds
    BY <2>4 DEF Stored
  <2>6. \A e \in Stored \ doomed :
          events'[e] = events[e] /\ revisions'[e] = revisions[e]
    BY <2>4, <2>5
  <2>7. \A e \in doomed : revisions'[e] = <<>>
    BY <2>1, <2>4
  <2> QED
    BY <2>2, <2>4, <2>5, <2>6, <2>7 DEF doomed
<1>2. Inv /\ [Next]_vars => (RunPurge =>
         LET doomed == Doomed(Request.journal, Request.before)
         IN  /\ Stored' = Stored \ doomed
             /\ \A e \in Stored \ doomed :
                  events'[e] = events[e] /\ revisions'[e] = revisions[e]
             /\ \A e \in doomed : revisions'[e] = <<>>
             /\ \A r \in Rules : last'[r] \notin doomed)
  BY <1>1
<1> QED
  BY <1>2, InvariantsAlways, PTL DEF Spec, PurgeIsComplete

-----------------------------------------------------------------------------
(* The refinement of AuditedEvents.                                        *)

LEMMA LifeStages ==
    ASSUME AuditInv
    PROVE  /\ Audited!In("unborn") = EventIds \ used
           /\ Audited!In("stored") = Stored
           /\ Audited!In("requested")
                = {e \in used \ Stored : Awaited(e)}
BY DEF Audited!In, Life, AuditInv, Typed, Fresh, Stored

LEMMA JoinedAwaits ==
    ASSUME Inv, NEW o, Joined(o), NEW e
    PROVE  Awaited(e)' <=> Awaited(e) \/ (Creates(o) /\ o.event = e)
<1>1. Tabled /\ gate \in Seq(Operations) /\ gate' \in Seq(Operations)
      /\ gate' = Append(gate, o) /\ o \in Operations
  BY SubmitAdds DEF Inv, Tabled, Joined, Submit
<1>2. /\ Len(gate') = Len(gate) + 1
      /\ \A i \in 1 .. Len(gate) : gate'[i] = gate[i]
      /\ gate'[Len(gate) + 1] = o
  BY <1>1, AppendProperties
<1>3. /\ DOMAIN gate = 1 .. Len(gate) /\ Len(gate) \in Nat
      /\ DOMAIN gate' = 1 .. Len(gate) + 1
  BY <1>1, <1>2
<1>4. \A i \in DOMAIN gate : i \in DOMAIN gate' /\ gate'[i] = gate[i]
  BY <1>2, <1>3
<1>5. Len(gate) + 1 \in DOMAIN gate'
  BY <1>3
<1> QED
  BY <1>1, <1>2, <1>4, <1>5, JoinedIndices DEF Awaited, Creates

LEMMA LeftAwaits ==
    ASSUME Inv, AuditInv, Left, NEW e
    PROVE  Awaited(e)' <=>
             Awaited(e) /\ ~(Creates(Request) /\ Request.event = e)
<1>1. Tabled /\ Fresh
  BY DEF Inv, AuditInv
<1>2. /\ 1 \in DOMAIN gate /\ Request = gate[1]
      /\ \A i \in DOMAIN gate' :
           i \in Nat \ {0} /\ i + 1 \in DOMAIN gate /\ gate'[i] = gate[i + 1]
  BY <1>1, LeftIndices
<1>3. \A i \in DOMAIN gate : i # 1 => i - 1 \in DOMAIN gate' /\ i = (i - 1) + 1
  <2>1. /\ gate \in Seq(Operations) /\ gate' \in Seq(Operations)
        /\ Len(gate') = Len(gate) - 1
    BY <1>1, HeadTailProperties, TailRemoves DEF Tabled, Left
  <2> QED
    BY <2>1
<1>4. ASSUME Awaited(e)'
      PROVE  Awaited(e) /\ ~(Creates(Request) /\ Request.event = e)
  <2>1. PICK i \in DOMAIN gate' : Creates(gate'[i]) /\ gate'[i].event = e
    BY <1>4 DEF Awaited, Creates
  <2>2. Awaited(e)
    BY <1>2, <2>1 DEF Awaited, Creates
  <2> QED
    BY <2>1, <2>2, LeftKeepsFresh
<1>5. ASSUME Awaited(e), ~(Creates(Request) /\ Request.event = e)
      PROVE  Awaited(e)'
  <2>1. PICK i \in DOMAIN gate : Creates(gate[i]) /\ gate[i].event = e
    BY <1>5 DEF Awaited, Creates
  <2>2. i # 1
    BY <1>2, <1>5, <2>1
  <2>3. i - 1 \in DOMAIN gate' /\ gate'[i - 1] = gate[i]
    BY <1>2, <1>3, <2>2
  <2> QED
    BY <2>1, <2>3 DEF Awaited, Creates
<1> QED
  BY <1>4, <1>5

LEMMA CancelAwaits ==
    ASSUME Inv, CancelCall, NEW e
    PROVE  Awaited(e)' <=> Awaited(e)
<1>1. DOMAIN gate' = DOMAIN gate
  BY CancelMoves DEF Inv
<1>2. PICK n \in DOMAIN gate :
        /\ \A i \in DOMAIN gate :
             /\ From(n, i) \in DOMAIN gate
             /\ gate'[i].op = gate[From(n, i)].op
             /\ gate[From(n, i)].op \in {"add", "confirm"} =>
                  gate'[i].event = gate[From(n, i)].event
        /\ \A k \in DOMAIN gate : \E i \in DOMAIN gate : From(n, i) = k
  BY CancelMoves DEF Inv
<1>3. Awaited(e)' => Awaited(e)
  BY <1>1, <1>2 DEF Awaited
<1>4. Awaited(e) => Awaited(e)'
  BY <1>1, <1>2 DEF Awaited
<1> QED
  BY <1>3, <1>4

(* A request that waits has no row yet; one that leaves is awaited.        *)
LEMMA RequestAwaited ==
    ASSUME Inv, AuditInv, Left, Creates(Request)
    PROVE  /\ Request.event \in EventIds
           /\ Request.event \in Audited!In("requested")
<1>1. /\ Request.event \in EventIds /\ Request.event \in used \ Stored
  BY RequestTyped, LeftKeepsFresh
<1>2. Awaited(Request.event)
  <2>1. 1 \in DOMAIN gate /\ Request = gate[1]
    BY LeftIndices DEF Inv
  <2> QED
    BY <2>1 DEF Awaited, Creates
<1> QED
  BY <1>1, <1>2, LifeStages

LEMMA AwaitedIsFresh ==
    ASSUME AuditInv, NEW e, Awaited(e)
    PROVE  e \in used \ Stored
BY DEF AuditInv, Fresh, Awaited, Creates

LEMMA JoinedIsAudited ==
    ASSUME Inv, AuditInv, NEW o, Joined(o)
    PROVE  \/ UNCHANGED Audited!eventVars
           \/ \E e \in EventIds : Audited!Request(e)
<1>1. UNCHANGED <<events, revisions, resources, disturbed>>
      /\ Stored' = Stored
  BY DEF Joined, Tables, Stored
<1>2. CASE Creates(o)
  <2> DEFINE e == o.event
  <2>1. e \in EventIds /\ e \notin used /\ e \notin Stored
        /\ used' = used \cup {e}
    BY <1>2, Fields DEF Joined, Creates, AuditInv, Fresh
  <2>2. \A f \in EventIds : Awaited(f)' <=> Awaited(f) \/ f = e
    BY <1>2, JoinedAwaits
  <2> HIDE DEF e
  <2>3. Life' = [f \in EventIds |-> IF f \in {e} THEN "requested" ELSE Life[f]]
    BY <1>1, <2>1, <2>2 DEF Life
  <2>4. Audited!Request(e)
    BY <1>1, <2>1, <2>3, LifeStages
    DEF Audited!Request, Audited!Become, Undisturbed
  <2> QED
    BY <2>1, <2>4
<1>3. CASE ~Creates(o)
  <2>1. used' = used /\ \A f \in EventIds : Awaited(f)' <=> Awaited(f)
    BY <1>3, JoinedAwaits DEF Joined
  <2>2. Life' = Life
    BY <1>1, <2>1 DEF Life
  <2> QED
    BY <1>1, <2>2 DEF Audited!eventVars, Undisturbed
<1> QED
  BY <1>2, <1>3

LEMMA DroppedIsAudited ==
    ASSUME Inv, AuditInv, Dropped
    PROVE  UNCHANGED Audited!eventVars \/ Audited!Abandon
<1>1. Left /\ UNCHANGED <<used, events, revisions, resources, disturbed>>
      /\ Stored' = Stored
  BY DEF Dropped, Left, Stored
<1>2. CASE Creates(Request)
  <2> DEFINE e == Request.event
  <2>1. e \in Audited!In("requested") /\ e \in used /\ e \notin Stored
    BY <1>1, <1>2, RequestAwaited, LeftKeepsFresh
  <2>2. \A f \in EventIds : Awaited(f)' <=> Awaited(f) /\ f # e
    BY <1>1, <1>2, LeftAwaits
  <2> HIDE DEF e
  <2>3. Life' = [f \in EventIds |-> IF f \in {e} THEN "gone" ELSE Life[f]]
    BY <1>1, <2>1, <2>2 DEF Life
  <2>4. Audited!Become({e}, "gone") /\ {e} \in SUBSET Audited!In("requested")
    BY <2>1, <2>3 DEF Audited!Become
  <2> QED
    BY <1>1, <2>4 DEF Audited!Abandon, Undisturbed
<1>3. CASE ~Creates(Request)
  <2>1. \A f \in EventIds : Awaited(f)' <=> Awaited(f)
    BY <1>1, <1>3, LeftAwaits
  <2>2. Life' = Life
    BY <1>1, <2>1 DEF Life
  <2> QED
    BY <1>1, <2>2 DEF Audited!eventVars, Undisturbed
<1> QED
  BY <1>2, <1>3

LEMMA OpenedIsAudited ==
    ASSUME Inv, AuditInv, NEW x, Opened(x)
    PROVE  UNCHANGED Audited!eventVars \/ \E j \in Journals : Audited!Open(j)
<1>1. /\ Left /\ ~Creates(Request) /\ Stored' = Stored
      /\ UNCHANGED <<used, events, revisions, disturbed>>
      /\ x \in Journals \cup Bases /\ resources' = resources \cup {x}
  BY DEF Opened, Left, Stored
<1>2. \A f \in EventIds : Awaited(f)' <=> Awaited(f)
  BY <1>1, LeftAwaits
<1>3. Life' = Life
  BY <1>1, <1>2 DEF Life
<1>4. CASE x \in Journals
  <2>1. Audited!Open(x)
    BY <1>1, <1>3, <1>4 DEF Audited!Open, Undisturbed
  <2> QED
    BY <1>4, <2>1
<1>5. CASE x \notin Journals
  <2>1. resources' \cap Journals = resources \cap Journals
    BY <1>1, <1>5
  <2> QED
    BY <1>1, <1>3, <2>1 DEF Audited!eventVars, Undisturbed
<1> QED
  BY <1>4, <1>5

LEMMA DiedIsAudited ==
    ASSUME Inv, AuditInv, Died
    PROVE  Audited!Abandon
<1>1. UNCHANGED <<used, events, revisions, resources, disturbed>>
      /\ Stored' = Stored
  BY DEF Died, Stored
<1>2. \A f \in EventIds : ~Awaited(f)'
  BY DEF Died, Awaited
<1> DEFINE es == Audited!In("requested")
<1>3. es = {e \in used \ Stored : Awaited(e)}
  BY LifeStages
<1> HIDE DEF es
<1>4. Life' = [f \in EventIds |-> IF f \in es THEN "gone" ELSE Life[f]]
  BY <1>1, <1>2, <1>3 DEF Life
<1>5. Audited!Become(es, "gone")
  BY <1>4 DEF Audited!Become
<1> QED
  BY <1>1, <1>5 DEF Audited!Abandon, Undisturbed, es

LEMMA RecordedIsAudited ==
    ASSUME Inv, AuditInv, NEW row, Recorded(row)
    PROVE  \E e \in EventIds : Audited!Record(e, events'[e])
<1> DEFINE e == Request.event
<1>1. Left /\ Creates(Request)
      /\ UNCHANGED <<used, revisions, resources, disturbed>>
      /\ row # None /\ row.journal \in resources \cap Journals
      /\ row.audit = [status |-> "confirmed", at |-> row.created]
      /\ events' = [events EXCEPT ![e] = row]
  BY RowAssumption DEF Recorded, Left, Created, Event
<1>2. /\ e \in EventIds /\ e \in Audited!In("requested")
      /\ e \in used /\ Stored' = Stored \cup {e} /\ events'[e] = row
  BY <1>1, RequestAwaited, RecordedStored
<1>3. \A f \in EventIds : Awaited(f)' <=> Awaited(f) /\ f # e
  BY <1>1, LeftAwaits
<1> HIDE DEF e
<1>4. Life' = [f \in EventIds |-> IF f \in {e} THEN "stored" ELSE Life[f]]
  BY <1>1, <1>2, <1>3 DEF Life
<1>5. Audited!Record(e, events'[e])
  BY <1>1, <1>2, <1>4 DEF Audited!Record, Audited!Become, Undisturbed
<1> QED
  BY <1>2, <1>5

LEMMA RevisedIsAudited ==
    ASSUME Inv, AuditInv, Steady => DateInv, NEW new, Revised(new)
    PROVE  \E e \in EventIds : Audited!Revise(e, events'[e])
<1> DEFINE e == Request.event
<1>1. Left /\ ~Creates(Request) /\ Stamped(Request)
      /\ UNCHANGED <<used, resources, disturbed>>
      /\ events' = [events EXCEPT ![e].audit = new]
      /\ revisions' = [revisions EXCEPT ![e] =
           Append(@, [old |-> events[e].audit, new |-> new])]
  BY DEF Revised, Left, Creates, Stamped
<1>2. /\ e \in Stored /\ Stored' = Stored
      /\ new.at = Request.at /\ new.status # events[e].audit.status
      /\ events'[e].audit = new
  BY RevisedStored
<1>3. e \in EventIds /\ events'[e] # None
  BY <1>2 DEF Stored
<1>4. ASSUME Steady
      PROVE  new.at >= events[e].audit.at
  <2>1. /\ events[e].audit.at <= Request.at
        /\ events[e].audit.at \in Nat /\ Request.at \in Nat
    BY <1>1, <1>2, <1>4, LeftKeepsDates, RequestTyped, StoredRow
    DEF Inv, Revised, Instants
  <2> QED
    BY <1>2, <2>1
<1>5. \A f \in EventIds : Awaited(f)' <=> Awaited(f)
  BY <1>1, LeftAwaits
<1>6. Life' = Life
  BY <1>1, <1>2, <1>5 DEF Life
<1> HIDE DEF e
<1>7. Audited!Revise(e, events'[e])
  BY <1>1, <1>2, <1>3, <1>4, <1>6, LifeStages
  DEF Audited!Revise, Steady, Undisturbed
<1> QED
  BY <1>3, <1>7

LEMMA DeletedIsAudited ==
    ASSUME Inv, AuditInv, NEW doomed \in SUBSET Stored, Deleted(doomed)
    PROVE  Audited!Forget(doomed)
<1>1. Left /\ ~Creates(Request) /\ used' = used
  BY DEF Deleted, Left
<1>2. Stored' = Stored \ doomed /\ Stored \subseteq used
  BY DeletedStored DEF AuditInv, Fresh
<1>3. \A f \in EventIds : Awaited(f)' <=> Awaited(f)
  BY <1>1, LeftAwaits
<1>4. \A f \in EventIds : Awaited(f) => f \notin Stored
  BY AwaitedIsFresh
<1>5. Life' = [f \in EventIds |-> IF f \in doomed THEN "gone" ELSE Life[f]]
  BY <1>1, <1>2, <1>3, <1>4 DEF Life
<1> QED
  BY <1>5 DEF Deleted, Audited!Forget, Audited!Become

LEMMA StepIsAudited ==
    ASSUME Inv, AuditInv, Steady => DateInv, [Next]_vars
    PROVE  [Audited!Next]_(Audited!eventVars)
<1>1. CASE \E o : Joined(o)
  BY <1>1, JoinedIsAudited DEF Audited!Next
<1>2. CASE Dropped
  BY <1>2, DroppedIsAudited DEF Audited!Next
<1>3. CASE \E row : Recorded(row)
  BY <1>3, RecordedIsAudited DEF Audited!Next
<1>4. CASE \E new : Revised(new)
  BY <1>4, RevisedIsAudited DEF Audited!Next
<1>5. ASSUME NEW j \in Journals, NEW before \in Instants,
             Deleted(Doomed(j, before)), resources' = resources
      PROVE  Audited!Next
  <2>1. Doomed(j, before) = Audited!Older(j, before)
    BY LifeStages DEF Doomed, Audited!Older
  <2>2. Doomed(j, before) \in SUBSET Stored
    BY DEF Doomed
  <2>3. Audited!Forget(Audited!Older(j, before))
    BY <1>5, <2>1, <2>2, DeletedIsAudited
  <2>4. disturbed' = disturbed
    BY <1>5 DEF Deleted, Left
  <2>5. Audited!Purge(Audited!Older(j, before))
    BY <1>5, <2>3, <2>4 DEF Audited!Purge, Undisturbed
  <2> QED
    BY <2>5 DEF Audited!Next
<1>6. CASE Deleted(Stored) /\ resources' = {}
  <2>1. Audited!Forget(Audited!In("stored"))
    BY <1>6, DeletedIsAudited, LifeStages
  <2>2. disturbed' = disturbed
    BY <1>6 DEF Deleted, Left
  <2>3. Audited!Reset
    BY <1>6, <2>1, <2>2 DEF Audited!Reset, Undisturbed
  <2> QED
    BY <2>3 DEF Audited!Next
<1>7. CASE Died
  BY <1>7, DiedIsAudited DEF Audited!Next
<1>8. CASE \E x : Opened(x)
  BY <1>8, OpenedIsAudited DEF Audited!Next
<1>9. CASE Waited
  <2>1. UNCHANGED <<gate, used, events, revisions, resources, Steady>>
    BY <1>9 DEF Waited
  <2> QED
    BY <2>1 DEF Audited!eventVars, Life, Awaited, Stored, Steady
<1>10. CASE Upset
  <2>1. UNCHANGED <<gate, used, events, revisions, resources>> /\ ~Steady'
    BY <1>10 DEF Upset
  <2>2. UNCHANGED Life
    BY <2>1 DEF Life, Awaited, Stored
  <2>3. Audited!Disorder
    BY <2>1, <2>2 DEF Audited!Disorder, Steady
  <2> QED
    BY <2>3 DEF Audited!Next
<1>11. CASE CancelCall
  <2>1. UNCHANGED <<used, events, revisions, resources>> /\ ~Steady'
    BY <1>11, CancelKeepsAudit DEF CancelCall, Tables
  <2>2. \A e \in EventIds : Awaited(e)' <=> Awaited(e)
    BY <1>11, CancelAwaits
  <2>3. UNCHANGED Life
    BY <2>1, <2>2 DEF Life, Stored
  <2>4. Audited!Disorder
    BY <2>1, <2>3 DEF Audited!Disorder, Steady
  <2> QED
    BY <2>4 DEF Audited!Next
<1> QED
  BY <1>1, <1>2, <1>3, <1>4, <1>5, <1>6, <1>7, <1>8, <1>9, <1>10, <1>11,
     StepKinds DEF Kinds

(* For any number of events, queued calls, failures, abandoned workers and *)
(* process deaths the tables behind the gate implement AuditedEvents: an   *)
(* identifier is stored at most once, in a journal that is there, and      *)
(* never again after a purge or reset, whatever calls for it still wait.   *)
THEOREM EventsAreAudited == Spec => KeepsAuditPromise
<1>1. Init => Audited!Init
  BY DEF Init, Audited!Init, Life, Undisturbed
<1>2. Inv /\ AuditInv /\ (Steady => DateInv) /\ [Next]_vars
        => [Audited!Next]_(Audited!eventVars)
  BY StepIsAudited
<1> QED
  BY <1>1, <1>2, InvariantsAlways, PTL
  DEF Spec, KeepsAuditPromise, Audited!Spec
=============================================================================
