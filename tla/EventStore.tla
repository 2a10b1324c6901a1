----------------------------- MODULE EventStore -----------------------------
(***************************************************************************)
(* The event tables behind the store's gate (storage/events.py,            *)
(* storage/maintenance.py, management_events.py): manual and automatic     *)
(* events, their exclusion and restoration with an audit trail, purge,     *)
(* reset and upserts.  A call reads the clock, then waits for the gate;    *)
(* the gate hands the connection over in arrival order, but to the worker  *)
(* of a cancelled caller, and every operation is one SQLite transaction    *)
(* that foreign keys can refuse.                                           *)
(*                                                                         *)
(* An engine is what the event tables know of it: the last event its row   *)
(* and its memory name.  RuleEngine has the rest.                          *)
(***************************************************************************)
EXTENDS Integers, Sequences, FiniteSets

CONSTANTS
    EventIds,     \* fresh identifiers for events
    Journals,
    Bases,        \* the tracker and the place that events and rules refer to
    Rules,
    None,         \* no event, no engine, or NULL
    MaxQueue,     \* bound: operations waiting for the gate
    MaxRevisions, \* bound: revisions of all events, written or waiting
    MaxTime,      \* bound: last instant of the clock
    MaxDisturbed  \* bound: disturbances in one behaviour, of different kinds

ASSUME StoreAssumption ==
    /\ MaxQueue \in Nat /\ MaxRevisions \in Nat /\ MaxTime \in Nat
    /\ None \notin EventIds

VARIABLES
    clock,     \* utc_now()
    events,    \* location_events
    revisions, \* event_revisions of each event, in commit order
    resources, \* rows of journals, trackers and places
    rules,     \* recording_rules.journal_id of each rule, or None
    last,      \* runtime_states.last_event_id of each rule
    memory,    \* last_event_id in the state of each rule's engine
    forgotten, \* an engine of the rule that no pause knows, or None
    observing, \* engines run; FALSE inside pause_and_drain
    gate,      \* operations waiting for the connection, oldest first
    used,      \* event identifiers generated so far
    disturbed  \* kinds of disturbance there have been

Tables == <<events, revisions, resources, rules, last>>
engines == <<memory, forgotten, observing>>
vars == <<clock, Tables, engines, gate, used, disturbed>>

Statuses == {"confirmed", "excluded"}
Instants == 0 .. MaxTime
Audits == [status : Statuses, at : Instants]
Event == [journal : Journals, rule : Rules \cup {None}, occurred : Instants,
          created : Instants, audit : Audits]
Revision == [old : Audits, new : Audits]
Engine == [event : EventIds \cup {None}, journal : Journals]

ASSUME RowAssumption ==
    None \notin Event \cup Rules \cup Journals \cup Engine

(* An operation is attended while a caller that pauses wait for awaits it. *)
EngineWork == {"confirm", "save"}
Maintenance == {"purge", "reset", "upsert", "upsertRule"}
Operations ==
    [op : {"status"}, event : EventIds, target : Statuses, at : Instants,
     attended : BOOLEAN]
    \cup [op : {"add"}, event : EventIds, journal : Journals,
          occurred : Instants, at : Instants, attended : BOOLEAN]
    \cup [op : {"confirm"}, event : EventIds, rule : Rules,
          journal : Journals, at : Instants, attended : BOOLEAN]
    \cup [op : {"save"}, rule : Rules, event : EventIds \cup {None},
          attended : BOOLEAN]
    \cup [op : {"purge"}, journal : Journals, before : Instants,
          attended : BOOLEAN]
    \cup [op : {"reset"}, attended : BOOLEAN]
    \cup [op : {"upsert"}, row : Journals \cup Bases, attended : BOOLEAN]
    \cup [op : {"upsertRule"}, rule : Rules, journal : Journals,
          attended : BOOLEAN]

Stored == {e \in EventIds : events[e] # None}
Known == {r \in Rules : rules[r] # None}

Init ==
    /\ clock = 0
    /\ events = [e \in EventIds |-> None]
    /\ revisions = [e \in EventIds |-> <<>>]
    /\ resources = Journals \cup Bases /\ rules \in [Rules -> Journals]
    /\ last = [r \in Rules |-> None] /\ memory = [r \in Rules |-> None]
    /\ forgotten = [r \in Rules |-> None]
    /\ observing = TRUE /\ gate = <<>> /\ used = {} /\ disturbed = {}

Disturb(kind) ==
    /\ kind \notin disturbed /\ Cardinality(disturbed) < MaxDisturbed
    /\ disturbed' = disturbed \cup {kind}

Tick ==
    /\ clock < MaxTime
    /\ clock' = clock + 1
    /\ UNCHANGED <<Tables, engines, gate, used, disturbed>>

(* The wall clock is corrected backwards.                                  *)
AdjustClock ==
    /\ Disturb("clock")
    /\ clock' \in {t \in Instants : t < clock}
    /\ UNCHANGED <<Tables, engines, gate, used>>

-----------------------------------------------------------------------------
(* Calls: each reads what it needs and joins the queue of the gate.        *)

\* A plausible bug of Submit, used by a mutation run only.
FaultySubmit(operation) ==
    /\ Len(gate) < MaxQueue
    /\ gate' = <<operation>> \o gate

Submit(operation) ==
    /\ Len(gate) < MaxQueue
    /\ gate' = Append(gate, operation)

AddEvent(e, j, occurred) ==
    /\ e \notin used
    /\ used' = used \cup {e}
    /\ Submit([op |-> "add", event |-> e, journal |-> j, occurred |-> occurred,
               at |-> clock, attended |-> TRUE])
    /\ UNCHANGED <<clock, Tables, engines, disturbed>>

\* A plausible bug of TargetOf, used by a mutation run only.
FaultyTargetOf(mutation) ==
    IF mutation = "exclude" THEN "excluded" ELSE "restored"

TargetOf(mutation) ==
    IF mutation = "exclude" THEN "excluded" ELSE "confirmed"

(* Changes of audit states, written or waiting.                            *)
Mutations ==
    Cardinality({x \in EventIds \X (1 .. MaxRevisions) :
                   x[2] \in DOMAIN revisions[x[1]]})
    + Cardinality({i \in DOMAIN gate : gate[i].op = "status"})

(* exclude_event and restore_event name an event they were told of.        *)
MutateEvent(e, mutation) ==
    /\ e \in Stored
    /\ Mutations < MaxRevisions
    /\ Submit([op |-> "status", event |-> e, target |-> TargetOf(mutation),
               at |-> clock, attended |-> TRUE])
    /\ UNCHANGED <<clock, Tables, engines, used, disturbed>>

(* An engine holds its own lock until its operation is answered.           *)
Working(r) ==
    \E i \in DOMAIN gate :
        gate[i].op \in EngineWork /\ gate[i].attended /\ gate[i].rule = r

(* An engine confirms into the journal its rule named when it was built.   *)
Confirms(r, e, j, attended) ==
    /\ e \notin used
    /\ used' = used \cup {e}
    /\ Submit([op |-> "confirm", event |-> e, rule |-> r, journal |-> j,
               at |-> clock, attended |-> attended])

EngineConfirms(r, e) ==
    /\ observing /\ r \in Known /\ ~Working(r)
    /\ Confirms(r, e, rules[r], TRUE)
    /\ UNCHANGED <<clock, Tables, engines, disturbed>>

EngineSaves(r) ==
    /\ observing /\ r \in Known /\ ~Working(r)
    /\ Submit([op |-> "save", rule |-> r, event |-> memory[r],
               attended |-> TRUE])
    /\ UNCHANGED <<clock, Tables, engines, used, disturbed>>

(* The last deadline of a forgotten engine confirms or saves; it is armed  *)
(* by no sample again.                                                     *)
ForgottenFires(r) ==
    /\ forgotten[r] # None
    /\ \/ \E e \in EventIds : Confirms(r, e, forgotten[r].journal, FALSE)
       \/ /\ Submit([op |-> "save", rule |-> r, event |-> forgotten[r].event,
                     attended |-> FALSE])
          /\ UNCHANGED used
    /\ forgotten' = [forgotten EXCEPT ![r] = None]
    /\ UNCHANGED <<clock, Tables, memory, observing, disturbed>>

\* A plausible bug of Pause, used by a mutation run only.
FaultyPause(operation) ==
    /\ observing
    /\ Submit(operation)
    /\ UNCHANGED <<clock, Tables, engines, used, disturbed>>

(* pause_and_drain: engines finish what they wait for, then are suspended  *)
(* and dropped; only then does the maintenance operation join the gate.    *)
Pause(operation) ==
    /\ observing /\ \A r \in Rules : ~Working(r)
    /\ observing' = FALSE /\ memory' = [r \in Rules |-> None]
    /\ Submit(operation)
    /\ UNCHANGED <<clock, Tables, forgotten, used, disturbed>>

PurgeEvents(j, before) ==
    Pause([op |-> "purge", journal |-> j, before |-> before,
           attended |-> TRUE])
ResetDatabase == Pause([op |-> "reset", attended |-> TRUE])

(* upsert_tracker, upsert_place, upsert_journal and upsert_rule; one that  *)
(* finds its row as it is leaves alone all that the event tables refer to. *)
UpsertResource(x) ==
    /\ x \notin resources
    /\ Pause([op |-> "upsert", row |-> x, attended |-> TRUE])
UpsertRule(r, j) ==
    /\ rules[r] # j
    /\ Pause([op |-> "upsertRule", rule |-> r, journal |-> j,
              attended |-> TRUE])

(* The pause's own operation was answered, or its caller was cancelled.    *)
Rebuilding ==
    /\ ~observing
    /\ \A i \in DOMAIN gate :
         gate[i].attended => gate[i].op \notin Maintenance

(* Leaving the pause recovers an engine from each row.                     *)
Resume ==
    /\ Rebuilding
    /\ observing' = TRUE
    /\ memory' = last
    /\ UNCHANGED <<clock, Tables, forgotten, gate, used, disturbed>>

(* A rebuild that fails after it recovered r's engine leaves that engine   *)
(* its timer, but in no list (manager.py:185-203); the next one goes on.   *)
ForgetEngine(r) ==
    /\ Rebuilding /\ r \in Known
    /\ Disturb("forget")
    /\ forgotten' = [forgotten EXCEPT ![r] =
                       [event |-> last[r], journal |-> rules[r]]]
    /\ UNCHANGED <<clock, Tables, memory, observing, gate, used>>

-----------------------------------------------------------------------------
(* Operations, each run by whoever reached the front of the gate.          *)

Serve(kind) == gate # <<>> /\ Head(gate).op = kind /\ gate' = Tail(gate)
Request == Head(gate)

\* A plausible bug of Admits, used by a mutation run only.
FaultyAdmits(j, r) == r = None \/ r \in Known

(* FOREIGN KEYs from an event to its journal, tracker, place and rule.     *)
Admits(j, r) == {j} \cup Bases \subseteq resources /\ (r = None \/ r \in Known)

(* An error rolls the transaction back and leaves the tables alone.        *)
RunAdd ==
    /\ Serve("add")
    /\ IF Admits(Request.journal, None)
       THEN events' = [events EXCEPT ![Request.event] =
                [journal |-> Request.journal, rule |-> None,
                 occurred |-> Request.occurred, created |-> Request.at,
                 audit |-> [status |-> "confirmed", at |-> Request.at]]]
       ELSE UNCHANGED events
    /\ UNCHANGED <<clock, revisions, resources, rules, last, engines, used,
                   disturbed>>

\* A plausible bug of Changes, used by a mutation run only.
FaultyChanges(e, target) == e \in Stored

(* UPDATE ... WHERE id=? AND status<>? changes a row.                      *)
Changes(e, target) == e \in Stored /\ events[e].audit.status # target

RunMutation ==
    /\ Serve("status")
    /\ IF Changes(Request.event, Request.target)
       THEN LET new == [status |-> Request.target, at |-> Request.at]
            IN  /\ events' = [events EXCEPT ![Request.event].audit = new]
                /\ revisions' = [revisions EXCEPT ![Request.event] =
                     Append(@, [old |-> events[Request.event].audit,
                                new |-> new])]
       ELSE UNCHANGED <<events, revisions>>
    /\ UNCHANGED <<clock, resources, rules, last, engines, used, disturbed>>

(* The event and the row in one transaction; an engine that hears of it    *)
(* adopts its state, or the row when the transition is on record already,  *)
(* by an abandoned worker or a forgotten engine.                           *)
RunConfirm ==
    /\ Serve("confirm")
    /\ \/ /\ Admits(Request.journal, Request.rule)
          /\ events' = [events EXCEPT ![Request.event] =
               [journal |-> Request.journal, rule |-> Request.rule,
                occurred |-> Request.at, created |-> Request.at,
                audit |-> [status |-> "confirmed", at |-> Request.at]]]
          /\ last' = [last EXCEPT ![Request.rule] = Request.event]
       \/ /\ \/ ~Admits(Request.journal, Request.rule)
             \/ \E e \in Stored : events[e].rule = Request.rule
          /\ UNCHANGED <<events, last>>
    /\ memory' = IF Request.attended /\ Request.rule \in Known
                 THEN [memory EXCEPT ![Request.rule] = last'[Request.rule]]
                 ELSE memory
    /\ UNCHANGED <<clock, revisions, resources, rules, forgotten, observing,
                   used, disturbed>>

(* The whole record is written back, the event it names included; FOREIGN  *)
(* KEYs refuse a rule or an event that is gone.                            *)
Savable(r, e) == r \in Known /\ e \in Stored \cup {None}

RunSave ==
    /\ Serve("save")
    /\ last' = IF Savable(Request.rule, Request.event)
               THEN [last EXCEPT ![Request.rule] = Request.event] ELSE last
    /\ UNCHANGED <<clock, events, revisions, resources, rules, engines, used,
                   disturbed>>

(* occurred_at < ? AND journal_id = ?; the services always name a journal. *)
Doomed(j, before) ==
    {e \in Stored : events[e].journal = j /\ events[e].occurred < before}

\* A plausible bug of ClearRuntimeEvents, used by a mutation run only.
FaultyClearRuntimeEvents(doomed) == last

ClearRuntimeEvents(doomed) ==
    [r \in Rules |-> IF last[r] \in doomed THEN None ELSE last[r]]

(* REFERENCES location_events(id) ON DELETE RESTRICT.                      *)
Referred(e, trails, rows) == trails[e] # <<>> \/ \E r \in Rules : rows[r] = e

(* Revisions go first, then the rows' references, then the events.         *)
RunPurge ==
    /\ Serve("purge")
    /\ LET doomed  == Doomed(Request.journal, Request.before)
           kept    == [e \in EventIds |->
                         IF e \in doomed THEN <<>> ELSE revisions[e]]
           cleared == ClearRuntimeEvents(doomed)
       IN  IF \A e \in doomed : ~Referred(e, kept, cleared)
           THEN /\ events' = [e \in EventIds |->
                                IF e \in doomed THEN None ELSE events[e]]
                /\ revisions' = kept
                /\ last' = cleared
           ELSE UNCHANGED <<events, revisions, last>>
    /\ UNCHANGED <<clock, resources, rules, engines, used, disturbed>>

RunReset ==
    /\ Serve("reset")
    /\ events' = [e \in EventIds |-> None]
    /\ revisions' = [e \in EventIds |-> <<>>]
    /\ resources' = {} /\ rules' = [r \in Rules |-> None]
    /\ last' = [r \in Rules |-> None]
    /\ UNCHANGED <<clock, engines, used, disturbed>>

RunUpsert ==
    /\ Serve("upsert")
    /\ resources' = resources \cup {Request.row}
    /\ UNCHANGED <<clock, events, revisions, rules, last, engines, used,
                   disturbed>>

(* FOREIGN KEYs from a rule to its journal, tracker and place.             *)
RunUpsertRule ==
    /\ Serve("upsertRule")
    /\ rules' = IF Admits(Request.journal, None)
                THEN [rules EXCEPT ![Request.rule] = Request.journal]
                ELSE rules
    /\ UNCHANGED <<clock, events, revisions, resources, last, engines, used,
                   disturbed>>

(* SQLite fails an operation: it is rolled back and its caller is told.    *)
Fail ==
    /\ gate # <<>>
    /\ gate' = Tail(gate)
    /\ UNCHANGED <<clock, Tables, engines, used, disturbed>>

(* The caller of the operation in front is cancelled and lets go of the    *)
(* gate; its worker reaches the connection now or after others that wait.  *)
CancelCall ==
    /\ gate # <<>>
    /\ Disturb("cancel")
    /\ \E n \in DOMAIN gate :
         gate' = [i \in DOMAIN gate |->
                    IF i < n THEN gate[i + 1]
                    ELSE IF i = n THEN [Request EXCEPT !.attended = FALSE]
                    ELSE gate[i]]
    /\ UNCHANGED <<clock, Tables, engines, used>>

(* The process dies with all that waits; the next one recovers its engines *)
(* from the rows as Resume does.                                           *)
Die ==
    /\ gate' = <<>> /\ observing' = FALSE
    /\ memory' = [r \in Rules |-> None] /\ forgotten' = memory'
    /\ UNCHANGED <<clock, Tables, used, disturbed>>

Next ==
    \/ Tick \/ AdjustClock \/ Resume \/ ResetDatabase
    \/ Fail \/ CancelCall \/ Die
    \/ RunAdd \/ RunMutation \/ RunConfirm \/ RunSave \/ RunPurge \/ RunReset
    \/ RunUpsert \/ RunUpsertRule
    \/ \E e \in EventIds, j \in Journals, t \in Instants : AddEvent(e, j, t)
    \/ \E e \in EventIds, m \in {"exclude", "restore"} : MutateEvent(e, m)
    \/ \E r \in Rules :
         \/ EngineSaves(r) \/ ForgottenFires(r) \/ ForgetEngine(r)
         \/ \E e \in EventIds : EngineConfirms(r, e)
         \/ \E j \in Journals : UpsertRule(r, j)
    \/ \E x \in Journals \cup Bases : UpsertResource(x)
    \/ \E j \in Journals, before \in Instants : PurgeEvents(j, before)

Spec == Init /\ [][Next]_vars

-----------------------------------------------------------------------------
Undisturbed(kinds) == disturbed \cap kinds = {}

(* The types of the tables, of the engines' memory and of the operations   *)
(* that wait for the gate.                                                 *)
TypeOK ==
    /\ clock \in Instants
    /\ events \in [EventIds -> Event \cup {None}]
    /\ revisions \in [EventIds -> Seq(Revision)]
    /\ resources \subseteq Journals \cup Bases
    /\ rules \in [Rules -> Journals \cup {None}]
    /\ last \in [Rules -> EventIds \cup {None}]
    /\ memory \in [Rules -> EventIds \cup {None}]
    /\ forgotten \in [Rules -> Engine \cup {None}]
    /\ observing \in BOOLEAN
    /\ gate \in Seq(Operations)
    /\ used \subseteq EventIds
    /\ disturbed \subseteq {"clock", "cancel", "forget"}

(* The audit trail of a retained event leads from its creation to the      *)
(* status it has now: every revision starts from what the one before left  *)
(* and changes it, and no change is missing.                               *)
TrailExplainsStatus ==
    \A e \in Stored :
        LET trail == revisions[e]
            start == [status |-> "confirmed", at |-> events[e].created]
        IN  /\ \A i \in DOMAIN trail :
                 /\ trail[i].old = IF i = 1 THEN start ELSE trail[i - 1].new
                 /\ trail[i].new.status # trail[i].old.status
            /\ events[e].audit =
                 IF trail = <<>> THEN start ELSE trail[Len(trail)].new

(* changed_at is read before the gate is waited for, yet while the clock   *)
(* is not set back and no caller leaves its worker behind, the revisions   *)
(* of an event carry their instants in the order they were applied.        *)
TrailInOrder ==
    Undisturbed({"clock", "cancel"}) =>
        \A e \in Stored : \A i, k \in DOMAIN revisions[e] :
            i < k => revisions[e][i].new.at <= revisions[e][k].new.at

(* While no caller leaves its worker behind, a running engine never        *)
(* remembers an event that maintenance deleted, forgotten engines or not:  *)
(* every later save of its record would be refused.                        *)
EnginesCanSave ==
    Undisturbed({"cancel"}) =>
        (observing => \A r \in Known : Savable(r, memory[r]))

(* A purge that SQLite does not fail is never refused by the references    *)
(* into the events it deletes, and takes nothing else: what survives keeps *)
(* its whole audit trail, and no row is left with an event that is gone.   *)
PurgeIsComplete ==
    [][RunPurge =>
         LET doomed == Doomed(Request.journal, Request.before)
         IN  /\ Stored' = Stored \ doomed
             /\ \A e \in Stored \ doomed :
                  events'[e] = events[e] /\ revisions'[e] = revisions[e]
             /\ \A e \in doomed : revisions'[e] = <<>>
             /\ \A r \in Rules : last'[r] \notin doomed]_vars

(* What AuditedEvents knows of an identifier: whether its event is asked   *)
(* for, stored, or will never be (again).                                  *)
Awaited(e) ==
    \E i \in DOMAIN gate : gate[i].op \in {"add", "confirm"} /\ gate[i].event = e

Life ==
    [e \in EventIds |-> IF e \notin used THEN "unborn"
                       ELSE IF e \in Stored THEN "stored"
                       ELSE IF Awaited(e) THEN "requested"
                       ELSE "gone"]

Audited == INSTANCE AuditedEvents
           WITH life <- Life, rows <- events, trails <- revisions,
                open <- resources \cap Journals,
                orderly <- Undisturbed({"clock", "cancel"})

(* Queued mutations, purges, resets, failures, abandoned workers and       *)
(* process deaths leave the promise of AuditedEvents: no event is          *)
(* overwritten, none changes without a revision, none is recorded in a     *)
(* journal that a reset erased, and none that was deleted comes back.      *)
KeepsAuditPromise == Audited!Spec
=============================================================================
