--------------------------- MODULE AuditedEvents ----------------------------
(***************************************************************************)
(* What the event tables promise, without gate, rows of rules or engines:  *)
(* an identifier becomes an event at most once and in a journal that is    *)
(* there, an event only ever changes its audit state, each change leaves a *)
(* revision, dated no earlier than the one before while the dates can be   *)
(* relied on, and only a purge or a reset ends an event, for good.         *)
(***************************************************************************)
EXTENDS Integers, Sequences

CONSTANTS EventIds, Journals, Instants, None

VARIABLES
    life,   \* stage of each identifier
    rows,   \* the event it names, or None
    trails, \* the event's revisions, oldest first
    open,   \* journals that are there
    orderly \* no clock was set back and no change overtook another

eventVars == <<life, rows, trails, open, orderly>>

Stages == {"unborn", "requested", "stored", "gone"}
In(stage) == {e \in EventIds : life[e] = stage}

Become(es, stage) ==
    life' = [e \in EventIds |-> IF e \in es THEN stage ELSE life[e]]

Init ==
    /\ life = [e \in EventIds |-> "unborn"]
    /\ rows = [e \in EventIds |-> None]
    /\ trails = [e \in EventIds |-> <<>>]
    /\ open = Journals /\ orderly = TRUE

Request(e) ==
    /\ e \in In("unborn")
    /\ Become({e}, "requested")
    /\ UNCHANGED <<rows, trails, open, orderly>>

(* Requests that are refused, fail, or die with the process.               *)
Abandon ==
    /\ \E es \in SUBSET In("requested") : Become(es, "gone")
    /\ UNCHANGED <<rows, trails, open, orderly>>

Record(e, row) ==
    /\ e \in In("requested")
    /\ row # None
    /\ row.journal \in open
    /\ row.audit = [status |-> "confirmed", at |-> row.created]
    /\ Become({e}, "stored")
    /\ rows' = [rows EXCEPT ![e] = row]
    /\ UNCHANGED <<trails, open, orderly>>

Revise(e, row) ==
    /\ e \in In("stored")
    /\ row # None
    /\ row.audit.status # rows[e].audit.status
    /\ orderly => row.audit.at >= rows[e].audit.at
    /\ rows' = [rows EXCEPT ![e].audit = row.audit]
    /\ trails' = [trails EXCEPT ![e] =
         Append(@, [old |-> rows[e].audit, new |-> row.audit])]
    /\ UNCHANGED <<life, open, orderly>>

Forget(es) ==
    /\ Become(es, "gone")
    /\ rows' = [e \in EventIds |-> IF e \in es THEN None ELSE rows[e]]
    /\ trails' = [e \in EventIds |-> IF e \in es THEN <<>> ELSE trails[e]]

Purge(es) == Forget(es) /\ UNCHANGED <<open, orderly>>

Reset ==
    /\ Forget(In("stored"))
    /\ open' = {} /\ UNCHANGED orderly

Open(j) ==
    /\ open' = open \cup {j}
    /\ UNCHANGED <<life, rows, trails, orderly>>

(* The clock is set back, or a worker is left behind: dates may disagree.  *)
Disorder ==
    /\ orderly' = FALSE
    /\ UNCHANGED <<life, rows, trails, open>>

Older(j, before) ==
    {e \in In("stored") : rows[e].journal = j /\ rows[e].occurred < before}

Next ==
    \/ Abandon
    \/ \E e \in EventIds :
         Request(e) \/ Record(e, rows'[e]) \/ Revise(e, rows'[e])
    \/ \E j \in Journals, before \in Instants : Purge(Older(j, before))
    \/ Reset \/ Disorder
    \/ \E j \in Journals : Open(j)

Spec == Init /\ [][Next]_eventVars
=============================================================================
