------------------------------- MODULE Store -------------------------------
(***************************************************************************)
(* AsyncSQLiteStore (storage/async_adapter.py) over SQLiteStore            *)
(* (storage/repository.py) and one SQLite file: opening and bootstrap, the *)
(* gate that serves callers in order, the worker threads that run their    *)
(* statements under the connection's lock, cancelled callers whose worker  *)
(* goes on, commits that fail, closing, and the death of the process.      *)
(*                                                                         *)
(* The gate is held by the operation whose stage is "held", the threading  *)
(* lock by the one whose worker is "working"; a statement or transaction   *)
(* that needs no second step takes and releases that lock in one action.   *)
(***************************************************************************)
EXTENDS Integers, Sequences, FiniteSets

CONSTANTS
    Keys,     \* idempotency keys: (rule, generation, deadline)
    NoTx,     \* no transaction is open
    Budget,   \* how often each environment disturbance may happen
    MaxCalls  \* bound: calls made

Disturbances == {"fail", "stuck", "cancel", "crash"}

ASSUME StoreAssumption ==
    /\ Budget \in [Disturbances -> Nat]
    /\ MaxCalls \in Nat

VARIABLES
    origin,     \* what the file held before the integration first opened it
    schema,     \* what its committed tables are now
    draft,      \* the tables as the open bootstrap transaction sees them
    rows,       \* committed rows: who wrote the runtime row, and the events
    tx,         \* the same rows as the open transaction sees them
    connection, \* _connection is not None
    phase,      \* where opening or closing the store is
    closing,    \* _closing
    ops,        \* every call, in the order of calls
    budget      \* disturbances left

file == <<origin, schema, rows>>
vars == <<file, draft, tx, connection, phase, closing, ops, budget>>

(* "save" stands for every transaction of one statement on the runtime row *)
(* (save and delete), "upsert" for a lone statement outside a transaction. *)
Kinds == {<<"read">>, <<"save">>, <<"upsert">>, <<"close">>}
           \cup {<<"confirm", k>> : k \in Keys}
Phases == {"new", "creating", "configuring", "open", "closed", "rejected"}
Stages == {"queued", "held", "answered", "refused", "gone", "dead"}
Workers == {"none", "waiting", "working", "finished"}

Pending == <<"pending">>
Results == {Pending, <<"ok">>, <<"created">>, <<"duplicate">>, <<"closed">>,
            <<"failed">>} \cup {<<"row", w>> : w \in 0 .. MaxCalls}
Operations == [kind : Kinds, stage : Stages, worker : Workers,
               result : Results]
Rows == [row : 0 .. MaxCalls, events : SUBSET Keys]

ASSUME RowsAssumption == NoTx \notin Rows

Init ==
    /\ origin \in {"empty", "v1", "other"}
    /\ schema = origin /\ draft = "none"
    /\ rows = [row |-> 0, events |-> {}] /\ tx = NoTx
    /\ connection = FALSE /\ phase = "new" /\ closing = FALSE
    /\ ops = <<>>
    /\ budget = Budget

Spend(d) == budget[d] > 0 /\ budget' = [budget EXCEPT ![d] = @ - 1]

-----------------------------------------------------------------------------
(* open(): validate the version, bootstrap an empty file, configure.       *)

Connect ==
    /\ phase = "new"
    /\ phase' = CASE schema = "empty" -> "creating"
                  [] schema = "v1"    -> "configuring"
                  [] OTHER            -> "rejected"
    /\ draft' = IF schema = "empty" THEN "empty" ELSE "none"
    /\ UNCHANGED <<file, tx, connection, closing, ops, budget>>

\* A plausible bug of CreateTables, used by a mutation run only.
FaultyCreateTables ==
    /\ phase = "creating" /\ draft = "empty"
    /\ draft' = "tables" /\ schema' = "tables"
    /\ UNCHANGED <<origin, rows, tx, connection, phase, closing, ops, budget>>

(* The statements of SCHEMA_STATEMENTS, of which a crash sees any prefix.  *)
CreateTables ==
    /\ phase = "creating" /\ draft = "empty"
    /\ draft' = "tables"
    /\ UNCHANGED <<file, tx, connection, phase, closing, ops, budget>>

InsertVersion ==
    /\ phase = "creating" /\ draft = "tables"
    /\ draft' = "v1"
    /\ UNCHANGED <<file, tx, connection, phase, closing, ops, budget>>

CommitBootstrap ==
    /\ phase = "creating" /\ draft = "v1"
    /\ schema' = draft /\ draft' = "none"
    /\ phase' = "configuring"
    /\ UNCHANGED <<origin, rows, tx, connection, closing, ops, budget>>

Configure ==
    /\ phase = "configuring"
    /\ connection' = TRUE /\ phase' = "open"
    /\ UNCHANGED <<file, draft, tx, closing, ops, budget>>

(* Whatever step fails, the connection is closed, which rolls back; the    *)
(* entry's next set-up opens the file again.                               *)
FailOpen ==
    /\ phase \in {"creating", "configuring"}
    /\ Spend("fail")
    /\ phase' = "new" /\ draft' = "none"
    /\ UNCHANGED <<file, tx, connection, closing, ops>>

-----------------------------------------------------------------------------
(* Callers and the gate.                                                   *)

GateFree == \A i \in DOMAIN ops : ops[i].stage # "held"
IsClose(i) == ops[i].kind[1] = "close"

Call(kind) ==
    /\ phase \in {"open", "closed"} /\ Len(ops) < MaxCalls
    /\ kind = <<"close">> =>
         \A i \in DOMAIN ops : IsClose(i) => ops[i].stage \notin {"queued", "held"}
    /\ ops' = Append(ops, [kind |-> kind, stage |-> "queued",
                           worker |-> "none", result |-> Pending])
    /\ UNCHANGED <<file, draft, tx, connection, phase, closing, budget>>

\* A plausible bug of Foremost, used by a mutation run only.
FaultyForemost(i) ==
    IsClose(i) \/ \A j \in DOMAIN ops : ops[j].stage = "queued" => i <= j

(* The next caller of the gate; a worker starts if the store accepts.      *)
Foremost(i) == \A j \in DOMAIN ops : ops[j].stage = "queued" => i <= j

Enter(i) ==
    /\ ops[i].stage = "queued" /\ GateFree /\ Foremost(i)
    /\ closing' = (closing \/ IsClose(i))
    /\ ops' = [ops EXCEPT ![i] =
         IF IsClose(i)
         THEN IF phase = "open"
              THEN [@ EXCEPT !.stage = "held", !.worker = "waiting"]
              ELSE [@ EXCEPT !.stage = "held", !.worker = "finished",
                             !.result = <<"ok">>]
         ELSE IF phase = "open" /\ ~closing
              THEN [@ EXCEPT !.stage = "held", !.worker = "waiting"]
              ELSE [@ EXCEPT !.stage = "refused"]]
    /\ UNCHANGED <<file, draft, tx, connection, phase, budget>>

Succeeded(i) == ops[i].result \notin {Pending, <<"closed">>, <<"failed">>}

\* A plausible bug of Answer, used by a mutation run only.
FaultyAnswer(i) ==
    /\ ops[i].stage = "held" /\ ops[i].worker = "finished" /\ Succeeded(i)
    /\ ops' = [ops EXCEPT ![i].stage = "answered"]
    /\ phase' = IF IsClose(i) THEN "closed" ELSE phase
    /\ UNCHANGED <<file, draft, tx, connection, closing, budget>>

(* The worker's result reaches the caller, who leaves the gate.            *)
Answer(i) ==
    /\ ops[i].stage = "held" /\ ops[i].worker = "finished"
    /\ ops' = [ops EXCEPT ![i].stage =
                 IF Succeeded(i) THEN "answered" ELSE "refused"]
    /\ phase' = IF IsClose(i) THEN "closed" ELSE phase
    /\ UNCHANGED <<file, draft, tx, connection, closing, budget>>

(* The caller's task is cancelled: it leaves the gate at once, its worker  *)
(* does not stop.  A cancelled close leaves _opened set.                   *)
Cancel(i) ==
    /\ ops[i].stage \in {"queued", "held"}
    /\ Spend("cancel")
    /\ ops' = [ops EXCEPT ![i].stage = "gone"]
    /\ UNCHANGED <<file, draft, tx, connection, phase, closing>>

-----------------------------------------------------------------------------
(* Worker threads and the connection.                                      *)

LockFree == \A i \in DOMAIN ops : ops[i].worker # "working"
InDoubt  == tx # NoTx /\ LockFree
Visible  == IF tx = NoTx THEN rows ELSE tx

Finish(i, result) ==
    ops' = [ops EXCEPT ![i].worker = "finished", ![i].result = result]

\* A plausible bug of Connected, used by a mutation run only.
FaultyConnected == TRUE
Connected == connection

\* A plausible bug of TakesLock, used by a mutation run only.
FaultyTakesLock(i) == ops[i].worker = "waiting"
TakesLock(i) == ops[i].worker = "waiting" /\ LockFree

KeepsStore == UNCHANGED <<origin, schema, draft, phase, closing, budget>>

RefuseClosed(i) ==
    /\ TakesLock(i) /\ ~Connected /\ ~IsClose(i)
    /\ Finish(i, <<"closed">>)
    /\ UNCHANGED <<rows, tx, connection>> /\ KeepsStore

CloseConnection(i) ==
    /\ TakesLock(i) /\ IsClose(i)
    /\ connection' = FALSE /\ tx' = NoTx
    /\ Finish(i, <<"ok">>)
    /\ UNCHANGED rows /\ KeepsStore

Read(i) ==
    /\ TakesLock(i) /\ Connected /\ ops[i].kind[1] = "read"
    /\ Finish(i, <<"row", Visible.row>>)
    /\ UNCHANGED <<rows, tx, connection>> /\ KeepsStore

Key(i) == ops[i].kind[2]
IsConfirm(i) == ops[i].kind[1] = "confirm"

FindDuplicate(i) ==
    /\ TakesLock(i) /\ Connected /\ IsConfirm(i) /\ Key(i) \in Visible.events
    /\ Finish(i, <<"duplicate">>)
    /\ UNCHANGED <<rows, tx, connection>> /\ KeepsStore

(* A lone statement joins a transaction that a failed commit left open.    *)
Upsert(i) ==
    /\ TakesLock(i) /\ Connected /\ ops[i].kind[1] = "upsert"
    /\ IF tx = NoTx
       THEN rows' = [rows EXCEPT !.row = i] /\ UNCHANGED tx
       ELSE tx' = [tx EXCEPT !.row = i] /\ UNCHANGED rows
    /\ Finish(i, <<"ok">>)
    /\ UNCHANGED connection /\ KeepsStore

NeedsTransaction(i) ==
    \/ ops[i].kind[1] = "save"
    \/ IsConfirm(i) /\ Key(i) \notin Visible.events

Begin(i) ==
    /\ TakesLock(i) /\ Connected /\ NeedsTransaction(i)
    /\ IF tx = NoTx
       THEN tx' = rows /\ ops' = [ops EXCEPT ![i].worker = "working"]
       ELSE Finish(i, <<"failed">>) /\ UNCHANGED tx
    /\ UNCHANGED <<rows, connection>> /\ KeepsStore

\* A plausible bug of InsertEvent, used by a mutation run only.
FaultyInsertEvent(i) ==
    /\ ops[i].worker = "working" /\ IsConfirm(i) /\ Key(i) \notin tx.events
    /\ tx' = [tx EXCEPT !.events = @ \cup {Key(i)}]
    /\ rows' = [rows EXCEPT !.events = @ \cup {Key(i)}]
    /\ UNCHANGED <<connection, ops>> /\ KeepsStore

InsertEvent(i) ==
    /\ ops[i].worker = "working" /\ IsConfirm(i) /\ Key(i) \notin tx.events
    /\ tx' = [tx EXCEPT !.events = @ \cup {Key(i)}]
    /\ UNCHANGED <<rows, connection, ops>> /\ KeepsStore

WriteRow(i) ==
    /\ ops[i].worker = "working" /\ tx.row # i
    /\ IsConfirm(i) => Key(i) \in tx.events
    /\ tx' = [tx EXCEPT !.row = i]
    /\ UNCHANGED <<rows, connection, ops>> /\ KeepsStore

Committing(i) == ops[i].worker = "working" /\ tx.row = i

\* A plausible bug of Commit, used by a mutation run only.
FaultyCommit(i) ==
    /\ Committing(i)
    /\ Finish(i, IF IsConfirm(i) THEN <<"created">> ELSE <<"ok">>)
    /\ UNCHANGED <<rows, tx, connection>> /\ KeepsStore

Commit(i) ==
    /\ Committing(i)
    /\ rows' = tx /\ tx' = NoTx
    /\ Finish(i, IF IsConfirm(i) THEN <<"created">> ELSE <<"ok">>)
    /\ UNCHANGED connection /\ KeepsStore

(* A statement, BEGIN or COMMIT fails and nothing stays open.              *)
Fail(i) ==
    /\ Spend("fail")
    /\ \/ TakesLock(i) /\ Connected /\ ~IsClose(i) /\ UNCHANGED tx
       \/ ops[i].worker = "working" /\ tx' = NoTx
    /\ Finish(i, <<"failed">>)
    /\ UNCHANGED <<file, draft, connection, phase, closing>>

(* COMMIT raises, outside the try that rolls back: the transaction stays.  *)
FailCommit(i) ==
    /\ Committing(i)
    /\ Spend("stuck")
    /\ Finish(i, <<"failed">>)
    /\ UNCHANGED <<file, draft, tx, connection, phase, closing>>

WorkerStep(i) ==
    \/ RefuseClosed(i) \/ CloseConnection(i)
    \/ Read(i) \/ FindDuplicate(i) \/ Upsert(i)
    \/ Begin(i) \/ InsertEvent(i) \/ WriteRow(i) \/ Commit(i)

-----------------------------------------------------------------------------
(* The process dies; a new one opens the file.                             *)
Crash ==
    /\ phase # "rejected"
    /\ Spend("crash")
    /\ draft' = "none" /\ tx' = NoTx
    /\ connection' = FALSE /\ phase' = "new" /\ closing' = FALSE
    /\ ops' = [i \in DOMAIN ops |->
                 IF \/ ops[i].stage \in {"queued", "held"}
                    \/ ops[i].worker \in {"waiting", "working"}
                 THEN [ops[i] EXCEPT !.stage = "dead",
                                     !.worker = IF @ = "finished" THEN @ ELSE "none"]
                 ELSE ops[i]]
    /\ UNCHANGED file

Open == Connect \/ CreateTables \/ InsertVersion \/ CommitBootstrap \/ Configure

Next ==
    \/ Open \/ FailOpen
    \/ \E kind \in Kinds : Call(kind)
    \/ \E i \in DOMAIN ops :
         \/ Enter(i) \/ Answer(i) \/ Cancel(i)
         \/ WorkerStep(i) \/ Fail(i) \/ FailCommit(i)
    \/ Crash

Spec == Init /\ [][Next]_vars

(* Threads run, the event loop delivers their results and wakes the gate's *)
(* next waiter; nobody needs to call.                                      *)
Fairness ==
    /\ WF_vars(Open)
    /\ WF_vars(\E i \in DOMAIN ops : Enter(i))
    /\ WF_vars(\E i \in DOMAIN ops : Answer(i))
    /\ WF_vars(\E i \in DOMAIN ops : WorkerStep(i))

FairSpec == Spec /\ Fairness

-----------------------------------------------------------------------------
(* Types, one holder of the gate, one thread on the connection, and a      *)
(* transaction open for that thread.                                       *)
TypeOK ==
    /\ origin \in {"empty", "v1", "other"}
    /\ schema \in {"empty", "tables", "v1", "other"}
    /\ draft \in {"none", "empty", "tables", "v1"}
    /\ rows \in Rows /\ tx \in Rows \cup {NoTx}
    /\ connection \in BOOLEAN /\ closing \in BOOLEAN
    /\ phase \in Phases
    /\ ops \in Seq(Operations)
    /\ budget \in [Disturbances -> Nat]
    /\ \A i, j \in DOMAIN ops :
         /\ ops[i].stage = "held" /\ ops[j].stage = "held" => i = j
         /\ ops[i].worker = "working" /\ ops[j].worker = "working" => i = j
    /\ ~LockFree => connection /\ tx # NoTx

Undisturbed(ds) == \A d \in ds : budget[d] = Budget[d]

Wrote(i) ==
    /\ ops[i].stage = "answered"
    /\ ops[i].kind[1] \in {"save", "upsert"} \/ ops[i].result = <<"created">>

(* What was answered is in the file, whatever crashes, failures and        *)
(* cancellations follow: an answered confirmation's event is recorded, and *)
(* an answered write is overwritten only by a later call, or by the worker *)
(* of a caller who was cancelled.  A commit that stays open is the         *)
(* exception: what is answered inside it goes with it.                     *)
AcknowledgedWritesLast ==
    \A i \in DOMAIN ops :
        /\ ops[i].stage = "answered" /\ IsConfirm(i) =>
             \/ Key(i) \in rows.events
             \/ ops[i].result = <<"duplicate">> /\ ~Undisturbed({"stuck"})
        /\ Wrote(i) /\ (ops[i].kind[1] # "upsert" \/ Undisturbed({"stuck"})) =>
             \/ rows.row >= i
             \/ rows.row # 0 /\ ops[rows.row].stage = "gone"

(* An answered close has drained the store ("drain them before closing",   *)
(* async_adapter.py:24) and nothing touches the file afterwards; a worker  *)
(* whose caller was cancelled may come too late, and is refused.           *)
CloseIsFinal ==
    /\ phase = "closed" =>
         /\ ~connection /\ tx = NoTx
         /\ \A i \in DOMAIN ops : ops[i].worker # "working"
         /\ Undisturbed({"cancel"}) =>
              \A i \in DOMAIN ops : ops[i].worker # "waiting"
    /\ \A i \in DOMAIN ops :
         rows.row = i => ops[i].result \notin {Pending, <<"closed">>}

(* Operations come to the database in the order of their calls, which is   *)
(* what lets EventStore run them from a queue: once a worker was started   *)
(* for a call, nobody waits who called before, and a worker of theirs that *)
(* still runs is one whose caller was cancelled.                           *)
OperationsTakeTurns ==
    \A i, j \in DOMAIN ops : i < j /\ ops[j].worker # "none" =>
        /\ ops[i].stage \notin {"queued", "held"}
        /\ ops[i].worker \in {"waiting", "working"} => ops[i].stage = "gone"

(* A file is empty or complete at every moment a crash could strike, and a *)
(* file of another program is refused untouched.                           *)
BootstrapIsAtomic ==
    /\ origin = "other" => schema = "other" /\ ~connection
    /\ origin # "other" => schema \in {"empty", "v1"}
    /\ connection => schema = "v1"

Waits(i) == i \in DOMAIN ops /\ ops[i].stage \in {"queued", "held"}

(* Every call returns, whatever fails, is cancelled or closes before it.   *)
CallsReturn == \A i \in 1 .. MaxCalls : Waits(i) ~> ~Waits(i)

(* The store keeps the promise of AtomicStore: a call takes effect when    *)
(* its commit or its lone statement is done.                               *)
Status(i) ==
    CASE ops[i].stage = "answered" -> "answered"
      [] ops[i].stage # "answered" /\ Succeeded(i) -> "done"
      [] ops[i].stage \in {"queued", "held"} /\ ops[i].result = Pending -> "asked"
      [] ops[i].worker \in {"waiting", "working"} -> "asked"
      [] OTHER -> "void"

Atomic == INSTANCE AtomicStore WITH
    calls   <- [i \in DOMAIN ops |-> ops[i].kind],
    status  <- [i \in DOMAIN ops |-> Status(i)],
    results <- [i \in DOMAIN ops |->
                  IF Succeeded(i) THEN ops[i].result ELSE Pending],
    visible <- IF InDoubt THEN tx ELSE rows,
    durable <- rows,
    doubt   <- InDoubt

KeepsAtomicPromise == Atomic!Spec
=============================================================================
