----------------------------- MODULE StoreProofs -----------------------------
(***************************************************************************)
(* Theorems of Store, for every set of keys, number of calls and amount of *)
(* disturbance.                                                            *)
(***************************************************************************)
EXTENDS Store, SequenceTheorems, TLAPS

-----------------------------------------------------------------------------
(* The inductive invariant.                                                *)

(* The results a call of each kind can have.                               *)
Fits(kind, result) ==
    /\ kind[1] = "close" => result \in {Pending, <<"ok">>}
    /\ kind[1] \in {"save", "upsert"} =>
         result \in {Pending, <<"ok">>, <<"closed">>, <<"failed">>}
    /\ kind[1] = "confirm" =>
         result \in {Pending, <<"created">>, <<"duplicate">>, <<"closed">>,
                     <<"failed">>}
    /\ kind[1] # "confirm" => result \notin {<<"created">>, <<"duplicate">>}

(* What a call has come to, by the stage of its caller and of its worker.  *)
OpShape(o) ==
    /\ o.stage = "queued" => o.worker = "none"
    /\ o.stage = "held" => o.worker # "none"
    /\ o.worker = "none" => o.result = Pending
    /\ o.worker \in {"waiting", "working"} =>
         o.result = Pending /\ o.stage \in {"held", "gone"}
    /\ o.worker = "finished" => o.result # Pending
    /\ o.stage = "answered" =>
         o.result \notin {Pending, <<"closed">>, <<"failed">>}
    /\ o.stage = "refused" =>
         o.result \in {Pending, <<"closed">>, <<"failed">>}
    /\ Fits(o.kind, o.result)
    /\ o.worker = "working" => o.kind[1] \in {"save", "confirm"}

Shaped == Len(ops) <= MaxCalls /\ \A i \in DOMAIN ops : OpShape(ops[i])

(* The file is opened before it is used, and only if it is one of ours.    *)
OpenInv ==
    /\ origin = "other" => schema = "other" /\ phase \in {"new", "rejected"}
    /\ origin # "other" => schema \in {"empty", "v1"} /\ phase # "rejected"
    /\ phase = "creating" => schema = "empty"
    /\ phase \in {"configuring", "open", "closed"} => schema = "v1"
    /\ connection => phase = "open"
    /\ tx # NoTx => connection

(* Outside an open or closed store nobody waits; in a closed one only      *)
(* workers whose caller was cancelled do.                                  *)
ServedInv ==
    /\ phase \notin {"open", "closed"} =>
         \A i \in DOMAIN ops : /\ ops[i].stage \notin {"queued", "held"}
                               /\ ops[i].worker \notin {"waiting", "working"}
    /\ phase = "closed" =>
         \A i \in DOMAIN ops :
             ops[i].worker = "waiting" => ops[i].stage = "gone"
    /\ \A i \in DOMAIN ops :
         IsClose(i) /\ ops[i].stage = "held" /\ ops[i].worker = "finished" =>
             ~connection

(* The gate serves in the order of calls: behind a caller that waits or    *)
(* holds the gate, nobody has entered.                                     *)
GateOrder ==
    \A i, j \in DOMAIN ops :
        ops[i].stage \in {"queued", "held"} /\ i < j =>
            ops[j].stage \in {"queued", "gone"} /\ ops[j].worker = "none"

(* No commit has stayed open so far.                                       *)
Steady == budget["stuck"] = Budget["stuck"]

SpentInv ==
    /\ \A d \in Disturbances : budget[d] <= Budget[d]
    /\ \A i \in DOMAIN ops :
         ops[i].stage = "gone" => budget["cancel"] < Budget["cancel"]
    /\ InDoubt => ~Steady

(* What the transaction of a working thread holds, step by step.           *)
TxInv ==
    \A i \in DOMAIN ops : ops[i].worker = "working" =>
        /\ rows.row # i
        /\ ops[i].kind[1] = "save" => tx \in {rows, [rows EXCEPT !.row = i]}
        /\ IsConfirm(i) =>
             LET events == rows.events \cup {Key(i)}
             IN  /\ Key(i) \notin rows.events
                 /\ tx \in {rows, [rows EXCEPT !.events = events],
                            [row |-> i, events |-> events]}

(* The last line of AcknowledgedWritesLast, from the moment of the commit. *)
Committed(i) ==
    \/ ops[i].kind[1] = "save" /\ ops[i].result = <<"ok">>
    \/ ops[i].result = <<"created">>
    \/ ops[i].kind[1] = "upsert" /\ ops[i].result = <<"ok">> /\ Steady

Outlived(i) ==
    \/ rows.row >= i
    \/ rows.row # 0 /\ ops[rows.row].stage = "gone"

RowInv ==
    /\ rows.row # 0 => rows.row \in DOMAIN ops /\ Succeeded(rows.row)
    /\ \A i \in DOMAIN ops :
         /\ ops[i].result = <<"created">> => Key(i) \in rows.events
         /\ ops[i].result = <<"duplicate">> =>
              Key(i) \in rows.events \/ ~Steady
         /\ Committed(i) /\ ops[i].stage \in {"held", "answered"} =>
              Outlived(i)

Inv ==
    /\ TypeOK /\ Shaped /\ OpenInv /\ ServedInv /\ GateOrder /\ SpentInv
    /\ TxInv /\ RowInv

-----------------------------------------------------------------------------
(* Steps that change one operation.                                        *)

Edited(i, stage, worker, result) ==
    /\ ops' \in Seq(Operations)
    /\ Len(ops') = Len(ops) /\ DOMAIN ops' = DOMAIN ops
    /\ ops'[i].kind = ops[i].kind
    /\ ops'[i].stage = stage /\ ops'[i].worker = worker
    /\ ops'[i].result = result
    /\ \A j \in DOMAIN ops : j # i => ops'[j] = ops[j]

(* The fields of a call have their types.                                    *)
LEMMA OpFields ==
    ASSUME TypeOK, NEW i \in DOMAIN ops
    PROVE  /\ ops[i] \in Operations
           /\ ops[i].kind \in Kinds /\ ops[i].stage \in Stages
           /\ ops[i].worker \in Workers /\ ops[i].result \in Results
           /\ i \in 1 .. Len(ops) /\ i \in Nat
<1>1. ops \in Seq(Operations)
  BY DEF TypeOK
<1>2. ops[i] \in Operations /\ i \in 1 .. Len(ops) /\ i \in Nat
  BY <1>1
<1> QED
  BY <1>2 DEF Operations

(* What replacing a call's stage, worker and result amounts to.              *)
LEMMA Edit ==
    ASSUME TypeOK, NEW i \in DOMAIN ops,
           NEW stage \in Stages, NEW worker \in Workers,
           NEW result \in Results,
           ops' = [ops EXCEPT ![i].stage = stage, ![i].worker = worker,
                              ![i].result = result]
    PROVE  Edited(i, stage, worker, result)
<1> DEFINE o == [ops[i] EXCEPT !.stage = stage, !.worker = worker,
                               !.result = result]
<1>1. ops \in Seq(Operations) /\ DOMAIN ops = 1 .. Len(ops)
  BY DEF TypeOK
<1>2. /\ o \in Operations /\ o.kind = ops[i].kind /\ o.stage = stage
      /\ o.worker = worker /\ o.result = result
  BY OpFields DEF Operations
<1>3. ops' = [ops EXCEPT ![i] = o]
  BY OpFields, <1>1
<1> HIDE DEF o
<1>4. ops' \in Seq(Operations) /\ Len(ops') = Len(ops)
  <2>1. i \in 1 .. Len(ops)
    BY <1>1
  <2>2. /\ [ops EXCEPT ![i] = o] \in Seq(Operations)
        /\ Len([ops EXCEPT ![i] = o]) = Len(ops)
    BY <1>1, <1>2, <2>1, ExceptSeq, Zenon
  <2> QED
    BY <1>3, <2>2, Zenon
<1>5. ops'[i] = o /\ \A j \in DOMAIN ops : j # i => ops'[j] = ops[j]
  BY <1>3, Zenon
<1>6. DOMAIN ops' = DOMAIN ops
  BY <1>3, Zenon
<1> QED
  BY <1>2, <1>4, <1>5, <1>6 DEF Edited

(* The same when only the stage changes.                                     *)
LEMMA StageEdit ==
    ASSUME TypeOK, NEW i \in DOMAIN ops, NEW stage \in Stages,
           ops' = [ops EXCEPT ![i].stage = stage]
    PROVE  Edited(i, stage, ops[i].worker, ops[i].result)
<1>1. ops' = [ops EXCEPT ![i].stage = stage, ![i].worker = ops[i].worker,
                         ![i].result = ops[i].result]
  BY OpFields DEF TypeOK, Operations
<1> QED
  BY <1>1, Edit, OpFields

(* The same when only the worker changes.                                    *)
LEMMA WorkerEdit ==
    ASSUME TypeOK, NEW i \in DOMAIN ops, NEW worker \in Workers,
           ops' = [ops EXCEPT ![i].worker = worker]
    PROVE  Edited(i, ops[i].stage, worker, ops[i].result)
<1>1. ops' = [ops EXCEPT ![i].stage = ops[i].stage, ![i].worker = worker,
                         ![i].result = ops[i].result]
  BY OpFields DEF TypeOK, Operations
<1> QED
  BY <1>1, Edit, OpFields

(* The same when the worker ends with a result.                              *)
LEMMA FinishEdit ==
    ASSUME TypeOK, NEW i \in DOMAIN ops, NEW result \in Results,
           Finish(i, result)
    PROVE  Edited(i, ops[i].stage, "finished", result)
<1>1. ops' = [ops EXCEPT ![i].stage = ops[i].stage, ![i].worker = "finished",
                         ![i].result = result]
  BY OpFields DEF TypeOK, Operations, Finish
<1> QED
  BY <1>1, Edit, OpFields DEF Workers

(* A disturbance takes one from its own budget.                              *)
LEMMA SpendOnce ==
    ASSUME TypeOK, SpentInv, NEW d \in Disturbances, Spend(d)
    PROVE  /\ budget' \in [Disturbances -> Nat]
           /\ budget'[d] < Budget[d]
           /\ \A e \in Disturbances : budget'[e] <= budget[e]
           /\ d = "stuck" => ~Steady'
           /\ d # "stuck" => Steady' = Steady
<1>1. budget \in [Disturbances -> Nat] /\ budget[d] <= Budget[d]
  BY DEF TypeOK, SpentInv
<1>2. Budget[d] \in Nat
  BY StoreAssumption
<1> QED
  BY <1>1, <1>2 DEF Spend, Steady, Disturbances

(* Budgets only shrink, and what was spent stays spent.                    *)
LEMMA StaysSpent ==
    ASSUME TypeOK, SpentInv, budget' \in [Disturbances -> Nat],
           \A d \in Disturbances : budget'[d] <= budget[d]
    PROVE  /\ \A d \in Disturbances : budget'[d] <= Budget[d]
           /\ budget["cancel"] < Budget["cancel"] =>
                budget'["cancel"] < Budget["cancel"]
           /\ Steady' => Steady
<1>1. budget \in [Disturbances -> Nat]
  BY DEF TypeOK
<1>2. Budget \in [Disturbances -> Nat]
  BY StoreAssumption
<1> QED
  BY <1>1, <1>2 DEF SpentInv, Steady, Disturbances

(* A step that leaves the committed rows alone keeps what was acknowledged *)
(* if it claims no commit.                                                 *)
LEMMA RowsStand ==
    ASSUME Inv, NEW i \in DOMAIN ops,
           NEW stage \in Stages, NEW worker \in Workers,
           NEW result \in Results,
           Edited(i, stage, worker, result), UNCHANGED rows, Steady' => Steady,
           ops[i].stage = "gone" => stage = "gone",
           stage \in {"held", "answered"} =>
             \/ ops[i].stage \in {"held", "answered"}
             \/ result = Pending \/ IsClose(i),
           \/ result = ops[i].result
           \/ /\ ops[i].result = Pending /\ result # <<"created">>
              /\ result = <<"duplicate">> => Key(i) \in rows.events \/ ~Steady'
              /\ result = <<"ok">> => \/ IsClose(i)
                                      \/ ops[i].kind[1] = "upsert" /\ ~Steady'
    PROVE  RowInv'
<1>0. /\ RowInv /\ Shaped /\ rows' = rows
      /\ ops'[i].kind = ops[i].kind /\ ops'[i].stage = stage
      /\ ops'[i].result = result /\ DOMAIN ops' = DOMAIN ops
      /\ \A j \in DOMAIN ops : j # i => ops'[j] = ops[j]
  BY DEF Inv, Edited
<1>1. (rows.row # 0 => rows.row \in DOMAIN ops /\ Succeeded(rows.row))'
  BY <1>0 DEF RowInv, Succeeded, Pending
<1>2. ASSUME NEW j \in DOMAIN ops, (ops[j].result = <<"created">>)'
      PROVE  Key(j)' \in rows.events
  BY <1>0, <1>2 DEF RowInv, Key
<1>3. ASSUME NEW j \in DOMAIN ops, (ops[j].result = <<"duplicate">>)'
      PROVE  Key(j)' \in rows.events \/ ~Steady'
  BY <1>0, <1>3 DEF RowInv, Key
<1>4. ASSUME NEW j \in DOMAIN ops,
             Committed(j)', (ops[j].stage \in {"held", "answered"})'
      PROVE  Outlived(j)'
  <2>1. Committed(j) /\ ops[j].stage \in {"held", "answered"}
    <3>1. CASE j # i
      BY <1>0, <1>4, <3>1 DEF Committed
    <3>2. CASE j = i /\ result = ops[i].result
      BY <1>0, <1>4, <3>2 
         DEF Committed, IsClose, Pending, Shaped, OpShape, Fits
    <3>3. CASE j = i /\ result # ops[i].result
      BY <1>0, <1>4, <3>3 DEF Committed, IsClose
    <3> QED
      BY <3>1, <3>2, <3>3
  <2>2. Outlived(j)
    BY <1>0, <2>1 DEF RowInv
  <2>3. rows.row # 0 /\ ops[rows.row].stage = "gone" =>
          (ops[rows.row].stage = "gone")'
    BY <1>0 DEF RowInv
  <2> QED
    <3>1. CASE rows.row >= j
      BY <1>0, <3>1 DEF Outlived
    <3>2. CASE rows.row # 0 /\ ops[rows.row].stage = "gone"
      BY <1>0, <2>3, <3>2 DEF Outlived
    <3> QED
      BY <2>2, <3>1, <3>2 DEF Outlived
<1> QED
  BY <1>0, <1>1, <1>2, <1>3, <1>4 DEF RowInv

(* A worker that ends leaves the lock free.                                *)
LEMMA Finishing ==
    ASSUME Inv, NEW i \in DOMAIN ops, NEW result \in Results \ {Pending},
           Finish(i, result), ops[i].worker \in {"waiting", "working"},
           ops[i].worker = "working" \/ LockFree,
           UNCHANGED <<origin, schema, draft, phase, closing>>,
           rows' \in Rows, tx' \in Rows \cup {NoTx}, connection' \in BOOLEAN,
           budget' \in [Disturbances -> Nat],
           \A d \in Disturbances : budget'[d] <= budget[d],
           connection' => connection, tx' # NoTx => connection' /\ ~Steady',
           IsClose(i) => ~connection', Fits(ops[i].kind, result)
    PROVE  /\ Edited(i, ops[i].stage, "finished", result)
           /\ ops[i].stage \in {"held", "gone"} /\ ops[i].result = Pending
           /\ Steady' => Steady
           /\ TypeOK' /\ Shaped' /\ OpenInv' /\ ServedInv' /\ GateOrder'
           /\ SpentInv' /\ TxInv'
<1>0. /\ TypeOK /\ Shaped /\ OpenInv /\ ServedInv /\ GateOrder /\ SpentInv
      /\ TxInv /\ RowInv
  BY DEF Inv
<1>1. Edited(i, ops[i].stage, "finished", result)
  BY <1>0, FinishEdit
<1>2. ops[i].stage \in {"held", "gone"} /\ ops[i].result = Pending
  BY <1>0 DEF Shaped, OpShape
<1>3. \A j \in DOMAIN ops : j # i => ops[j].worker # "working"
  BY <1>0 DEF TypeOK, LockFree
<1>4. LockFree'
  BY <1>1, <1>3 DEF LockFree, Edited
<1>5. TypeOK'
  <2>1. \A j, k \in DOMAIN ops :
          (ops[j].stage = "held")' /\ (ops[k].stage = "held")' => j = k
    BY <1>0, <1>1 DEF TypeOK, Edited
  <2> QED
    BY <1>0, <1>1, <1>4, <2>1 DEF TypeOK, Edited, LockFree
<1>6. Shaped'
  <2>1. OpShape(ops[i])'
    BY <1>0, <1>1, <1>2 DEF Shaped, OpShape, Edited
  <2> QED
    BY <1>0, <1>1, <2>1 DEF Shaped, Edited
<1>7. OpenInv'
  BY <1>0 DEF OpenInv
<1>8. ServedInv'
  BY <1>0, <1>1, <1>2 DEF ServedInv, Edited, IsClose
<1>9. GateOrder'
  BY <1>0, <1>1 DEF GateOrder, Edited
<1>10. SpentInv' /\ (Steady' => Steady)
  BY <1>0, <1>1, StaysSpent DEF SpentInv, Edited, InDoubt
<1>11. TxInv'
  BY <1>1, <1>4 DEF TxInv, LockFree, Edited
<1> QED
  BY <1>1, <1>2, <1>5, <1>6, <1>7, <1>8, <1>9, <1>10, <1>11

-----------------------------------------------------------------------------
(* The invariant, one lemma for each action.                               *)

(* The steps of open() in async_adapter.py and schema.py touch no call.      *)
LEMMA OpeningStep ==
    ASSUME Inv, Open \/ FailOpen
    PROVE  Inv'
<1>0. /\ TypeOK /\ Shaped /\ OpenInv /\ ServedInv /\ GateOrder /\ SpentInv
      /\ TxInv /\ RowInv
  BY DEF Inv
<1>1. /\ phase \notin {"open", "closed"}
      /\ UNCHANGED <<origin, rows, tx, closing, ops>>
  BY DEF Open, Connect, CreateTables, InsertVersion, CommitBootstrap,
         Configure, FailOpen, file
<1>2. /\ budget' \in [Disturbances -> Nat]
      /\ \A d \in Disturbances : budget'[d] <= budget[d]
  <2>1. CASE FailOpen
    BY <1>0, <2>1, SpendOnce DEF FailOpen, Disturbances
  <2>2. CASE Open
    <3>1. budget' = budget
      BY <2>2 DEF Open, Connect, CreateTables, InsertVersion,
                  CommitBootstrap, Configure
    <3> QED
      BY <1>0, <3>1 DEF TypeOK
  <2> QED
    BY <2>1, <2>2
<1>3. TypeOK'
  BY <1>0, <1>1, <1>2 DEF TypeOK, Edited, LockFree, Open, Connect,
      CreateTables, InsertVersion, CommitBootstrap, Configure, FailOpen,
      file, OpenInv, Phases, ServedInv
<1>4. Shaped'
  BY <1>0, <1>1, <1>2 DEF Shaped, OpShape, Edited, Succeeded
<1>5. OpenInv'
  BY <1>0, <1>1, <1>2 DEF OpenInv, ServedInv, IsClose, Open, Connect,
      CreateTables, InsertVersion, CommitBootstrap, Configure, FailOpen,
      file, TypeOK
<1>6. ServedInv'
  BY <1>0, <1>1, <1>2 DEF OpenInv, ServedInv, Edited, TypeOK, Shaped,
      OpShape, IsClose, Open, Connect, CreateTables, InsertVersion,
      CommitBootstrap, Configure, FailOpen
<1>7. GateOrder'
  BY <1>0, <1>1, <1>2 DEF GateOrder, Edited
<1>8. SpentInv'
  BY <1>0, <1>1, <1>2, StaysSpent DEF SpentInv, InDoubt, LockFree
<1>9. TxInv'
  BY <1>0, <1>1, <1>2 DEF TxInv, Edited, IsConfirm, Key, TypeOK, LockFree
<1>10. RowInv'
  BY <1>0, <1>1, <1>2, StaysSpent
     DEF RowInv, Committed, Outlived, Succeeded, Key
<1> QED
  BY <1>3, <1>4, <1>5, <1>6, <1>7, <1>8, <1>9, <1>10 DEF Inv

(* A caller that leaves the gate with its worker's result.                   *)
LEMMA AnswerStep ==
    ASSUME Inv, NEW i \in DOMAIN ops, Answer(i)
    PROVE  Inv'
<1> DEFINE s == IF Succeeded(i) THEN "answered" ELSE "refused"
<1>0. /\ TypeOK /\ Shaped /\ OpenInv /\ ServedInv /\ GateOrder /\ SpentInv
      /\ TxInv /\ RowInv
  BY DEF Inv
<1>1. /\ ops[i].stage = "held" /\ ops[i].worker = "finished"
      /\ ops' = [ops EXCEPT ![i].stage = s]
      /\ phase' = IF IsClose(i) THEN "closed" ELSE phase
      /\ UNCHANGED <<origin, schema, rows, draft, tx, connection, closing,
                     budget>>
  BY DEF Answer, file
<1>2. Edited(i, s, "finished", ops[i].result)
  BY <1>0, <1>1, StageEdit DEF Stages
<1> HIDE DEF s
<1>3. TypeOK'
  BY <1>0, <1>1, <1>2 DEF TypeOK, Edited, LockFree, Phases, s
<1>4. Shaped'
  BY <1>0, <1>1, <1>2 DEF Shaped, OpShape, Edited, Succeeded, s
<1>5. OpenInv'
  BY <1>0, <1>1, <1>2 DEF OpenInv, ServedInv, IsClose
<1>6. ServedInv'
  BY <1>0, <1>1, <1>2 DEF OpenInv, ServedInv, Edited, TypeOK, Shaped,
      OpShape, IsClose, s
<1>7. GateOrder'
  BY <1>0, <1>1, <1>2 DEF GateOrder, Edited, s
<1>8. SpentInv'
  BY <1>0, <1>1, <1>2 DEF SpentInv, Steady, Edited, s, InDoubt, LockFree
<1>9. TxInv'
  BY <1>0, <1>1, <1>2 DEF TxInv, Edited, IsConfirm, Key, TypeOK, LockFree
<1>10. RowInv'
  BY <1>0, <1>1, <1>2, RowsStand, OpFields DEF Steady, Stages, Workers, s
<1> QED
  BY <1>3, <1>4, <1>5, <1>6, <1>7, <1>8, <1>9, <1>10 DEF Inv

(* A caller that is cancelled while it waits or holds the gate.              *)
LEMMA CancelStep ==
    ASSUME Inv, NEW i \in DOMAIN ops, Cancel(i)
    PROVE  Inv'
<1>0. /\ TypeOK /\ Shaped /\ OpenInv /\ ServedInv /\ GateOrder /\ SpentInv
      /\ TxInv /\ RowInv
  BY DEF Inv
<1>1. /\ ops[i].stage \in {"queued", "held"}
      /\ ops' = [ops EXCEPT ![i].stage = "gone"]
      /\ UNCHANGED <<origin, schema, rows, draft, tx, connection, phase,
                     closing>>
  BY DEF Cancel, file
<1>2. Edited(i, "gone", ops[i].worker, ops[i].result)
  BY <1>0, <1>1, StageEdit DEF Stages
<1>3. /\ budget' \in [Disturbances -> Nat]
      /\ budget'["cancel"] < Budget["cancel"]
      /\ \A d \in Disturbances : budget'[d] <= budget[d]
  BY <1>0, SpendOnce DEF Cancel, Disturbances
<1>4. TypeOK'
  BY <1>0, <1>1, <1>2, <1>3 DEF TypeOK, Edited, LockFree
<1>5. Shaped'
  BY <1>0, <1>1, <1>2, <1>3 DEF Shaped, OpShape, Edited, Succeeded
<1>6. OpenInv'
  BY <1>0, <1>1, <1>2, <1>3 DEF OpenInv, ServedInv, IsClose
<1>7. ServedInv'
  BY <1>0, <1>1, <1>2, <1>3 DEF OpenInv, ServedInv, Edited, TypeOK, Shaped,
      OpShape, IsClose
<1>8. GateOrder'
  BY <1>0, <1>1, <1>2, <1>3 DEF GateOrder, Edited
<1>9. SpentInv'
  BY <1>0, <1>1, <1>2, <1>3, StaysSpent DEF SpentInv, Edited, InDoubt, LockFree
<1>10. TxInv'
  BY <1>0, <1>1, <1>2, <1>3 DEF TxInv, Edited, IsConfirm, Key, TypeOK,
      LockFree
<1>11. RowInv'
  BY <1>0, <1>1, <1>2, <1>3, RowsStand, OpFields, StaysSpent
     DEF Stages, Workers
<1> QED
  BY <1>4, <1>5, <1>6, <1>7, <1>8, <1>9, <1>10, <1>11 DEF Inv

(* The next caller enters the gate and is served, refused or closes.         *)
LEMMA EnterStep ==
    ASSUME Inv, NEW i \in DOMAIN ops, Enter(i)
    PROVE  Inv'
<1>0. /\ TypeOK /\ Shaped /\ OpenInv /\ ServedInv /\ GateOrder /\ SpentInv
      /\ TxInv /\ RowInv
  BY DEF Inv
<1>1. /\ ops[i].stage = "queued" /\ GateFree /\ Foremost(i)
      /\ closing' \in BOOLEAN
      /\ UNCHANGED <<origin, schema, rows, draft, tx, connection, phase,
                     budget>>
  BY <1>0 DEF Enter, file, TypeOK, IsClose
<1>2. \/ phase = "open" /\ Edited(i, "held", "waiting", ops[i].result)
      \/ /\ phase # "open" /\ IsClose(i)
         /\ Edited(i, "held", "finished", <<"ok">>)
      \/ ~IsClose(i) /\ Edited(i, "refused", ops[i].worker, ops[i].result)
  <2>1. CASE phase = "open" /\ (IsClose(i) \/ ~closing)
    <3>1. ops' = [ops EXCEPT ![i].stage = "held", ![i].worker = "waiting",
                             ![i].result = ops[i].result]
      BY <1>0, <2>1, OpFields DEF Enter, TypeOK, Operations
    <3> QED
      BY <1>0, <2>1, <3>1, Edit, OpFields DEF Stages, Workers
  <2>2. CASE phase # "open" /\ IsClose(i)
    <3>1. ops' = [ops EXCEPT ![i].stage = "held", ![i].worker = "finished",
                             ![i].result = <<"ok">>]
      BY <1>0, <2>2, OpFields DEF Enter, TypeOK, Operations
    <3> QED
      BY <1>0, <2>2, <3>1, Edit DEF Stages, Workers, Results
  <2>3. CASE ~IsClose(i) /\ (phase # "open" \/ closing)
    <3>1. ops' = [ops EXCEPT ![i].stage = "refused"]
      BY <1>0, <2>3, OpFields DEF Enter, TypeOK, Operations
    <3> QED
      BY <1>0, <2>3, <3>1, StageEdit DEF Stages
  <2> QED
    BY <1>0, <2>1, <2>2, <2>3 DEF TypeOK
<1>3. ops[i].worker = "none" /\ ops[i].result = Pending
  BY <1>0, <1>1 DEF Shaped, OpShape
<1>4. TypeOK'
  <2>1. \A j, k \in DOMAIN ops :
          (ops[j].stage = "held")' /\ (ops[k].stage = "held")' => j = k
    BY <1>0, <1>1, <1>2 DEF TypeOK, Edited, GateFree
  <2>2. \A j \in DOMAIN ops :
          (ops[j].worker = "working")' => ops[j].worker = "working"
    BY <1>0, <1>1, <1>2 DEF Edited
  <2>3. ops' \in Seq(Operations) /\ DOMAIN ops' = DOMAIN ops
    BY <1>2 DEF Edited
  <2> QED
    BY <1>0, <1>1, <2>1, <2>2, <2>3 DEF TypeOK, LockFree
<1>5. Shaped'
  <2>1. OpShape(ops[i])'
    <3>1. <<"ok">> # Pending /\ (IsClose(i) => Fits(ops[i].kind, <<"ok">>))
      BY DEF Pending, Fits, IsClose
    <3> QED
      BY <1>0, <1>2, <1>3, <3>1 DEF Shaped, OpShape, Edited, IsClose
  <2> QED
    BY <1>0, <1>2, <2>1 DEF Shaped, Edited
<1>6. OpenInv'
  BY <1>0, <1>1, <1>2, <1>3 DEF OpenInv, ServedInv, IsClose
<1>7. ServedInv'
  BY <1>0, <1>1, <1>2, <1>3 DEF OpenInv, ServedInv, Edited, TypeOK, Shaped,
      OpShape, IsClose
<1>8. GateOrder'
  BY <1>0, <1>1, <1>2, <1>3, OpFields DEF GateOrder, Edited, GateFree,
      Foremost
<1>9. SpentInv'
  BY <1>0, <1>1, <1>2, <1>3 DEF SpentInv, Steady, Edited, InDoubt, LockFree
<1>10. TxInv'
  BY <1>0, <1>1, <1>2, <1>3 DEF TxInv, Edited, IsConfirm, Key, TypeOK,
      LockFree
<1>11. RowInv'
  <2>1. Steady' => Steady
    BY <1>1 DEF Steady
  <2>2. CASE phase = "open" /\ Edited(i, "held", "waiting", ops[i].result)
    BY <1>0, <1>1, <1>3, <2>1, <2>2, RowsStand, OpFields DEF Stages, Workers
  <2>3. CASE IsClose(i) /\ Edited(i, "held", "finished", <<"ok">>)
    <3>1. <<"ok">> \in Results
      BY DEF Results
    <3> QED
      BY <1>0, <1>1, <1>3, <2>1, <2>3, <3>1, RowsStand DEF Stages, Workers
  <2>4. CASE Edited(i, "refused", ops[i].worker, ops[i].result)
    BY <1>0, <1>1, <1>3, <2>1, <2>4, RowsStand, OpFields DEF Stages, Workers
  <2> QED
    BY <1>2, <2>2, <2>3, <2>4
<1> QED
  BY <1>4, <1>5, <1>6, <1>7, <1>8, <1>9, <1>10, <1>11 DEF Inv

(* A worker that finds the connection closed.                                *)
LEMMA RefuseClosedStep ==
    ASSUME Inv, NEW i \in DOMAIN ops, RefuseClosed(i)
    PROVE  Inv'
<1>1. /\ ops[i].worker = "waiting" /\ LockFree /\ ~connection /\ ~IsClose(i)
      /\ Finish(i, <<"closed">>)
      /\ UNCHANGED <<origin, schema, rows, draft, tx, connection, phase,
                     closing, budget>>
  BY DEF RefuseClosed, TakesLock, Connected, KeepsStore
<1>2. /\ <<"closed">> \in Results \ {Pending}
      /\ Fits(ops[i].kind, <<"closed">>)
  BY <1>1 DEF Results, Pending, Fits, IsClose
<1>3. /\ Edited(i, ops[i].stage, "finished", <<"closed">>)
      /\ ops[i].stage \in {"held", "gone"} /\ ops[i].result = Pending
      /\ TypeOK' /\ Shaped' /\ OpenInv' /\ ServedInv' /\ GateOrder'
      /\ SpentInv' /\ TxInv'
  <2>1. /\ rows \in Rows /\ tx \in Rows \cup {NoTx} /\ connection \in BOOLEAN
        /\ budget \in [Disturbances -> Nat]
        /\ tx # NoTx => connection /\ ~Steady'
        /\ \A d \in Disturbances : budget[d] <= budget[d]
    BY <1>1 DEF Inv, TypeOK, OpenInv, SpentInv, InDoubt, Steady
  <2> QED
    BY <1>1, <1>2, <2>1, Finishing
<1>4. RowInv'
  BY <1>1, <1>2, <1>3, RowsStand, OpFields DEF Inv, Stages, Workers, Steady
<1> QED
  BY <1>3, <1>4 DEF Inv

(* A worker that reads.                                                      *)
LEMMA ReadStep ==
    ASSUME Inv, NEW i \in DOMAIN ops, Read(i)
    PROVE  Inv'
<1>1. /\ ops[i].worker = "waiting" /\ LockFree /\ ~IsClose(i)
      /\ ops[i].kind[1] = "read"
      /\ Finish(i, <<"row", Visible.row>>)
      /\ UNCHANGED <<origin, schema, rows, draft, tx, connection, phase,
                     closing, budget>>
  BY DEF Read, TakesLock, KeepsStore, IsClose
<1>2. /\ <<"row", Visible.row>> \in Results \ {Pending}
      /\ Fits(ops[i].kind, <<"row", Visible.row>>)
  BY <1>1 DEF Inv, TypeOK, Visible, Rows, Results, Pending, Fits
<1>3. /\ Edited(i, ops[i].stage, "finished", <<"row", Visible.row>>)
      /\ ops[i].stage \in {"held", "gone"} /\ ops[i].result = Pending
      /\ TypeOK' /\ Shaped' /\ OpenInv' /\ ServedInv' /\ GateOrder'
      /\ SpentInv' /\ TxInv'
  <2>1. /\ rows \in Rows /\ tx \in Rows \cup {NoTx} /\ connection \in BOOLEAN
        /\ budget \in [Disturbances -> Nat]
        /\ tx # NoTx => connection /\ ~Steady'
        /\ \A d \in Disturbances : budget[d] <= budget[d]
    BY <1>1 DEF Inv, TypeOK, OpenInv, SpentInv, InDoubt, Steady
  <2> QED
    BY <1>1, <1>2, <2>1, Finishing
<1>4. RowInv'
  BY <1>1, <1>2, <1>3, RowsStand, OpFields DEF Inv, Stages, Workers, Steady
<1> QED
  BY <1>3, <1>4 DEF Inv

(* A worker that finds the event it should insert.                           *)
LEMMA FindDuplicateStep ==
    ASSUME Inv, NEW i \in DOMAIN ops, FindDuplicate(i)
    PROVE  Inv'
<1>1. /\ ops[i].worker = "waiting" /\ LockFree /\ ~IsClose(i)
      /\ IsConfirm(i) /\ Key(i) \in Visible.events
      /\ Finish(i, <<"duplicate">>)
      /\ UNCHANGED <<origin, schema, rows, draft, tx, connection, phase,
                     closing, budget>>
  BY DEF FindDuplicate, TakesLock, KeepsStore, IsClose, IsConfirm
<1>2. /\ <<"duplicate">> \in Results \ {Pending}
      /\ Fits(ops[i].kind, <<"duplicate">>)
  BY <1>1 DEF Results, Pending, Fits, IsClose, IsConfirm
<1>3. /\ Edited(i, ops[i].stage, "finished", <<"duplicate">>)
      /\ ops[i].stage \in {"held", "gone"} /\ ops[i].result = Pending
      /\ TypeOK' /\ Shaped' /\ OpenInv' /\ ServedInv' /\ GateOrder'
      /\ SpentInv' /\ TxInv'
  <2>1. /\ rows \in Rows /\ tx \in Rows \cup {NoTx} /\ connection \in BOOLEAN
        /\ budget \in [Disturbances -> Nat]
        /\ tx # NoTx => connection /\ ~Steady'
        /\ \A d \in Disturbances : budget[d] <= budget[d]
    BY <1>1 DEF Inv, TypeOK, OpenInv, SpentInv, InDoubt, Steady
  <2> QED
    BY <1>1, <1>2, <2>1, Finishing
<1>4. RowInv'
  BY <1>1, <1>2, <1>3, RowsStand, OpFields DEF Inv, Stages, Workers, Steady,
      SpentInv, InDoubt, Visible
<1> QED
  BY <1>3, <1>4 DEF Inv

(* The worker of a close.                                                    *)
LEMMA CloseConnectionStep ==
    ASSUME Inv, NEW i \in DOMAIN ops, CloseConnection(i)
    PROVE  Inv'
<1>1. /\ ops[i].worker = "waiting" /\ LockFree /\ IsClose(i)
      /\ Finish(i, <<"ok">>)
      /\ connection' = FALSE /\ tx' = NoTx
      /\ UNCHANGED <<origin, schema, rows, draft, phase, closing, budget>>
  BY DEF CloseConnection, TakesLock, KeepsStore
<1>2. /\ <<"ok">> \in Results \ {Pending}
      /\ Fits(ops[i].kind, <<"ok">>)
  BY <1>1 DEF Results, Pending, Fits, IsClose
<1>3. /\ Edited(i, ops[i].stage, "finished", <<"ok">>)
      /\ ops[i].stage \in {"held", "gone"} /\ ops[i].result = Pending
      /\ TypeOK' /\ Shaped' /\ OpenInv' /\ ServedInv' /\ GateOrder'
      /\ SpentInv' /\ TxInv'
  <2>1. /\ rows \in Rows /\ budget \in [Disturbances -> Nat]
        /\ \A d \in Disturbances : budget[d] <= budget[d]
    BY DEF Inv, TypeOK
  <2> QED
    BY <1>1, <1>2, <2>1, Finishing
<1>4. RowInv'
  BY <1>1, <1>2, <1>3, RowsStand, OpFields DEF Inv, Stages, Workers, Steady
<1> QED
  BY <1>3, <1>4 DEF Inv

(* A worker whose statement or commit fails.                                 *)
LEMMA FailStep ==
    ASSUME Inv, NEW i \in DOMAIN ops, Fail(i) \/ FailCommit(i)
    PROVE  Inv'
<1>0. TypeOK /\ SpentInv /\ OpenInv /\ Shaped
  BY DEF Inv
<1>1. /\ ops[i].worker \in {"waiting", "working"} /\ ~IsClose(i)
      /\ ops[i].worker = "working" \/ LockFree
      /\ Finish(i, <<"failed">>)
      /\ tx' \in {tx, NoTx}
      /\ UNCHANGED <<origin, schema, rows, draft, connection, phase, closing>>
  BY <1>0 DEF Fail, FailCommit, TakesLock, Committing, file, Shaped, OpShape,
              IsClose
<1>2. /\ budget' \in [Disturbances -> Nat]
      /\ \A d \in Disturbances : budget'[d] <= budget[d]
      /\ tx' # NoTx => ~Steady'
  <2>1. CASE Fail(i)
    BY <1>0, <2>1, SpendOnce 
       DEF Fail, Disturbances, SpentInv, InDoubt, TakesLock
  <2>2. CASE FailCommit(i)
    BY <1>0, <2>2, SpendOnce DEF FailCommit, Disturbances
  <2> QED
    BY <2>1, <2>2
<1>3. /\ <<"failed">> \in Results \ {Pending}
      /\ Fits(ops[i].kind, <<"failed">>)
  BY <1>1 DEF Results, Pending, Fits, IsClose
<1>4. /\ Edited(i, ops[i].stage, "finished", <<"failed">>)
      /\ ops[i].stage \in {"held", "gone"} /\ ops[i].result = Pending
      /\ Steady' => Steady
      /\ TypeOK' /\ Shaped' /\ OpenInv' /\ ServedInv' /\ GateOrder'
      /\ SpentInv' /\ TxInv'
  <2>1. /\ rows \in Rows /\ tx' \in Rows \cup {NoTx} /\ connection \in BOOLEAN
        /\ tx' # NoTx => connection
    BY <1>0, <1>1 DEF TypeOK, OpenInv
  <2> QED
    BY <1>1, <1>2, <1>3, <2>1, Finishing
<1>5. RowInv'
  BY <1>0, <1>1, <1>3, <1>4, RowsStand, OpFields DEF Stages, Workers
<1> QED
  BY <1>4, <1>5 DEF Inv

(* A step that commits rows of its own overwrites earlier calls only.      *)
LEMMA RowsWritten ==
    ASSUME Inv, NEW i \in DOMAIN ops, NEW result \in {<<"ok">>, <<"created">>},
           Edited(i, ops[i].stage, "finished", result),
           ops[i].stage \in {"held", "gone"}, ops[i].worker # "none",
           rows' \in Rows, rows'.row = i, rows.events \subseteq rows'.events,
           result = <<"created">> => Key(i) \in rows'.events,
           Steady' => Steady
    PROVE  RowInv'
<1>0. /\ RowInv /\ GateOrder /\ i \in Nat \ {0}
      /\ ops'[i].kind = ops[i].kind /\ ops'[i].stage = ops[i].stage
      /\ ops'[i].result = result /\ DOMAIN ops' = DOMAIN ops
      /\ \A j \in DOMAIN ops : j # i => ops'[j] = ops[j]
      /\ \A j \in DOMAIN ops : j \in Nat
  BY OpFields DEF Inv, Edited
<1>1. result \notin {Pending, <<"closed">>, <<"failed">>, <<"duplicate">>}
  BY DEF Pending
<1>2. (rows.row # 0 => rows.row \in DOMAIN ops /\ Succeeded(rows.row))'
  BY <1>0, <1>1 DEF Succeeded
<1>3. ASSUME NEW j \in DOMAIN ops, (ops[j].result = <<"created">>)'
      PROVE  (Key(j) \in rows.events)'
  BY <1>0, <1>3 DEF RowInv, Key
<1>4. ASSUME NEW j \in DOMAIN ops, (ops[j].result = <<"duplicate">>)'
      PROVE  (Key(j) \in rows.events)' \/ ~Steady'
  BY <1>0, <1>1, <1>4 DEF RowInv, Key
<1>5. ASSUME NEW j \in DOMAIN ops,
             Committed(j)', (ops[j].stage \in {"held", "answered"})'
      PROVE  Outlived(j)'
  <2>1. CASE ops[i].stage = "gone"
    BY <1>0, <2>1 DEF Outlived
  <2>2. CASE ops[i].stage = "held"
    <3>1. ~(i < j)
      BY <1>0, <1>5, <2>2 DEF GateOrder
    <3> QED
      BY <1>0, <3>1 DEF Outlived
  <2> QED
    BY <2>1, <2>2
<1> QED
  BY <1>0, <1>2, <1>3, <1>4, <1>5 DEF RowInv

(* A lone statement, in a transaction of its own or in one left open.        *)
LEMMA UpsertStep ==
    ASSUME Inv, NEW i \in DOMAIN ops, Upsert(i)
    PROVE  Inv'
<1>0. TypeOK /\ OpenInv /\ SpentInv
  BY DEF Inv
<1>1. /\ ops[i].worker = "waiting" /\ LockFree /\ ~IsClose(i)
      /\ connection /\ ops[i].kind[1] = "upsert"
      /\ Finish(i, <<"ok">>)
      /\ \/ tx = NoTx /\ rows' = [rows EXCEPT !.row = i] /\ UNCHANGED tx
         \/ tx # NoTx /\ tx' = [tx EXCEPT !.row = i] /\ UNCHANGED rows
      /\ UNCHANGED <<origin, schema, draft, connection, phase, closing,
                     budget>>
  BY DEF Upsert, TakesLock, Connected, KeepsStore, IsClose
<1>2. /\ <<"ok">> \in Results \ {Pending}
      /\ Fits(ops[i].kind, <<"ok">>)
  BY <1>0, <1>1 DEF Results, Pending, Fits, IsClose
<1>3. i \in 0 .. MaxCalls /\ i \in Nat
  BY <1>0, OpFields, StoreAssumption DEF Inv, Shaped, TypeOK
<1>4. rows' \in Rows /\ tx' \in Rows \cup {NoTx}
  BY <1>0, <1>1, <1>3 DEF TypeOK, Rows
<1>5. /\ Edited(i, ops[i].stage, "finished", <<"ok">>)
      /\ ops[i].stage \in {"held", "gone"} /\ ops[i].result = Pending
      /\ TypeOK' /\ Shaped' /\ OpenInv' /\ ServedInv' /\ GateOrder'
      /\ SpentInv' /\ TxInv'
  <2>1. /\ connection' \in BOOLEAN /\ budget' \in [Disturbances -> Nat]
        /\ \A d \in Disturbances : budget'[d] <= budget[d]
        /\ tx' # NoTx => connection' /\ ~Steady'
    BY <1>0, <1>1 DEF TypeOK, OpenInv, SpentInv, InDoubt, Steady
  <2> QED
    BY <1>1, <1>2, <1>4, <2>1, Finishing
<1>6. RowInv'
  <2>1. CASE tx = NoTx
    <3>1. rows'.row = i /\ rows'.events = rows.events
      BY <1>0, <1>1, <2>1 DEF TypeOK, Rows
    <3> QED
      BY <1>1, <1>4, <1>5, <3>1, RowsWritten DEF Steady
  <2>2. CASE tx # NoTx
    <3>1. ~Steady' /\ rows' = rows
      BY <1>0, <1>1, <2>2 DEF SpentInv, InDoubt, Steady
    <3> QED
      BY <1>1, <1>2, <1>5, <3>1, RowsStand, OpFields DEF Inv, Stages, Workers
  <2> QED
    BY <2>1, <2>2
<1> QED
  BY <1>5, <1>6 DEF Inv

(* A worker that begins its transaction, or finds one left open.             *)
LEMMA BeginStep ==
    ASSUME Inv, NEW i \in DOMAIN ops, Begin(i)
    PROVE  Inv'
<1>0. /\ TypeOK /\ Shaped /\ OpenInv /\ ServedInv /\ GateOrder /\ SpentInv
      /\ TxInv /\ RowInv
  BY DEF Inv
<1>1. /\ ops[i].worker = "waiting" /\ LockFree /\ connection
      /\ NeedsTransaction(i) /\ ~IsClose(i)
      /\ UNCHANGED <<origin, schema, rows, draft, connection, phase, closing,
                     budget>>
  BY DEF Begin, TakesLock, Connected, KeepsStore, NeedsTransaction, IsClose,
         IsConfirm
<1>2. CASE tx # NoTx
  <2>1. Finish(i, <<"failed">>) /\ tx' = tx
    BY <1>2 DEF Begin
  <2>2. /\ <<"failed">> \in Results \ {Pending}
        /\ Fits(ops[i].kind, <<"failed">>)
    BY <1>1 DEF Results, Pending, Fits, IsClose
  <2>3. /\ rows' \in Rows /\ tx' \in Rows \cup {NoTx}
        /\ connection' \in BOOLEAN
        /\ budget' \in [Disturbances -> Nat]
        /\ \A d \in Disturbances : budget'[d] <= budget[d]
        /\ tx' # NoTx => connection' /\ ~Steady'
    BY <1>0, <1>1, <2>1 DEF TypeOK, OpenInv, SpentInv, InDoubt, Steady
  <2>4. /\ Edited(i, ops[i].stage, "finished", <<"failed">>)
        /\ ops[i].stage \in {"held", "gone"} /\ ops[i].result = Pending
        /\ TypeOK' /\ Shaped' /\ OpenInv' /\ ServedInv' /\ GateOrder'
        /\ SpentInv' /\ TxInv'
    BY <1>1, <2>1, <2>2, <2>3, Finishing
  <2>5. RowInv'
    BY <1>0, <1>1, <2>2, <2>4, RowsStand, OpFields DEF Stages, Workers, Steady
  <2> QED
    BY <2>4, <2>5 DEF Inv
<1>3. CASE tx = NoTx
  <2>1. tx' = rows /\ ops' = [ops EXCEPT ![i].worker = "working"]
    BY <1>3 DEF Begin
  <2>2. Edited(i, ops[i].stage, "working", ops[i].result)
    BY <1>0, <2>1, WorkerEdit DEF Workers
  <2>3. ops[i].stage \in {"held", "gone"} /\ ops[i].result = Pending
    BY <1>0, <1>1 DEF Shaped, OpShape
  <2>4. \A j \in DOMAIN ops : j # i => ops[j].worker # "working"
    BY <1>1 DEF LockFree
  <2>5. TypeOK'
    <3>1. \A j, k \in DOMAIN ops :
            (ops[j].stage = "held")' /\ (ops[k].stage = "held")' => j = k
      BY <1>0, <2>2 DEF TypeOK, Edited
    <3>2. tx' # NoTx
      BY <1>0, <2>1, RowsAssumption DEF TypeOK
    <3>3. ops' \in Seq(Operations) /\ DOMAIN ops' = DOMAIN ops
      BY <2>2 DEF Edited
    <3>4. \A j \in DOMAIN ops : (ops[j].worker = "working")' => j = i
      BY <2>2, <2>4 DEF Edited
    <3> QED
      BY <1>0, <1>1, <2>1, <3>1, <3>2, <3>3, <3>4 DEF TypeOK
  <2>6. Shaped'
    <3>1. OpShape(ops[i])'
      BY <1>0, <1>1, <2>2, <2>3
         DEF Shaped, OpShape, Edited, NeedsTransaction, IsConfirm
    <3> QED
      BY <1>0, <2>2, <3>1 DEF Shaped, Edited
  <2>7. OpenInv'
    BY <1>0, <1>1, <2>1 DEF OpenInv
  <2>8. ServedInv'
    BY <1>0, <1>1, <2>2 DEF ServedInv, Edited, IsClose
  <2>9. GateOrder'
    BY <1>0, <1>1, <2>2 DEF GateOrder, Edited
  <2>10. SpentInv'
    BY <1>0, <1>1, <2>2 DEF SpentInv, Steady, Edited, InDoubt, LockFree
  <2>11. TxInv'
    <3>1. rows.row # i
      BY <1>0, <2>3, OpFields DEF RowInv, Succeeded
    <3>2. IsConfirm(i) => Key(i) \notin rows.events
      BY <1>1, <1>3 DEF NeedsTransaction, IsConfirm, Visible
    <3> QED
      BY <1>1, <2>1, <2>2, <2>4, <3>1, <3>2
         DEF TxInv, Edited, IsConfirm, Key
  <2>12. RowInv'
    BY <1>0, <1>1, <2>2, RowsStand, OpFields DEF Stages, Workers, Steady
  <2> QED
    BY <2>5, <2>6, <2>7, <2>8, <2>9, <2>10, <2>11, <2>12 DEF Inv
<1> QED
  BY <1>2, <1>3

(* The statements of a transaction change nothing but what it sees.        *)
LEMMA StatementStep ==
    ASSUME Inv, NEW i \in DOMAIN ops, InsertEvent(i) \/ WriteRow(i)
    PROVE  Inv'
<1>0. /\ TypeOK /\ Shaped /\ OpenInv /\ ServedInv /\ GateOrder /\ SpentInv
      /\ TxInv /\ RowInv
  BY DEF Inv
<1>1. /\ ops[i].worker = "working"
      /\ UNCHANGED <<origin, schema, rows, draft, connection, phase, closing,
                     ops, budget>>
  BY DEF InsertEvent, WriteRow, KeepsStore
<1>2. /\ connection /\ tx \in Rows
      /\ i \in 0 .. MaxCalls /\ rows \in Rows
      /\ IsConfirm(i) => Key(i) \in Keys
      /\ ops[i].kind[1] \in {"save", "confirm"}
  <2>1. ~LockFree
    BY <1>1 DEF LockFree
  <2>2. IsConfirm(i) => Key(i) \in Keys
    BY <1>0, OpFields DEF IsConfirm, Key, Kinds
  <2>3. i \in 0 .. MaxCalls
    BY <1>0, OpFields, StoreAssumption DEF Shaped, TypeOK
  <2> QED
    BY <1>0, <1>1, <2>1, <2>2, <2>3 DEF TypeOK, Shaped, OpShape
<1>3. /\ tx' \in Rows
      /\ ops[i].kind[1] = "save" => tx' \in {rows, [rows EXCEPT !.row = i]}
      /\ IsConfirm(i) =>
           LET events == rows.events \cup {Key(i)}
           IN  tx' \in {rows, [rows EXCEPT !.events = events],
                        [row |-> i, events |-> events]}
  <2>1. CASE InsertEvent(i)
    <3>1. /\ IsConfirm(i) /\ Key(i) \notin tx.events
          /\ tx' = [tx EXCEPT !.events = @ \cup {Key(i)}]
      BY <2>1 DEF InsertEvent
    <3>2. tx = rows
      BY <1>0, <1>1, <1>2, <3>1 DEF TxInv, Rows
    <3> QED
      BY <1>2, <3>1, <3>2 DEF Rows, IsConfirm
  <2>2. CASE WriteRow(i)
    <3>1. /\ tx.row # i /\ tx' = [tx EXCEPT !.row = i]
          /\ IsConfirm(i) => Key(i) \in tx.events
      BY <2>2 DEF WriteRow
    <3>2. CASE ops[i].kind[1] = "save"
      <4>1. tx = rows
        BY <1>0, <1>1, <1>2, <3>1, <3>2 DEF TxInv, Rows
      <4> QED
        BY <1>2, <3>1, <3>2, <4>1 DEF Rows, IsConfirm
    <3>3. CASE IsConfirm(i)
      <4>1. tx = [rows EXCEPT !.events = rows.events \cup {Key(i)}]
        BY <1>0, <1>1, <1>2, <3>1, <3>3 DEF TxInv, Rows
      <4> QED
        BY <1>2, <3>1, <3>3, <4>1 DEF Rows, IsConfirm
    <3> QED
      BY <1>2, <3>2, <3>3 DEF IsConfirm
  <2> QED
    BY <2>1, <2>2
<1>4. TypeOK'
  BY <1>0, <1>1, <1>2, <1>3, RowsAssumption DEF TypeOK
<1>5. Shaped' /\ OpenInv' /\ ServedInv' /\ GateOrder'
  BY <1>0, <1>1, <1>2 DEF Shaped, OpenInv, ServedInv, GateOrder, IsClose
<1>6. SpentInv'
  BY <1>0, <1>1 DEF SpentInv, Steady, InDoubt, LockFree
<1>7. TxInv'
  <2>1. \A j \in DOMAIN ops : ops[j].worker = "working" => j = i
    BY <1>0, <1>1 DEF TypeOK
  <2> QED
    BY <1>0, <1>1, <1>3, <2>1 DEF TxInv, IsConfirm, Key
<1>8. RowInv'
  BY <1>0, <1>1 DEF RowInv, Committed, Outlived, Succeeded, Key, Steady
<1> QED
  BY <1>4, <1>5, <1>6, <1>7, <1>8 DEF Inv

(* A worker that commits.                                                    *)
LEMMA CommitStep ==
    ASSUME Inv, NEW i \in DOMAIN ops, Commit(i)
    PROVE  Inv'
<1>0. TypeOK /\ Shaped /\ OpenInv /\ TxInv
  BY DEF Inv
<1> DEFINE r == IF IsConfirm(i) THEN <<"created">> ELSE <<"ok">>
<1>1. /\ ops[i].worker = "working" /\ tx.row = i /\ ~IsClose(i)
      /\ ops[i].kind[1] \in {"save", "confirm"}
      /\ Finish(i, r) /\ rows' = tx /\ tx' = NoTx
      /\ UNCHANGED <<origin, schema, draft, connection, phase, closing,
                     budget>>
  BY <1>0 DEF Commit, Committing, KeepsStore, Shaped, OpShape, IsClose
<1>2. /\ r \in Results \ {Pending} /\ r \in {<<"ok">>, <<"created">>}
      /\ r = <<"created">> => IsConfirm(i)
      /\ Fits(ops[i].kind, r)
  BY <1>1 DEF Results, Pending, Fits, IsConfirm
<1> HIDE DEF r
<1>3. tx \in Rows /\ rows \in Rows
  BY <1>0, <1>1 DEF TypeOK, LockFree
<1>4. /\ rows.events \subseteq tx.events
      /\ IsConfirm(i) => Key(i) \in tx.events
  BY <1>0, <1>1, <1>3 DEF TxInv, IsConfirm, Rows
<1>5. /\ Edited(i, ops[i].stage, "finished", r)
      /\ ops[i].stage \in {"held", "gone"}
      /\ TypeOK' /\ Shaped' /\ OpenInv' /\ ServedInv' /\ GateOrder'
      /\ SpentInv' /\ TxInv'
  <2>1. /\ connection' \in BOOLEAN /\ budget' \in [Disturbances -> Nat]
        /\ \A d \in Disturbances : budget'[d] <= budget[d]
        /\ rows' \in Rows /\ tx' \in Rows \cup {NoTx}
    BY <1>0, <1>1, <1>3 DEF TypeOK
  <2> QED
    BY <1>1, <1>2, <2>1, Finishing
<1>6. RowInv'
  BY <1>1, <1>2, <1>3, <1>4, <1>5, RowsWritten DEF Steady
<1> QED
  BY <1>5, <1>6 DEF Inv

(* A new call queues behind all others.                                      *)
LEMMA CallStep ==
    ASSUME Inv, NEW kind \in Kinds, Call(kind)
    PROVE  Inv'
<1> DEFINE o == [kind |-> kind, stage |-> "queued", worker |-> "none",
                 result |-> Pending]
<1>0. /\ TypeOK /\ Shaped /\ OpenInv /\ ServedInv /\ GateOrder /\ SpentInv
      /\ TxInv /\ RowInv
  BY DEF Inv
<1>1. /\ phase \in {"open", "closed"} /\ Len(ops) < MaxCalls
      /\ ops' = Append(ops, o)
      /\ UNCHANGED <<origin, schema, rows, draft, tx, connection, phase,
                     closing, budget>>
  BY DEF Call, file
<1>2. /\ o \in Operations /\ o.kind = kind /\ o.stage = "queued"
      /\ o.worker = "none" /\ o.result = Pending
  BY DEF Operations, Stages, Workers, Results
<1> HIDE DEF o
<1>3. /\ ops \in Seq(Operations) /\ Len(ops) \in Nat
      /\ DOMAIN ops = 1 .. Len(ops) /\ MaxCalls \in Nat
  BY <1>0, StoreAssumption DEF TypeOK
<1>4. /\ ops' \in Seq(Operations) /\ Len(ops') = Len(ops) + 1
      /\ \A i \in 1 .. Len(ops) : ops'[i] = ops[i]
      /\ ops'[Len(ops) + 1] = o
  BY <1>1, <1>2, <1>3, AppendProperties
<1>5. DOMAIN ops' = 1 .. Len(ops) + 1
  BY <1>4
<1>6. PICK n : n = Len(ops) + 1
  OBVIOUS
<1>7. /\ DOMAIN ops' = DOMAIN ops \cup {n} /\ ops'[n] = o
      /\ \A i \in DOMAIN ops : /\ ops'[i] = ops[i] /\ i # n
                               /\ i < n /\ ~(n < i)
      /\ ~(n < n)
  BY <1>3, <1>4, <1>5, <1>6
<1>8. LockFree' = LockFree
  BY <1>2, <1>7 DEF LockFree
<1>9. TypeOK'
  BY <1>0, <1>1, <1>2, <1>4, <1>7, <1>8 DEF TypeOK
<1>10. Shaped'
  <2>1. OpShape(o)
    BY <1>2 DEF OpShape, Pending, Fits
  <2> QED
    BY <1>0, <1>1, <1>3, <1>4, <1>7, <2>1 DEF Shaped
<1>11. OpenInv'
  BY <1>0, <1>1 DEF OpenInv
<1>12. ServedInv'
  BY <1>0, <1>1, <1>2, <1>7 DEF ServedInv, IsClose
<1>13. GateOrder'
  BY <1>0, <1>2, <1>7 DEF GateOrder
<1>14. SpentInv'
  BY <1>0, <1>1, <1>2, <1>7, <1>8 DEF SpentInv, Steady, InDoubt
<1>15. TxInv'
  BY <1>0, <1>1, <1>2, <1>7 DEF TxInv, IsConfirm, Key
<1>16. RowInv'
  <2>1. Pending \notin {<<"ok">>, <<"created">>, <<"duplicate">>}
    BY DEF Pending
  <2>2. (rows.row # 0 => rows.row \in DOMAIN ops /\ Succeeded(rows.row))'
    BY <1>0, <1>1, <1>7 DEF RowInv, Succeeded
  <2>3. \A j \in DOMAIN ops : Outlived(j) => Outlived(j)'
    BY <1>0, <1>1, <1>7 DEF RowInv, Outlived
  <2>4. \A j \in DOMAIN ops :
          /\ Committed(j)' = Committed(j) /\ Key(j)' = Key(j)
    BY <1>1, <1>7 DEF Committed, Key, Steady
  <2>5. ~Committed(n)'
    BY <1>2, <1>7, <2>1 DEF Committed
  <2> QED
    BY <1>0, <1>1, <1>2, <1>7, <2>1, <2>2, <2>3, <2>4, <2>5 DEF RowInv, Steady
<1> QED
  BY <1>9, <1>10, <1>11, <1>12, <1>13, <1>14, <1>15, <1>16 DEF Inv

(* The process dies: what was not answered is dead, the file stays.          *)
LEMMA CrashStep ==
    ASSUME Inv, Crash
    PROVE  Inv'
<1>0. /\ TypeOK /\ Shaped /\ OpenInv /\ ServedInv /\ GateOrder /\ SpentInv
      /\ TxInv /\ RowInv
  BY DEF Inv
<1> DEFINE Dies(i) == \/ ops[i].stage \in {"queued", "held"}
                      \/ ops[i].worker \in {"waiting", "working"}
           Left(i) == IF Dies(i)
                      THEN [ops[i] EXCEPT !.stage = "dead",
                              !.worker = IF @ = "finished" THEN @ ELSE "none"]
                      ELSE ops[i]
<1>1. /\ draft' = "none" /\ tx' = NoTx /\ connection' = FALSE
      /\ phase # "rejected" /\ phase' = "new" /\ closing' = FALSE
      /\ ops' = [i \in DOMAIN ops |-> Left(i)]
      /\ UNCHANGED <<origin, schema, rows>>
  BY DEF Crash, file
<1>2. /\ budget' \in [Disturbances -> Nat]
      /\ \A d \in Disturbances : budget'[d] <= budget[d]
  BY <1>0, SpendOnce DEF Crash, Disturbances
<1>3. ASSUME NEW i \in DOMAIN ops
      PROVE  /\ Left(i) \in Operations
             /\ Left(i).kind = ops[i].kind /\ Left(i).result = ops[i].result
             /\ Left(i).stage = IF Dies(i) THEN "dead" ELSE ops[i].stage
             /\ Left(i).worker \in {"none", "finished"}
             /\ Left(i).worker =
                  IF Dies(i) /\ ops[i].worker # "finished"
                  THEN "none" ELSE ops[i].worker
  BY <1>0, OpFields DEF Operations, Stages, Workers
<1> HIDE DEF Left
<1>4. /\ ops' \in Seq(Operations) /\ Len(ops') = Len(ops)
      /\ DOMAIN ops' = DOMAIN ops
  <2>1. DOMAIN ops = 1 .. Len(ops) /\ Len(ops) \in Nat
    BY <1>0 DEF TypeOK
  <2>2. ops' = [i \in 1 .. Len(ops) |-> Left(i)]
    BY <1>1, <2>1
  <2>3. \A i \in 1 .. Len(ops) : Left(i) \in Operations
    BY <1>3, <2>1
  <2> QED
    BY <2>1, <2>2, <2>3
<1>5. \A i \in DOMAIN ops :
        /\ ops'[i].kind = ops[i].kind /\ ops'[i].result = ops[i].result
        /\ ops'[i].stage = IF Dies(i) THEN "dead" ELSE ops[i].stage
        /\ ops'[i].worker \in {"none", "finished"}
        /\ ops'[i].worker = IF Dies(i) /\ ops[i].worker # "finished"
                            THEN "none" ELSE ops[i].worker
  BY <1>1, <1>3
<1>6. /\ LockFree'
      /\ \A i \in DOMAIN ops : ops'[i].stage \notin {"queued", "held"}
  BY <1>4, <1>5 DEF LockFree
<1>7. TypeOK'
  <2>1. /\ origin' \in {"empty", "v1", "other"}
        /\ schema' \in {"empty", "tables", "v1", "other"}
        /\ draft' \in {"none", "empty", "tables", "v1"}
        /\ rows' \in Rows /\ tx' \in Rows \cup {NoTx}
        /\ connection' \in BOOLEAN /\ closing' \in BOOLEAN
        /\ phase' \in Phases
    BY <1>0, <1>1 DEF TypeOK, Phases
  <2>2. \A i, j \in DOMAIN ops' :
          /\ ops'[i].stage = "held" /\ ops'[j].stage = "held" => i = j
          /\ ops'[i].worker = "working" /\ ops'[j].worker = "working" => i = j
    BY <1>4, <1>5, <1>6
  <2> QED
    BY <1>2, <1>4, <1>6, <2>1, <2>2 DEF TypeOK
<1>8. Shaped'
  <2>1. ASSUME NEW i \in DOMAIN ops
        PROVE  OpShape(ops[i])'
    <3>1. OpShape(ops[i])
      BY <1>0 DEF Shaped
    <3> QED
      BY <1>0, <1>5, <3>1, OpFields DEF OpShape, Workers
  <2> QED
    BY <1>0, <1>4, <2>1 DEF Shaped
<1>9. OpenInv'
  BY <1>0, <1>1 DEF OpenInv
<1>10. ServedInv'
  BY <1>1, <1>4, <1>5, <1>6 DEF ServedInv
<1>11. GateOrder'
  BY <1>4, <1>6 DEF GateOrder
<1>12. SpentInv' /\ (Steady' => Steady)
  BY <1>0, <1>1, <1>2, <1>4, <1>5, StaysSpent DEF SpentInv, InDoubt
<1>13. TxInv'
  BY <1>4, <1>5 DEF TxInv
<1>14. RowInv'
  <2>1. (rows.row # 0 => rows.row \in DOMAIN ops /\ Succeeded(rows.row))'
    BY <1>0, <1>1, <1>4, <1>5 DEF RowInv, Succeeded
  <2>2. ASSUME rows.row # 0, ops[rows.row].stage = "gone"
        PROVE  ops'[rows.row].stage = "gone"
    BY <1>0, <1>5, <2>2 DEF RowInv, Succeeded, Shaped, OpShape
  <2>3. \A j \in DOMAIN ops : Outlived(j) => Outlived(j)'
    BY <1>1, <2>2 DEF Outlived
  <2>4. \A j \in DOMAIN ops :
          /\ Committed(j)' => Committed(j)
          /\ Key(j)' = Key(j)
    BY <1>5, <1>12 DEF Committed, Key
  <2>5. \A j \in DOMAIN ops :
          ops'[j].stage \in {"held", "answered"} => ops[j].stage = "answered"
    BY <1>5
  <2> QED
    BY <1>0, <1>1, <1>4, <1>5, <1>12, <2>1, <2>3, <2>4, <2>5 DEF RowInv
<1> QED
  BY <1>7, <1>8, <1>9, <1>10, <1>11, <1>12, <1>13, <1>14 DEF Inv

-----------------------------------------------------------------------------
(* The theorems.                                                           *)

(* The invariant holds at the start.                                         *)
LEMMA InitInv == Init => Inv
<1> SUFFICES ASSUME Init
             PROVE  Inv
  OBVIOUS
<1>1. /\ origin \in {"empty", "v1", "other"} /\ schema = origin
      /\ draft = "none" /\ rows = [row |-> 0, events |-> {}] /\ tx = NoTx
      /\ connection = FALSE /\ phase = "new" /\ closing = FALSE
      /\ ops = <<>> /\ budget = Budget
  BY DEF Init
<1>2. /\ ops \in Seq(Operations) /\ DOMAIN ops = {} /\ Len(ops) = 0
      /\ Budget \in [Disturbances -> Nat] /\ MaxCalls \in Nat
  BY <1>1, StoreAssumption
<1>3. TypeOK
  <2>1. rows \in Rows
    BY <1>1, <1>2 DEF Rows
  <2> QED
    BY <1>1, <1>2, <2>1 DEF TypeOK, Phases, LockFree
<1>4. Shaped /\ ServedInv /\ GateOrder /\ TxInv
  BY <1>1, <1>2 DEF Shaped, ServedInv, GateOrder, TxInv
<1>5. OpenInv /\ SpentInv /\ RowInv
  BY <1>1, <1>2 DEF OpenInv, SpentInv, RowInv, InDoubt
<1> QED
  BY <1>3, <1>4, <1>5 DEF Inv

(* Every step keeps the invariant.                                           *)
LEMMA NextInv == Inv /\ [Next]_vars => Inv'
<1> SUFFICES ASSUME Inv, [Next]_vars
             PROVE  Inv'
  OBVIOUS
<1>1. CASE Open \/ FailOpen
  BY <1>1, OpeningStep
<1>2. ASSUME NEW kind \in Kinds, Call(kind)
      PROVE  Inv'
  BY <1>2, CallStep
<1>3. ASSUME NEW i \in DOMAIN ops,
             \/ Enter(i) \/ Answer(i) \/ Cancel(i)
             \/ WorkerStep(i) \/ Fail(i) \/ FailCommit(i)
      PROVE  Inv'
  BY <1>3, EnterStep, AnswerStep, CancelStep, RefuseClosedStep,
     CloseConnectionStep, ReadStep, FindDuplicateStep, UpsertStep, BeginStep,
     StatementStep, CommitStep, FailStep DEF WorkerStep
<1>4. CASE Crash
  BY <1>4, CrashStep
<1>5. CASE UNCHANGED vars
  BY <1>5 DEF vars, file, Inv, TypeOK, Shaped, OpenInv, ServedInv, GateOrder,
     SpentInv, Steady, TxInv, RowInv, LockFree, InDoubt, IsClose, IsConfirm,
     Key, Committed, Outlived, Succeeded
<1> QED
  BY <1>1, <1>2, <1>3, <1>4, <1>5 DEF Next

(* The invariant holds in every reachable state of the store.                *)
THEOREM InvAlways == Spec => []Inv
<1>1. Inv /\ [Next]_vars => Inv'
  BY NextInv
<1> QED
  BY InitInv, <1>1, PTL DEF Spec

(* Types, the gate and the threading lock have one holder each, and a      *)
(* transaction is open for the thread that holds the lock.                 *)
THEOREM TypeOKAlways == Spec => []TypeOK
<1>1. Inv => TypeOK
  BY DEF Inv
<1> QED
  BY InvAlways, <1>1, PTL

(* A crash or a failure at any moment of the bootstrap (schema.py) leaves  *)
(* a file that is empty or complete, and a foreign file untouched.         *)
THEOREM BootstrapNeverPartial == Spec => []BootstrapIsAtomic
<1>1. Inv => BootstrapIsAtomic
  BY DEF Inv, OpenInv, BootstrapIsAtomic
<1> QED
  BY InvAlways, <1>1, PTL

(* A close that was answered (async_close) has drained the store, and what *)
(* was refused because the store is closed has written nothing.            *)
THEOREM ClosedForGood == Spec => []CloseIsFinal
<1>1. Inv => CloseIsFinal
  <2> SUFFICES ASSUME Inv
               PROVE  CloseIsFinal
    OBVIOUS
  <2>0. /\ TypeOK /\ OpenInv /\ ServedInv /\ SpentInv /\ RowInv
    BY DEF Inv
  <2>1. ASSUME phase = "closed"
        PROVE  /\ ~connection /\ tx = NoTx
               /\ \A i \in DOMAIN ops : ops[i].worker # "working"
    BY <2>0, <2>1 DEF OpenInv, TypeOK, LockFree
  <2>2. ASSUME phase = "closed", Undisturbed({"cancel"}), NEW i \in DOMAIN ops
        PROVE  ops[i].worker # "waiting"
    <3>1. budget["cancel"] = Budget["cancel"] /\ Budget["cancel"] \in Nat
      BY <2>2, StoreAssumption DEF Undisturbed, Disturbances
    <3> QED
      BY <2>0, <2>2, <3>1 DEF ServedInv, SpentInv
  <2>3. ASSUME NEW i \in DOMAIN ops, rows.row = i
        PROVE  ops[i].result \notin {Pending, <<"closed">>}
    BY <2>0, <2>3, OpFields DEF RowInv, Succeeded
  <2> QED
    BY <2>1, <2>2, <2>3 DEF CloseIsFinal
<1> QED
  BY InvAlways, <1>1, PTL

(* The gate of AsyncSQLiteStore hands the connection over in the order of  *)
(* the calls; only the worker of a cancelled caller is still on its way    *)
(* when a later call's worker starts.                                      *)
THEOREM TurnsAreTaken == Spec => []OperationsTakeTurns
<1>1. Inv => OperationsTakeTurns
  <2> SUFFICES ASSUME Inv, NEW i \in DOMAIN ops, NEW j \in DOMAIN ops,
                      i < j, ops[j].worker # "none"
               PROVE  /\ ops[i].stage \notin {"queued", "held"}
                      /\ ops[i].worker \in {"waiting", "working"} =>
                           ops[i].stage = "gone"
    BY DEF OperationsTakeTurns
  <2>1. ops[i].stage \notin {"queued", "held"}
    BY DEF Inv, GateOrder
  <2>2. ops[i].worker \in {"waiting", "working"} => ops[i].stage = "gone"
    BY <2>1 DEF Inv, Shaped, OpShape
  <2> QED
    BY <2>1, <2>2
<1> QED
  BY InvAlways, <1>1, PTL

(* Durability: what add_event_and_save_runtime, save_runtime and the lone  *)
(* statements have answered stays in the file over crashes, failures and   *)
(* cancellations, up to later writes and abandoned workers.                *)
THEOREM AcknowledgedDurable == Spec => []AcknowledgedWritesLast
<1>1. Inv => AcknowledgedWritesLast
  <2> SUFFICES ASSUME Inv, NEW i \in DOMAIN ops, ops[i].stage = "answered"
               PROVE  /\ IsConfirm(i) =>
                           \/ Key(i) \in rows.events
                           \/ /\ ops[i].result = <<"duplicate">>
                              /\ ~Undisturbed({"stuck"})
                      /\ /\ Wrote(i)
                         /\ ops[i].kind[1] # "upsert" \/ Undisturbed({"stuck"})
                         => \/ rows.row >= i
                            \/ rows.row # 0 /\ ops[rows.row].stage = "gone"
    BY DEF AcknowledgedWritesLast, Wrote
  <2>0. TypeOK /\ Shaped /\ RowInv
    BY DEF Inv
  <2>1. Steady = Undisturbed({"stuck"})
    BY DEF Steady, Undisturbed
  <2>2. OpShape(ops[i])
    BY <2>0 DEF Shaped
  <2> QED
    BY <2>0, <2>1, <2>2 DEF OpShape, Fits, RowInv, Wrote, IsConfirm, Committed,
       Outlived
<1> QED
  BY InvAlways, <1>1, PTL

-----------------------------------------------------------------------------
(* The store implements AtomicStore.                                       *)

(* The mapping of Atomic, named.                                           *)
Asked    == [j \in DOMAIN ops |-> ops[j].kind]
Statuses == [j \in DOMAIN ops |-> Status(j)]
Outcomes == [j \in DOMAIN ops |->
               IF Succeeded(j) THEN ops[j].result ELSE Pending]
Seen     == IF InDoubt THEN tx ELSE rows

Mapped == <<Asked, Statuses, Outcomes, Seen, rows, InDoubt>>

AtomicStep == Atomic!Next \/ UNCHANGED Mapped

(* How far AtomicStore takes a call to be, by stage and worker.              *)
LEMMA StatusOf ==
    ASSUME Inv, NEW i \in DOMAIN ops
    PROVE  /\ ops[i].worker \in {"waiting", "working"} => Status(i) = "asked"
           /\ ops[i].stage = "queued" => Status(i) = "asked"
           /\ ops[i].stage = "held" /\ ops[i].worker = "finished" =>
                Status(i) = IF Succeeded(i) THEN "done" ELSE "void"
           /\ ops[i].result = Pending => ~Succeeded(i)
<1>1. OpShape(ops[i])
  BY DEF Inv, Shaped
<1> QED
  BY <1>1 DEF OpShape, Status, Succeeded

(* An edit of one call changes the mapping at that call only.                *)
LEMMA MapEdit ==
    ASSUME NEW i \in DOMAIN ops, NEW stage, NEW worker, NEW result,
           Edited(i, stage, worker, result)
    PROVE  /\ Asked' = Asked
           /\ Statuses' = [Statuses EXCEPT ![i] = Status(i)']
           /\ Outcomes' = [Outcomes EXCEPT ![i] =
                           (IF Succeeded(i) THEN ops[i].result ELSE Pending)']
<1>1. /\ DOMAIN ops' = DOMAIN ops /\ ops'[i].kind = ops[i].kind
      /\ \A j \in DOMAIN ops : j # i => ops'[j] = ops[j]
  BY DEF Edited
<1>2. \A j \in DOMAIN ops : j # i => /\ Status(j)' = Status(j)
                                     /\ Succeeded(j)' = Succeeded(j)
  BY <1>1 DEF Status, Succeeded
<1>3. Asked' = Asked
  BY <1>1 DEF Asked
<1>4. Statuses' = [Statuses EXCEPT ![i] = Status(i)']
  BY <1>1, <1>2 DEF Statuses
<1>5. Outcomes' = [Outcomes EXCEPT ![i] =
                     (IF Succeeded(i) THEN ops[i].result ELSE Pending)']
  BY <1>1, <1>2 DEF Outcomes
<1> QED
  BY <1>3, <1>4, <1>5

(* An edit that leaves status and outcome of its call.                     *)
LEMMA MapNothing ==
    ASSUME NEW i \in DOMAIN ops, NEW stage, NEW worker, NEW result,
           Edited(i, stage, worker, result), Status(i)' = Status(i),
           (IF Succeeded(i) THEN ops[i].result ELSE Pending)' =
              (IF Succeeded(i) THEN ops[i].result ELSE Pending),
           UNCHANGED rows, Seen' = Seen, InDoubt' = InDoubt
    PROVE  AtomicStep
<1>1. Asked' = Asked /\ Statuses' = Statuses /\ Outcomes' = Outcomes
  <2>1. /\ Asked' = Asked /\ Statuses' = [Statuses EXCEPT ![i] = Status(i)]
        /\ Outcomes' = [Outcomes EXCEPT ![i] =
                          IF Succeeded(i) THEN ops[i].result ELSE Pending]
    BY MapEdit
  <2>2. [Statuses EXCEPT ![i] = Status(i)] = Statuses
    BY DEF Statuses
  <2>3. [Outcomes EXCEPT ![i] =
           IF Succeeded(i) THEN ops[i].result ELSE Pending] = Outcomes
    BY DEF Outcomes
  <2> QED
    BY <2>1, <2>2, <2>3, Zenon
<1> QED
  BY <1>1 DEF AtomicStep, Mapped

(* A call that will have no effect any more is refused.                      *)
LEMMA MapRefuse ==
    ASSUME NEW i \in DOMAIN ops, NEW stage, NEW worker, NEW result,
           Edited(i, stage, worker, result),
           Status(i) = "asked", (Status(i) = "void")',
           ~Succeeded(i), ~Succeeded(i)',
           UNCHANGED rows, Seen' = Seen, InDoubt' = InDoubt
    PROVE  AtomicStep
<1>1. /\ Asked' = Asked /\ Statuses' = [Statuses EXCEPT ![i] = "void"]
      /\ Outcomes' = Outcomes
  BY MapEdit DEF Outcomes
<1>2. Atomic!Refuse(i)
  BY <1>1 DEF Atomic!Refuse, Asked, Statuses, Outcomes, Seen
<1> QED
  BY <1>2 DEF AtomicStep, Atomic!Next

(* The effect and the result of a call, in terms of the store's calls.       *)
LEMMA EffectIs ==
    ASSUME NEW i \in DOMAIN ops, NEW data
    PROVE  /\ Atomic!Effect(data, i) =
                CASE ops[i].kind[1] = "read"    -> data
                  [] ops[i].kind[1] = "confirm" ->
                       IF Key(i) \in data.events THEN data
                       ELSE [row |-> i, events |-> data.events \cup {Key(i)}]
                  [] OTHER -> [data EXCEPT !.row = i]
           /\ Atomic!Found(data, i) =
                CASE ops[i].kind[1] = "read"    -> <<"row", data.row>>
                  [] ops[i].kind[1] = "confirm" ->
                       IF Key(i) \in data.events THEN <<"duplicate">>
                       ELSE <<"created">>
                  [] OTHER -> <<"ok">>
BY DEF Atomic!Effect, Atomic!Found, Key

(* A worker that ends with a result has had its effect in that step.       *)
LEMMA MapEffect ==
    ASSUME Inv, NEW i \in DOMAIN ops, NEW result \in Results \ {Pending},
           result \notin {<<"closed">>, <<"failed">>},
           Edited(i, ops[i].stage, "finished", result),
           ops[i].stage \in {"held", "gone"},
           ops[i].worker \in {"waiting", "working"}, ~IsClose(i),
           InDoubt' = InDoubt, InDoubt => ~Atomic!NeedsTransaction(i),
           result = Atomic!Found(Seen, i), Seen' = Atomic!Effect(Seen, i),
           rows' = IF InDoubt THEN rows ELSE Seen'
    PROVE  AtomicStep
<1>1. Status(i) = "asked"
  BY StatusOf
<1>2. Succeeded(i)' /\ (Status(i) = "done")' /\ ops'[i].result = result
  BY DEF Edited, Succeeded, Status
<1>3. /\ Asked' = Asked /\ Statuses' = [Statuses EXCEPT ![i] = "done"]
      /\ Outcomes' = [Outcomes EXCEPT ![i] = result]
  BY <1>2, MapEdit
<1>4. Atomic!TakeEffect(i)
  BY <1>1, <1>3
     DEF Atomic!TakeEffect, Asked, Statuses, Outcomes, Seen, IsClose
<1> QED
  BY <1>4 DEF AtomicStep, Atomic!Next

(* Whoever starts or ends on a free lock leaves the doubt as it is, unless *)
(* it changes the transaction.                                             *)
LEMMA DoubtStands ==
    ASSUME Inv, NEW i \in DOMAIN ops, NEW stage, NEW worker, NEW result,
           Edited(i, stage, worker, result), UNCHANGED tx,
           worker = "working" <=> ops[i].worker = "working"
    PROVE  InDoubt' = InDoubt
<1>1. LockFree' = LockFree
  BY DEF Edited, LockFree
<1> QED
  BY <1>1 DEF InDoubt

(* Entering the gate: a stutter, a refusal, or a close already done.         *)
LEMMA EnterMaps ==
    ASSUME Inv, NEW i \in DOMAIN ops, Enter(i)
    PROVE  AtomicStep
<1>0. TypeOK /\ Shaped /\ OpenInv /\ ServedInv
  BY DEF Inv
<1>1. /\ ops[i].stage = "queued" /\ Status(i) = "asked"
      /\ ops[i].worker = "none" /\ ops[i].result = Pending /\ ~Succeeded(i)
      /\ phase \in {"open", "closed"}
      /\ tx' = tx /\ rows' = rows
  BY <1>0, StatusOf DEF Enter, Shaped, OpShape, ServedInv, file
<1>2. CASE phase = "open" /\ (IsClose(i) \/ ~closing)
  <2>1. ops' = [ops EXCEPT ![i].stage = "held", ![i].worker = "waiting",
                           ![i].result = Pending]
    BY <1>0, <1>1, <1>2, OpFields DEF Enter, TypeOK, Operations
  <2>2. Edited(i, "held", "waiting", Pending)
    BY <1>0, <2>1, Edit DEF Stages, Workers, Results
  <2>3. Status(i)' = "asked" /\ ~Succeeded(i)'
    BY <2>2 DEF Edited, Status, Succeeded
  <2>4. InDoubt' = InDoubt
    BY <1>1, <2>2, DoubtStands
  <2> QED
    BY <1>1, <2>2, <2>3, <2>4, MapNothing DEF Seen
<1>3. CASE phase = "closed" /\ IsClose(i)
  <2>1. ops' = [ops EXCEPT ![i].stage = "held", ![i].worker = "finished",
                           ![i].result = <<"ok">>]
    BY <1>0, <1>1, <1>3, OpFields DEF Enter, TypeOK, Operations
  <2>2. Edited(i, "held", "finished", <<"ok">>)
    BY <1>0, <2>1, Edit DEF Stages, Workers, Results
  <2>3. (Status(i) = "done")' /\ Succeeded(i)' /\ ops'[i].result = <<"ok">>
    BY <2>2 DEF Edited, Status, Succeeded, Pending
  <2>4. ~InDoubt /\ ~InDoubt'
    BY <1>0, <1>1, <1>3 DEF OpenInv, InDoubt
  <2>5. /\ Asked' = Asked /\ Statuses' = [Statuses EXCEPT ![i] = "done"]
        /\ Outcomes' = [Outcomes EXCEPT ![i] = <<"ok">>]
    BY <2>2, <2>3, MapEdit
  <2>6. Atomic!Close(i)
    BY <1>1, <1>3, <2>4, <2>5
       DEF Atomic!Close, Asked, Statuses, Outcomes, Seen, IsClose
  <2> QED
    BY <2>6 DEF AtomicStep, Atomic!Next
<1>4. CASE ~IsClose(i) /\ (phase = "closed" \/ closing)
  <2>1. ops' = [ops EXCEPT ![i].stage = "refused"]
    BY <1>0, <1>1, <1>4, OpFields DEF Enter, TypeOK, Operations
  <2>2. Edited(i, "refused", "none", Pending)
    BY <1>0, <1>1, <2>1, StageEdit DEF Stages
  <2>3. Status(i)' = "void" /\ ~Succeeded(i)'
    BY <2>2 DEF Edited, Status, Succeeded
  <2>4. InDoubt' = InDoubt
    BY <1>1, <2>2, DoubtStands
  <2> QED
    BY <1>1, <2>2, <2>3, <2>4, MapRefuse DEF Seen
<1> QED
  BY <1>1, <1>2, <1>3, <1>4, <1>0 DEF TypeOK

(* Leaving the gate is the answer, or a stutter if it is an error.           *)
LEMMA AnswerMaps ==
    ASSUME Inv, NEW i \in DOMAIN ops, Answer(i)
    PROVE  AtomicStep
<1> DEFINE s == IF Succeeded(i) THEN "answered" ELSE "refused"
<1>1. /\ ops[i].stage = "held" /\ ops[i].worker = "finished"
      /\ ops' = [ops EXCEPT ![i].stage = s]
      /\ tx' = tx /\ rows' = rows /\ TypeOK
  BY DEF Answer, file, Inv
<1>2. Edited(i, s, "finished", ops[i].result)
  BY <1>1, StageEdit DEF Stages
<1>3. Succeeded(i)' = Succeeded(i) /\ ops'[i].result = ops[i].result
  BY <1>2 DEF Edited, Succeeded
<1>4. InDoubt' = InDoubt /\ Seen' = Seen
  BY <1>1, <1>2, DoubtStands DEF Seen
<1>5. CASE Succeeded(i)
  <2>1. Status(i) = "done" /\ (Status(i) = "answered")'
    BY <1>1, <1>2, <1>5, StatusOf DEF Edited, Status
  <2>2. /\ Asked' = Asked /\ Statuses' = [Statuses EXCEPT ![i] = "answered"]
        /\ Outcomes' = Outcomes
    BY <1>2, <1>3, <2>1, MapEdit DEF Outcomes
  <2>3. Atomic!Answer(i)
    BY <1>1, <1>4, <2>1, <2>2
       DEF Atomic!Answer, Asked, Statuses, Outcomes, Seen
  <2> QED
    BY <2>3 DEF AtomicStep, Atomic!Next
<1>6. CASE ~Succeeded(i)
  <2>1. Status(i) = "void" /\ (Status(i) = "void")'
    BY <1>1, <1>2, <1>3, <1>6, StatusOf DEF Edited, Status, Succeeded
  <2> QED
    BY <1>1, <1>2, <1>3, <1>4, <2>1, MapNothing
<1> QED
  BY <1>5, <1>6

(* A cancelled caller is refused if no worker has started.                   *)
LEMMA CancelMaps ==
    ASSUME Inv, NEW i \in DOMAIN ops, Cancel(i)
    PROVE  AtomicStep
<1>1. /\ ops[i].stage \in {"queued", "held"}
      /\ ops' = [ops EXCEPT ![i].stage = "gone"]
      /\ tx' = tx /\ rows' = rows /\ TypeOK /\ OpShape(ops[i])
      /\ ops[i].worker \in Workers
  BY OpFields DEF Cancel, file, Inv, Shaped
<1>2. Edited(i, "gone", ops[i].worker, ops[i].result)
  BY <1>1, StageEdit DEF Stages
<1>3. Succeeded(i)' = Succeeded(i) /\ ops'[i].result = ops[i].result
  BY <1>2 DEF Edited, Succeeded
<1>4. InDoubt' = InDoubt /\ Seen' = Seen
  BY <1>1, <1>2, DoubtStands DEF Seen
<1>5. CASE ops[i].stage = "queued"
  <2>1. Status(i) = "asked" /\ (Status(i) = "void")' /\ ~Succeeded(i)
    BY <1>1, <1>2, <1>5, StatusOf DEF Edited, Status, Succeeded, OpShape
  <2> QED
    BY <1>1, <1>2, <1>3, <1>4, <2>1, MapRefuse
<1>6. CASE ops[i].stage = "held"
  <2>1. Status(i)' = Status(i)
    BY <1>1, <1>2, <1>3, <1>6 DEF Edited, Status, Succeeded, OpShape, Workers
  <2> QED
    BY <1>1, <1>2, <1>3, <1>4, <2>1, MapNothing
<1> QED
  BY <1>1, <1>5, <1>6

(* A worker that ends without a result.                                    *)
LEMMA FailureMaps ==
    ASSUME Inv, NEW i \in DOMAIN ops,
           NEW result \in {<<"closed">>, <<"failed">>},
           Finish(i, result), ops[i].worker \in {"waiting", "working"},
           UNCHANGED rows, Seen' = Seen, InDoubt' = InDoubt
    PROVE  AtomicStep
<1>1. /\ Status(i) = "asked" /\ ops[i].result = Pending /\ ~Succeeded(i)
      /\ ops[i].stage \in {"held", "gone"} /\ TypeOK
  BY StatusOf DEF Inv, Shaped, OpShape
<1>2. result \in Results
  BY DEF Results
<1>3. Edited(i, ops[i].stage, "finished", result)
  BY <1>1, <1>2, FinishEdit
<1>4. (Status(i) = "void")' /\ ~Succeeded(i)'
  BY <1>1, <1>3 DEF Edited, Status, Succeeded, Pending
<1> QED
  BY <1>1, <1>3, <1>4, MapRefuse

(* A worker that ends leaves the threading lock free.                        *)
LEMMA FreeLock ==
    ASSUME Inv, NEW i \in DOMAIN ops, NEW result \in Results,
           Finish(i, result),
           ops[i].worker = "working" \/ LockFree
    PROVE  /\ LockFree' /\ Edited(i, ops[i].stage, "finished", result)
           /\ \A j \in DOMAIN ops : ops[j].worker = "working" => j = i
<1>1. \A j \in DOMAIN ops : ops[j].worker = "working" => j = i
  BY DEF Inv, TypeOK, LockFree
<1>2. Edited(i, ops[i].stage, "finished", result)
  BY FinishEdit DEF Inv
<1> QED
  BY <1>1, <1>2 DEF LockFree, Edited

(* A failed statement, rolled back, is a refusal.                            *)
LEMMA FailMaps ==
    ASSUME Inv, NEW i \in DOMAIN ops, Fail(i)
    PROVE  AtomicStep
<1>1. /\ Finish(i, <<"failed">>) /\ rows' = rows
      /\ ops[i].worker \in {"waiting", "working"}
      /\ ops[i].worker = "working" \/ LockFree
      /\ \/ LockFree /\ tx' = tx
         \/ ops[i].worker = "working" /\ tx' = NoTx
  BY DEF Fail, TakesLock, file
<1>2. LockFree'
  BY <1>1, FreeLock DEF Results
<1>3. InDoubt' = InDoubt /\ Seen' = Seen
  BY <1>1, <1>2 DEF InDoubt, Seen, LockFree
<1> QED
  BY <1>1, <1>3, FailureMaps

(* What a working thread is about to commit is the effect of its call on   *)
(* the rows.                                                               *)
LEMMA CommitsEffect ==
    ASSUME Inv, NEW i \in DOMAIN ops, Committing(i)
    PROVE  /\ ~InDoubt /\ tx = Atomic!Effect(rows, i) /\ tx # rows /\ tx # NoTx
           /\ ops[i].kind[1] \in {"save", "confirm"}
           /\ Atomic!Found(rows, i) =
                IF IsConfirm(i) THEN <<"created">> ELSE <<"ok">>
<1>1. /\ ops[i].worker = "working" /\ tx.row = i /\ ~LockFree
      /\ TypeOK /\ TxInv /\ OpShape(ops[i])
  BY DEF Committing, Inv, Shaped, LockFree
<1>2. tx \in Rows /\ rows \in Rows /\ rows.row # i /\ tx # NoTx
  BY <1>1 DEF TypeOK, TxInv
<1>3. CASE ops[i].kind[1] = "save"
  <2>1. tx = [rows EXCEPT !.row = i]
    BY <1>1, <1>2, <1>3 DEF TxInv
  <2>2. Atomic!Effect(rows, i) = [rows EXCEPT !.row = i]
    BY <1>3, EffectIs
  <2>3. Atomic!Found(rows, i) = <<"ok">>
    BY <1>3, EffectIs
  <2> QED
    BY <1>1, <1>2, <1>3, <2>1, <2>2, <2>3 DEF InDoubt, IsConfirm
<1>4. CASE IsConfirm(i)
  <2>1. /\ Key(i) \notin rows.events
        /\ tx = [row |-> i, events |-> rows.events \cup {Key(i)}]
    BY <1>1, <1>2, <1>4 DEF TxInv, Rows
  <2>2. /\ Atomic!Effect(rows, i) =
             [row |-> i, events |-> rows.events \cup {Key(i)}]
        /\ Atomic!Found(rows, i) = <<"created">>
    BY <1>4, <2>1, EffectIs DEF IsConfirm
  <2> QED
    BY <1>1, <1>2, <1>4, <2>1, <2>2 DEF InDoubt, IsConfirm
<1> QED
  BY <1>1, <1>3, <1>4 DEF OpShape, IsConfirm

(* A commit that stays open puts the rows in doubt.                          *)
LEMMA FailCommitMaps ==
    ASSUME Inv, NEW i \in DOMAIN ops, FailCommit(i)
    PROVE  AtomicStep
<1>1. /\ Committing(i) /\ ops[i].worker = "working"
      /\ Finish(i, <<"failed">>) /\ tx' = tx /\ rows' = rows
  BY DEF FailCommit, Committing, file
<1>2. /\ LockFree' /\ Edited(i, ops[i].stage, "finished", <<"failed">>)
  BY <1>1, FreeLock DEF Results
<1>3. /\ Status(i) = "asked" /\ ~Succeeded(i)
      /\ ops[i].stage \in {"held", "gone"}
  BY <1>1, StatusOf DEF Inv, Shaped, OpShape
<1>4. (Status(i) = "void")' /\ ~Succeeded(i)'
  BY <1>2, <1>3 DEF Edited, Status, Succeeded, Pending
<1>5. /\ Asked' = Asked /\ Statuses' = [Statuses EXCEPT ![i] = "void"]
      /\ Outcomes' = Outcomes
  BY <1>2, <1>3, <1>4, MapEdit DEF Outcomes
<1>6. /\ ~InDoubt /\ InDoubt' /\ Seen = rows /\ Seen' = Atomic!Effect(Seen, i)
      /\ Seen' # Seen /\ ops[i].kind[1] \in {"save", "confirm"}
  BY <1>1, <1>2, CommitsEffect DEF InDoubt, Seen
<1>7. Atomic!NeedsTransaction(i)
  BY <1>6 DEF Atomic!NeedsTransaction, Seen
<1>8. Atomic!BecomeDoubtful(i)
  BY <1>1, <1>3, <1>5, <1>6, <1>7
     DEF Atomic!BecomeDoubtful, Asked, Statuses, Outcomes, Seen
<1> QED
  BY <1>8 DEF AtomicStep, Atomic!Next

(* A commit is the moment a transaction takes effect.                        *)
LEMMA CommitMaps ==
    ASSUME Inv, NEW i \in DOMAIN ops, Commit(i)
    PROVE  AtomicStep
<1> DEFINE r == IF IsConfirm(i) THEN <<"created">> ELSE <<"ok">>
<1>1. /\ Committing(i) /\ ops[i].worker = "working"
      /\ Finish(i, r) /\ rows' = tx /\ tx' = NoTx
  BY DEF Commit, Committing
<1>2. /\ ~InDoubt /\ tx = Atomic!Effect(rows, i) /\ r = Atomic!Found(rows, i)
      /\ ops[i].kind[1] \in {"save", "confirm"}
  BY <1>1, CommitsEffect
<1>3. r \in Results \ {Pending} /\ r \notin {<<"closed">>, <<"failed">>}
  BY DEF Results, Pending
<1> HIDE DEF r
<1>4. LockFree' /\ Edited(i, ops[i].stage, "finished", r)
  BY <1>1, <1>3, FreeLock
<1>5. /\ ~InDoubt' /\ InDoubt' = InDoubt /\ Seen = rows /\ Seen' = tx
      /\ rows' = IF InDoubt THEN rows ELSE Seen'
      /\ r = Atomic!Found(Seen, i) /\ Seen' = Atomic!Effect(Seen, i)
  BY <1>1, <1>2 DEF InDoubt, Seen
<1>6. ops[i].stage \in {"held", "gone"} /\ ~IsClose(i)
  BY <1>1, <1>2 DEF Inv, Shaped, OpShape, IsClose
<1> QED
  BY <1>1, <1>2, <1>3, <1>4, <1>5, <1>6, MapEffect

(* A worker that comes too late is a refusal.                                *)
LEMMA RefuseClosedMaps ==
    ASSUME Inv, NEW i \in DOMAIN ops, RefuseClosed(i)
    PROVE  AtomicStep
<1>1. /\ Finish(i, <<"closed">>) /\ rows' = rows /\ tx' = tx
      /\ ops[i].worker = "waiting" /\ LockFree
  BY DEF RefuseClosed, TakesLock
<1>2. LockFree'
  BY <1>1, FreeLock DEF Results
<1>3. InDoubt' = InDoubt /\ Seen' = Seen
  BY <1>1, <1>2 DEF InDoubt, Seen
<1> QED
  BY <1>1, <1>3, FailureMaps

(* Closing the connection takes back what is in doubt.                       *)
LEMMA CloseConnectionMaps ==
    ASSUME Inv, NEW i \in DOMAIN ops, CloseConnection(i)
    PROVE  AtomicStep
<1>1. /\ ops[i].worker = "waiting" /\ LockFree /\ IsClose(i)
      /\ Finish(i, <<"ok">>) /\ tx' = NoTx /\ rows' = rows
  BY DEF CloseConnection, TakesLock
<1>2. Edited(i, ops[i].stage, "finished", <<"ok">>)
  BY <1>1, FreeLock DEF Results
<1>3. Status(i) = "asked" /\ ops[i].stage \in {"held", "gone"}
  BY <1>1, StatusOf DEF Inv, Shaped, OpShape
<1>4. (Status(i) = "done")' /\ Succeeded(i)' /\ ops'[i].result = <<"ok">>
  BY <1>2, <1>3 DEF Edited, Status, Succeeded, Pending
<1>5. /\ Asked' = Asked /\ Statuses' = [Statuses EXCEPT ![i] = "done"]
      /\ Outcomes' = [Outcomes EXCEPT ![i] = <<"ok">>]
  BY <1>2, <1>4, MapEdit
<1>6. InDoubt' = FALSE /\ Seen' = rows
  BY <1>1 DEF InDoubt, Seen
<1>7. Atomic!Close(i)
  BY <1>1, <1>3, <1>5, <1>6
     DEF Atomic!Close, Asked, Statuses, Outcomes, Seen, IsClose
<1> QED
  BY <1>7 DEF AtomicStep, Atomic!Next

(* Under a free lock the rows an operation sees are those of AtomicStore.  *)
LEMMA SeesVisible ==
    ASSUME LockFree
    PROVE  /\ Seen = Visible /\ (InDoubt <=> tx # NoTx)
BY DEF Seen, Visible, InDoubt

(* A read sees the visible rows.                                             *)
LEMMA ReadMaps ==
    ASSUME Inv, NEW i \in DOMAIN ops, Read(i)
    PROVE  AtomicStep
<1>1. /\ ops[i].worker = "waiting" /\ LockFree /\ ops[i].kind[1] = "read"
      /\ Finish(i, <<"row", Visible.row>>) /\ rows' = rows /\ tx' = tx
  BY DEF Read, TakesLock
<1> DEFINE r == <<"row", Visible.row>>
<1>2. r \in Results \ {Pending} /\ r \notin {<<"closed">>, <<"failed">>}
  BY DEF Inv, TypeOK, Visible, Rows, Results, Pending
<1>3. r = Atomic!Found(Seen, i) /\ Seen = Atomic!Effect(Seen, i)
  BY <1>1, EffectIs, SeesVisible
<1> HIDE DEF r
<1>4. LockFree' /\ Edited(i, ops[i].stage, "finished", r)
  <2>1. Finish(i, r)
    BY <1>1 DEF r
  <2> QED
    BY <1>1, <1>2, <2>1, FreeLock
<1>5. /\ InDoubt' = InDoubt /\ Seen' = Seen
      /\ rows' = IF InDoubt THEN rows ELSE Seen'
  BY <1>1, <1>4 DEF InDoubt, Seen
<1>6. ops[i].stage \in {"held", "gone"} /\ ~IsClose(i)
  BY <1>1 DEF Inv, Shaped, OpShape, IsClose
<1>7. ~Atomic!NeedsTransaction(i)
  BY <1>1 DEF Atomic!NeedsTransaction
<1> QED
  BY <1>1, <1>2, <1>3, <1>4, <1>5, <1>6, <1>7, MapEffect

(* A duplicate confirmation changes nothing.                                 *)
LEMMA FindDuplicateMaps ==
    ASSUME Inv, NEW i \in DOMAIN ops, FindDuplicate(i)
    PROVE  AtomicStep
<1>1. /\ ops[i].worker = "waiting" /\ LockFree /\ IsConfirm(i)
      /\ Key(i) \in Visible.events
      /\ Finish(i, <<"duplicate">>) /\ rows' = rows /\ tx' = tx
  BY DEF FindDuplicate, TakesLock
<1>2. /\ <<"duplicate">> \in Results \ {Pending}
      /\ <<"duplicate">> \notin {<<"closed">>, <<"failed">>}
  BY DEF Results, Pending
<1>3. <<"duplicate">> = Atomic!Found(Seen, i) /\ Seen = Atomic!Effect(Seen, i)
  BY <1>1, EffectIs, SeesVisible DEF IsConfirm
<1>4. LockFree' /\ Edited(i, ops[i].stage, "finished", <<"duplicate">>)
  BY <1>1, <1>2, FreeLock
<1>5. /\ InDoubt' = InDoubt /\ Seen' = Seen
      /\ rows' = IF InDoubt THEN rows ELSE Seen'
  BY <1>1, <1>4 DEF InDoubt, Seen
<1>6. ops[i].stage \in {"held", "gone"} /\ ~IsClose(i)
  BY <1>1 DEF Inv, Shaped, OpShape, IsClose, IsConfirm
<1>7. ~Atomic!NeedsTransaction(i)
  BY <1>3 DEF Atomic!NeedsTransaction, Seen
<1> QED
  BY <1>1, <1>2, <1>3, <1>4, <1>5, <1>6, <1>7, MapEffect

(* A lone statement takes effect at once, in doubt or durably.               *)
LEMMA UpsertMaps ==
    ASSUME Inv, NEW i \in DOMAIN ops, Upsert(i)
    PROVE  AtomicStep
<1>1. /\ ops[i].worker = "waiting" /\ LockFree /\ ops[i].kind[1] = "upsert"
      /\ Finish(i, <<"ok">>)
      /\ \/ tx = NoTx /\ rows' = [rows EXCEPT !.row = i] /\ tx' = tx
         \/ tx # NoTx /\ tx' = [tx EXCEPT !.row = i] /\ rows' = rows
  BY DEF Upsert, TakesLock
<1>2. /\ <<"ok">> \in Results \ {Pending}
      /\ <<"ok">> \notin {<<"closed">>, <<"failed">>}
  BY DEF Results, Pending
<1>3. /\ <<"ok">> = Atomic!Found(Seen, i)
      /\ Atomic!Effect(Seen, i) = [Seen EXCEPT !.row = i]
  BY <1>1, EffectIs
<1>4. LockFree' /\ Edited(i, ops[i].stage, "finished", <<"ok">>)
  BY <1>1, <1>2, FreeLock
<1>5. /\ InDoubt' = InDoubt /\ Seen' = [Seen EXCEPT !.row = i]
      /\ rows' = IF InDoubt THEN rows ELSE Seen'
  <2>1. tx # NoTx => tx' # NoTx
    <3>1. ASSUME tx # NoTx
          PROVE  tx' \in Rows
      <4>1. tx \in Rows /\ i \in 0 .. MaxCalls
        BY <3>1, OpFields, StoreAssumption DEF Inv, TypeOK, Shaped
      <4> QED
        BY <1>1, <3>1, <4>1 DEF Rows
    <3> QED
      BY <3>1, RowsAssumption
  <2> QED
    BY <1>1, <1>4, <2>1 DEF InDoubt, Seen
<1>6. ops[i].stage \in {"held", "gone"} /\ ~IsClose(i)
  BY <1>1 DEF Inv, Shaped, OpShape, IsClose
<1>7. ~Atomic!NeedsTransaction(i)
  BY <1>1 DEF Atomic!NeedsTransaction
<1> QED
  BY <1>1, <1>2, <1>3, <1>4, <1>5, <1>6, <1>7, MapEffect

(* Beginning is a stutter; beginning in a transaction is refused.            *)
LEMMA BeginMaps ==
    ASSUME Inv, NEW i \in DOMAIN ops, Begin(i)
    PROVE  AtomicStep
<1>1. ops[i].worker = "waiting" /\ LockFree /\ rows' = rows /\ TypeOK
  BY DEF Begin, TakesLock, Inv
<1>2. CASE tx # NoTx
  <2>1. Finish(i, <<"failed">>) /\ tx' = tx
    BY <1>2 DEF Begin
  <2>2. LockFree'
    BY <1>1, <2>1, FreeLock DEF Results
  <2>3. InDoubt' = InDoubt /\ Seen' = Seen
    BY <1>1, <2>1, <2>2 DEF InDoubt, Seen
  <2> QED
    BY <1>1, <2>1, <2>3, FailureMaps
<1>3. CASE tx = NoTx
  <2>1. Edited(i, ops[i].stage, "working", ops[i].result)
    BY <1>1, <1>3, WorkerEdit DEF Begin, Workers
  <2>2. /\ Status(i) = "asked" /\ ~Succeeded(i) /\ ops[i].result = Pending
        /\ ops[i].stage \in {"held", "gone"}
    BY <1>1, StatusOf DEF Inv, Shaped, OpShape
  <2>3. Status(i)' = "asked" /\ ~Succeeded(i)'
    BY <2>1, <2>2 DEF Edited, Status, Succeeded
  <2>4. ~LockFree'
    BY <2>1 DEF Edited, LockFree
  <2>5. InDoubt' = InDoubt /\ Seen' = Seen
    BY <1>1, <1>3, <2>4 DEF InDoubt, Seen
  <2> QED
    BY <1>1, <2>1, <2>2, <2>3, <2>5, MapNothing
<1> QED
  BY <1>2, <1>3

(* Steps that change no call and no committed row are stutters.            *)
LEMMA QuietMaps ==
    ASSUME ops' = ops, rows' = rows,
           tx' = tx \/ ~LockFree
    PROVE  AtomicStep
<1>1. LockFree' = LockFree /\ Asked' = Asked /\ Statuses' = Statuses
  BY DEF LockFree, Asked, Statuses, Status, Succeeded
<1>2. Outcomes' = Outcomes
  BY DEF Outcomes, Succeeded
<1>3. InDoubt' = InDoubt /\ Seen' = Seen
  BY <1>1 DEF InDoubt, Seen
<1> QED
  BY <1>1, <1>2, <1>3 DEF AtomicStep, Mapped

(* A call is asked.                                                          *)
LEMMA CallMaps ==
    ASSUME Inv, NEW kind \in Kinds, Call(kind)
    PROVE  AtomicStep
<1> DEFINE o == [kind |-> kind, stage |-> "queued", worker |-> "none",
                 result |-> Pending]
<1>1. ops' = Append(ops, o) /\ rows' = rows /\ tx' = tx
  BY DEF Call, file
<1>2. /\ o \in Operations /\ o.kind = kind /\ o.stage = "queued"
      /\ o.worker = "none" /\ o.result = Pending
  BY DEF Operations, Stages, Workers, Results
<1> HIDE DEF o
<1>3. /\ ops \in Seq(Operations) /\ Len(ops) \in Nat
      /\ DOMAIN ops = 1 .. Len(ops)
  BY DEF Inv, TypeOK
<1>4. /\ ops' \in Seq(Operations) /\ Len(ops') = Len(ops) + 1
      /\ \A i \in 1 .. Len(ops) : ops'[i] = ops[i]
      /\ ops'[Len(ops) + 1] = o
  BY <1>1, <1>2, <1>3, AppendProperties
<1>5. DOMAIN ops' = 1 .. Len(ops) + 1
  BY <1>4
<1>6. PICK n : n = Len(ops) + 1
  OBVIOUS
<1>7. /\ DOMAIN ops' = DOMAIN ops \cup {n} /\ ops'[n] = o
      /\ n \notin DOMAIN ops
      /\ \A i \in DOMAIN ops : ops'[i] = ops[i]
  BY <1>3, <1>4, <1>5, <1>6
<1>8. \A i \in DOMAIN ops : /\ Status(i)' = Status(i)
                            /\ Succeeded(i)' = Succeeded(i)
  BY <1>7 DEF Status, Succeeded
<1>9. (Status(n) = "asked")' /\ ~Succeeded(n)'
  BY <1>2, <1>7 DEF Status, Succeeded
<1>10. /\ Asked \in Seq(Kinds) /\ Len(Asked) = Len(ops)
       /\ Asked' = Append(Asked, kind)
  <2>1. Asked = [j \in 1 .. Len(ops) |-> ops[j].kind]
    BY <1>3 DEF Asked
  <2>2. \A j \in 1 .. Len(ops) : ops[j].kind \in Kinds
    BY <1>3, OpFields DEF Inv
  <2>3. Asked \in Seq(Kinds) /\ Len(Asked) = Len(ops)
    BY <1>3, <2>1, <2>2
  <2>4. Asked' = [j \in 1 .. Len(ops) + 1 |->
                    IF j \in 1 .. Len(ops) THEN Asked[j] ELSE kind]
    BY <1>2, <1>3, <1>5, <1>6, <1>7, <2>1 DEF Asked
  <2> QED
    BY <1>3, <2>1, <2>3, <2>4
<1>11. Statuses' = Append(Statuses, "asked")
  <2>1. Statuses = [j \in 1 .. Len(ops) |-> Status(j)]
    BY <1>3 DEF Statuses
  <2>2. Statuses' = [j \in 1 .. Len(ops) + 1 |->
                       IF j \in 1 .. Len(ops) THEN Statuses[j] ELSE "asked"]
    BY <1>3, <1>5, <1>6, <1>7, <1>8, <1>9, <2>1 DEF Statuses
  <2>3. Len(Statuses) = Len(ops)
    BY <1>3, <2>1
  <2> QED
    BY <1>3, <2>1, <2>2, <2>3
<1>12. Outcomes' = Append(Outcomes, Pending)
  <2>1. Outcomes = [j \in 1 .. Len(ops) |->
                      IF Succeeded(j) THEN ops[j].result ELSE Pending]
    BY <1>3 DEF Outcomes
  <2>2. Outcomes' = [j \in 1 .. Len(ops) + 1 |->
                       IF j \in 1 .. Len(ops) THEN Outcomes[j] ELSE Pending]
    BY <1>3, <1>5, <1>6, <1>7, <1>8, <1>9, <2>1 DEF Outcomes
  <2>3. Len(Outcomes) = Len(ops)
    BY <1>3, <2>1
  <2> QED
    BY <1>3, <2>1, <2>2, <2>3
<1>13. InDoubt' = InDoubt /\ Seen' = Seen
  <2>1. LockFree' = LockFree
    BY <1>2, <1>7 DEF LockFree
  <2> QED
    BY <1>1, <2>1 DEF InDoubt, Seen
<1>14. Asked'[n] = kind /\ n \in DOMAIN Asked'
  BY <1>2, <1>7 DEF Asked
<1>15. \E i \in DOMAIN Asked' :
         /\ Asked' = Append(Asked, Asked'[i])
         /\ Statuses' = Append(Statuses, "asked")
         /\ Outcomes' = Append(Outcomes, <<"pending">>)
         /\ Seen' = Seen /\ rows' = rows /\ InDoubt' = InDoubt
  BY <1>1, <1>10, <1>11, <1>12, <1>13, <1>14 DEF Pending
<1> QED
  BY <1>15, Zenon DEF AtomicStep, Atomic!Next, Atomic!Ask, Asked, Statuses,
     Outcomes, Seen, Pending, Atomic!Pending

(* The death of the process voids what was not done.                         *)
LEMMA CrashMaps ==
    ASSUME Inv, Crash
    PROVE  AtomicStep
<1> DEFINE Dies(i) == \/ ops[i].stage \in {"queued", "held"}
                      \/ ops[i].worker \in {"waiting", "working"}
           Left(i) == IF Dies(i)
                      THEN [ops[i] EXCEPT !.stage = "dead",
                              !.worker = IF @ = "finished" THEN @ ELSE "none"]
                      ELSE ops[i]
<1>1. /\ tx' = NoTx /\ rows' = rows
      /\ ops' = [i \in DOMAIN ops |-> Left(i)]
  BY DEF Crash, file
<1>2. ASSUME NEW i \in DOMAIN ops
      PROVE  /\ Left(i).kind = ops[i].kind /\ Left(i).result = ops[i].result
             /\ Left(i).stage = IF Dies(i) THEN "dead" ELSE ops[i].stage
             /\ Left(i).worker =
                  IF Dies(i) /\ ops[i].worker # "finished"
                  THEN "none" ELSE ops[i].worker
  BY OpFields DEF Inv, Operations
<1> HIDE DEF Left
<1>3. DOMAIN ops' = DOMAIN ops
  BY <1>1
<1>4. \A i \in DOMAIN ops :
        /\ ops'[i].kind = ops[i].kind /\ ops'[i].result = ops[i].result
        /\ ops'[i].stage = IF Dies(i) THEN "dead" ELSE ops[i].stage
        /\ ops'[i].worker = IF Dies(i) /\ ops[i].worker # "finished"
                            THEN "none" ELSE ops[i].worker
  BY <1>1, <1>2
<1>5. \A i \in DOMAIN ops : Succeeded(i)' = Succeeded(i)
  BY <1>4 DEF Succeeded
<1>6. ASSUME NEW i \in DOMAIN ops
      PROVE  Status(i)' = IF Status(i) = "asked" THEN "void" ELSE Status(i)
  <2>1. OpShape(ops[i]) /\ ops[i].worker \in Workers
    BY OpFields DEF Inv, Shaped
  <2> QED
    BY <1>4, <1>5, <2>1 DEF Status, Succeeded, OpShape, Workers
<1>7. Asked' = Asked /\ Outcomes' = Outcomes
  BY <1>3, <1>4, <1>5 DEF Asked, Outcomes
<1>8. Statuses' = [i \in DOMAIN Statuses |->
                     IF Statuses[i] = "asked" THEN "void" ELSE Statuses[i]]
  BY <1>3, <1>6 DEF Statuses
<1>9. InDoubt' = FALSE /\ Seen' = rows
  BY <1>1 DEF InDoubt, Seen
<1>10. Atomic!Crash
  BY <1>1, <1>7, <1>8, <1>9
     DEF Atomic!Crash, Asked, Statuses, Outcomes, Seen
<1> QED
  BY <1>10 DEF AtomicStep, Atomic!Next

(* Every step of the store is a step of AtomicStore or a stutter.            *)
LEMMA NextMaps == Inv /\ [Next]_vars => AtomicStep
<1> SUFFICES ASSUME Inv, [Next]_vars
             PROVE  AtomicStep
  OBVIOUS
<1>1. CASE Open \/ FailOpen
  BY <1>1, QuietMaps DEF Open, Connect, CreateTables, InsertVersion,
     CommitBootstrap, Configure, FailOpen, file
<1>2. ASSUME NEW kind \in Kinds, Call(kind)
      PROVE  AtomicStep
  BY <1>2, CallMaps
<1>3. ASSUME NEW i \in DOMAIN ops,
             \/ Enter(i) \/ Answer(i) \/ Cancel(i)
             \/ WorkerStep(i) \/ Fail(i) \/ FailCommit(i)
      PROVE  AtomicStep
  <2>1. CASE InsertEvent(i) \/ WriteRow(i)
    BY <2>1, QuietMaps DEF InsertEvent, WriteRow, LockFree
  <2> QED
    BY <1>3, <2>1, EnterMaps, AnswerMaps, CancelMaps, RefuseClosedMaps,
       CloseConnectionMaps, ReadMaps, FindDuplicateMaps, UpsertMaps, BeginMaps,
       CommitMaps, FailMaps, FailCommitMaps DEF WorkerStep
<1>4. CASE Crash
  BY <1>4, CrashMaps
<1>5. CASE UNCHANGED vars
  BY <1>5, QuietMaps DEF vars, file
<1> QED
  BY <1>1, <1>2, <1>3, <1>4, <1>5 DEF Next

(* The store starts as AtomicStore does.                                     *)
LEMMA InitMaps == Init => Atomic!Init
<1> SUFFICES ASSUME Init
             PROVE  Atomic!Init
  OBVIOUS
<1>1. ops = <<>> /\ rows = [row |-> 0, events |-> {}] /\ tx = NoTx
  BY DEF Init
<1>2. ~InDoubt
  BY <1>1 DEF InDoubt
<1>3. DOMAIN ops = {}
  BY <1>1
<1> QED
  BY <1>1, <1>2, <1>3 DEF Atomic!Init, Atomic!NoRow

(* Gate, threads, commits, cancellations and crashes together keep the     *)
(* promise that every operation of async_adapter.py takes effect at one    *)
(* moment or never.                                                        *)
THEOREM StoreIsAtomic == Spec => KeepsAtomicPromise
<1>1. Inv /\ [Next]_vars => [Atomic!Next]_Atomic!atomicVars
  BY NextMaps DEF AtomicStep, Mapped, Asked, Statuses, Outcomes, Seen,
     Atomic!atomicVars
<1> QED
  BY InvAlways, InitMaps, <1>1, PTL DEF Spec, KeepsAtomicPromise, Atomic!Spec
=============================================================================
