---------------------------- MODULE AtomicStore ----------------------------
(***************************************************************************)
(* What the store promises its callers, without gates, threads or          *)
(* connections: an operation takes effect whole or not at all, at one      *)
(* moment after its call and before its answer, and what was answered      *)
(* outlives the process.  A COMMIT that fails with its transaction left    *)
(* open puts the data in doubt: until the connection closes, operations    *)
(* see rows that a crash would take back.                                  *)
(***************************************************************************)
EXTENDS Integers, Sequences

VARIABLES
    calls,    \* the operation each call asked for, in the order of calls
    status,   \* how far each call got
    results,  \* what each call that took effect found
    visible,  \* rows that operations read and change
    durable,  \* rows that outlive the process
    doubt     \* a transaction that could not be committed is open

atomicVars == <<calls, status, results, visible, durable, doubt>>

Pending == <<"pending">>
NoRow == 0  \* runtime_states has no row for the rule

(* The event keys recorded, and the call that wrote the runtime row.       *)
Effect(data, i) ==
    CASE calls[i][1] = "read"    -> data
      [] calls[i][1] = "confirm" ->
           IF calls[i][2] \in data.events THEN data
           ELSE [row |-> i, events |-> data.events \cup {calls[i][2]}]
      [] OTHER -> [data EXCEPT !.row = i]

Found(data, i) ==
    CASE calls[i][1] = "read"    -> <<"row", data.row>>
      [] calls[i][1] = "confirm" ->
           IF calls[i][2] \in data.events THEN <<"duplicate">> ELSE <<"created">>
      [] OTHER -> <<"ok">>

Init ==
    /\ calls = <<>> /\ status = <<>> /\ results = <<>>
    /\ visible = [row |-> NoRow, events |-> {}]
    /\ durable = visible
    /\ doubt = FALSE

Ask(operation) ==
    /\ calls' = Append(calls, operation)
    /\ status' = Append(status, "asked")
    /\ results' = Append(results, Pending)
    /\ UNCHANGED <<visible, durable, doubt>>

(* A transaction needs the last one to be over; a lone statement and a     *)
(* read do not.                                                            *)
NeedsTransaction(i) ==
    calls[i][1] \in {"save", "confirm"} /\ Effect(visible, i) # visible

TakeEffect(i) ==
    /\ status[i] = "asked" /\ calls[i][1] # "close"
    /\ ~(doubt /\ NeedsTransaction(i))
    /\ status' = [status EXCEPT ![i] = "done"]
    /\ results' = [results EXCEPT ![i] = Found(visible, i)]
    /\ visible' = Effect(visible, i)
    /\ durable' = IF doubt THEN durable ELSE visible'
    /\ UNCHANGED <<calls, doubt>>

(* Closing takes back what is in doubt.                                    *)
Close(i) ==
    /\ status[i] = "asked" /\ calls[i][1] = "close"
    /\ status' = [status EXCEPT ![i] = "done"]
    /\ results' = [results EXCEPT ![i] = <<"ok">>]
    /\ visible' = durable /\ doubt' = FALSE
    /\ UNCHANGED <<calls, durable>>

Answer(i) ==
    /\ status[i] = "done"
    /\ status' = [status EXCEPT ![i] = "answered"]
    /\ UNCHANGED <<calls, results, visible, durable, doubt>>

(* Refused, failed or withdrawn: the call never has an effect.             *)
Refuse(i) ==
    /\ status[i] = "asked"
    /\ status' = [status EXCEPT ![i] = "void"]
    /\ UNCHANGED <<calls, results, visible, durable, doubt>>

BecomeDoubtful(i) ==
    /\ status[i] = "asked" /\ ~doubt /\ NeedsTransaction(i)
    /\ status' = [status EXCEPT ![i] = "void"]
    /\ visible' = Effect(visible, i) /\ doubt' = TRUE
    /\ UNCHANGED <<calls, results, durable>>

(* The process dies: what was done stays done, the rest never happens.     *)
Crash ==
    /\ status' = [i \in DOMAIN status |->
                    IF status[i] = "asked" THEN "void" ELSE status[i]]
    /\ visible' = durable /\ doubt' = FALSE
    /\ UNCHANGED <<calls, results, durable>>

Next ==
    \/ \E i \in DOMAIN calls' : Ask(calls'[i])
    \/ \E i \in DOMAIN status :
         TakeEffect(i) \/ Close(i) \/ Answer(i) \/ Refuse(i) \/ BecomeDoubtful(i)
    \/ Crash

Spec == Init /\ [][Next]_atomicVars
=============================================================================
