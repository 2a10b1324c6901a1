--------------------------- MODULE ManagerProofs ---------------------------
(***************************************************************************)
(* Proofs about Manager, for any rules, calls, requests and disturbances.  *)
(* The invariant has three parts: what holds whatever goes wrong (Frame),  *)
(* where the engines are as long as none was stranded (Contained), and     *)
(* what holds as long as no storage call failed and no call was cancelled  *)
(* (Steady).                                                               *)
(***************************************************************************)
EXTENDS Manager, SequenceTheorems, TLAPS

-----------------------------------------------------------------------------
(* The invariant: what holds whatever goes wrong                           *)

(* Disturbances are only ever used up.                                     *)
Bounded == \A d \in Disturbances : budget[d] <= Budget[d]

(* Start holds the lock during the set-up only, and with an open store;    *)
(* Stop only drains.                                                       *)
HolderInv ==
    /\ holder = Start <=> setup = "starting"
    /\ holder = Start =>
         opened /\ step \in {"listing", "building", "latest", "starting"}
    /\ holder = Stop => step = "draining"

(* Who waits for the lock or holds it has made its request.                *)
Asked == {c \in Calls : body[c] # Unmade}
AskedInv ==
    /\ queue \in Seq(Asked \cup {Stop})
    /\ holder \in Calls => holder \in Asked

(* Nothing is listened to between the drain and the end of the rebuild.    *)
HeldInv ==
    /\ step \in {"draining", "working", "listing", "building", "latest"}
         => ~listener
    /\ step \in {"working", "listing", "building"} => runtimes = {}
    /\ step \in {"listing", "building", "latest", "starting"} => ~paused
    /\ ~opened => step \notin {"building", "latest", "starting"}

(* What set-up has put up and tear-down has taken down.                    *)
EntryInv ==
    /\ setup \in {"starting", "registering", "gone"} => ~services
    /\ setup \in {"starting", "registering", "forwarding"} => ~platforms
    /\ setup \in {"unregistering", "gone"} => ~opened
    /\ setup = "rollingBack" => budget["refuse"] < Budget["refuse"]
    /\ setup \in {"unregistering", "gone"} /\ platforms
         => budget["refuse"] < Budget["refuse"] - 1

(* Enabled rules are there, and while the set-up runs all of them are; no  *)
(* commit is outstanding before a call has left one behind.                *)
Stored == {r \in Rules : row[r] # "absent"}
RowInv ==
    /\ enabled \subseteq Stored
    /\ setup = "starting" => late = {} /\ Stored = Rules
    /\ Punctual => late = {}

Observed == {e.id : e \in engines}

(* The engines a rebuild recovered are there, and with those it has still  *)
(* to recover they serve the enabled rules.                                *)
Rebuilt == {id.rule : id \in building}
RebuildInv ==
    /\ step \in {"building", "latest", "starting"} =>
         building \subseteq Observed
    /\ step = "building" /\ Punctual => Rebuilt \cup todo = enabled
    /\ step \in {"latest", "starting"} =>
         runtimes = building /\ (Punctual => Rebuilt = enabled)
    /\ step = "starting" => listener

Frame ==
    /\ TypeOK /\ Bounded /\ HolderInv /\ AskedInv
    /\ HeldInv /\ EntryInv /\ RowInv /\ RebuildInv

-----------------------------------------------------------------------------
(* The invariant: where engines are while none was stranded                *)

Ruled == {e.id.rule : e \in engines}

(* Where no engine may be: inside a pause, until the rebuild, after close. *)
Silence ==
    /\ step \in {"working", "listing"} => engines = {}
    /\ ~opened => engines = {} /\ ~listener /\ runtimes = {}

(* Which engines there are in the other steps.                             *)
Covering ==
    /\ step \in {"free", "draining"} => Observed \subseteq runtimes
    /\ step = "building" =>
         /\ Observed = building
         /\ Ruled \cap todo = {}
         /\ Punctual => Ruled \cup todo = enabled
    /\ step \in {"latest", "starting"} \/ (step = "free" /\ listener) =>
         Observed = runtimes /\ ~paused /\ (Punctual => Ruled = enabled)

Contained == OneEnginePerRule /\ Silence /\ Covering

-----------------------------------------------------------------------------
(* The invariant: what holds while storage works and nobody is cancelled   *)

Watched == step = "free" /\ opened => listener

(* No engine's rule is erased from under it.                               *)
Kept == Ruled \subseteq Stored

(* What the entities may report.                                           *)
Refused ==
    \E c \in Calls : body[c] = <<"duplicate">> \/ (~opened /\ body[c] # Unmade)
Reported == failed \/ entity = "error" => Refused

Steady == Watched /\ Kept /\ Reported

Inv == Frame /\ (Unstranded => Contained) /\ (Calm => Steady)

-----------------------------------------------------------------------------
(* Spending a disturbance leaves a budget, and less of it.                 *)
LEMMA SpendTypes ==
  ASSUME TypeOK, NEW d \in Disturbances, Spend(d)
  PROVE  /\ budget' \in [Disturbances -> Nat]
         /\ budget'[d] < budget[d]
         /\ \A o \in Disturbances : budget'[o] <= budget[o]
BY DEF TypeOK, Spend

(* What has not been spent after a step was not spent by it.               *)
LEMMA Unspent ==
  ASSUME TypeOK, Bounded, NEW ds, NEW d \in ds \cap Disturbances,
         Undisturbed(ds)', Spend(d)
  PROVE  FALSE
<1>1. budget'[d] = Budget[d]
  BY DEF Undisturbed
<1>2. budget'[d] < budget[d] /\ budget[d] <= Budget[d]
  BY SpendTypes DEF Bounded
<1>3. budget[d] \in Nat /\ Budget[d] \in Nat
  BY ManagerAssumption DEF TypeOK
<1> QED
  BY <1>1, <1>2, <1>3

(* A holder that is hit strands nothing as long as nothing was stranded.   *)
LEMMA HitSpares ==
  ASSUME TypeOK, Bounded, NEW d, Hit(d), Unstranded'
  PROVE  ~Strands /\ Spend(d)
<1>1. ~Spend("strand")
  BY Unspent, "strand" \in {"strand"} \cap Disturbances
     DEF Unstranded, Disturbances
<1> QED
  BY <1>1 DEF Hit

(* The task that leaves the head of the queue, and what remains of it.     *)
LEMMA HeadOfQueue ==
  ASSUME AskedInv, queue # <<>>
  PROVE  /\ Head(queue) \in Asked \cup {Stop}
         /\ Tail(queue) \in Seq(Asked \cup {Stop})
BY HeadTailProperties DEF AskedInv

(* A task that gives up waiting leaves the others in the queue.            *)
LEMMA LeaveQueue ==
  ASSUME AskedInv, NEW i \in DOMAIN queue
  PROVE  SubSeq(queue, 1, i - 1) \o SubSeq(queue, i + 1, Len(queue))
           \in Seq(Asked \cup {Stop})
<1> DEFINE S == Asked \cup {Stop}
<1>1. queue \in Seq(S) /\ i \in 1 .. Len(queue) /\ Len(queue) \in Nat
  BY DEF AskedInv
<1>2. \A j \in 1 .. Len(queue) : queue[j] \in S
  BY <1>1
<1> HIDE DEF S
<1>3. SubSeq(queue, 1, i - 1) \in Seq(S)
  <2>1. \A j \in 1 .. i - 1 : queue[j] \in S
    BY <1>1, <1>2
  <2> QED
    BY <1>1, <2>1, SubSeqProperties
<1>4. SubSeq(queue, i + 1, Len(queue)) \in Seq(S)
  <2>1. \A j \in i + 1 .. Len(queue) : queue[j] \in S
    BY <1>1, <1>2
  <2> QED
    BY <1>1, <2>1, SubSeqProperties
<1>5. SubSeq(queue, 1, i - 1) \o SubSeq(queue, i + 1, Len(queue)) \in Seq(S)
  BY <1>3, <1>4, ConcatProperties
<1> QED
  BY <1>5 DEF S

(* Tasks that asked are tasks that may wait.                               *)
LEMMA AskedWait ==
  ASSUME NEW q \in Seq(Asked \cup {Stop})
  PROVE  q \in Seq(Calls \cup {Stop})
<1>1. Asked \cup {Stop} \subseteq Calls \cup {Stop}
  BY DEF Asked
<1> QED
  BY <1>1

(* To ask for something is not to ask for nothing.                         *)
LEMMA RequestsMade ==
  ASSUME NEW b \in Requests
  PROVE  b # Unmade
<1>1. b \in Bodies
  BY ManagerAssumption
<1>2. CASE b \in {"enable", "disable"} \X Rules
  <2>1. b[1] \in {"enable", "disable"}
    BY <1>2
  <2> QED
    BY <2>1 DEF Unmade
<1>3. CASE b \in {<<"work">>, <<"duplicate">>, <<"reset">>}
  BY <1>3 DEF Unmade
<1> QED
  BY <1>1, <1>2, <1>3 DEF Bodies

(* What a body or an abandoned worker commits are rules and rows, and of   *)
(* the rules only a reset erases any.                                      *)
LEMMA CommitTypes ==
  ASSUME TypeOK, NEW b \in Effects, Commit(b)
  PROVE  /\ enabled' \subseteq Rules
         /\ row' \in [Rules -> Rows]
         /\ enabled \subseteq Stored => enabled' \subseteq Stored'
         /\ b # <<"reset">> => Stored \subseteq Stored'
<1>1. enabled \subseteq Rules /\ row \in [Rules -> Rows]
  BY DEF TypeOK
<1>2. CASE b \in {"save"} \X Rules \X {"stable", "pending"}
  <2>1. b[1] = "save" /\ b[2] \in Rules /\ b[3] \in {"stable", "pending"}
    BY <1>2
  <2>2. enabled' = enabled
    BY <2>1 DEF Commit
  <2>3. \A r \in Rules : row'[r] \in {row[r], b[3]}
                        /\ (row'[r] = "absent" <=> row[r] = "absent")
    BY <2>1 DEF Commit, Upserts
  <2>4. row' \in [Rules -> Rows]
    BY <1>1, <2>1, <2>3 DEF Commit, Rows
  <2> QED
    BY <1>1, <2>1, <2>2, <2>3, <2>4 DEF Stored
<1>3. CASE b \in {"enable", "disable"} \X Rules
  <2>1. b[1] \in {"enable", "disable"} /\ b[2] \in Rules
    BY <1>3
  <2>2. enabled' \in {enabled \cup {b[2]}, enabled \ {b[2]}}
    BY <2>1 DEF Commit
  <2>3. \A r \in Rules :
          row'[r] = IF b[2] = r /\ row[r] = "absent" THEN "none" ELSE row[r]
    BY <2>1 DEF Commit, Upserts
  <2>4. row' \in [Rules -> Rows]
    BY <1>1, <2>3 DEF Commit, Rows
  <2>5. Stored' = Stored \cup {b[2]}
    BY <2>1, <2>3 DEF Stored
  <2> QED
    BY <1>1, <2>1, <2>2, <2>4, <2>5
<1>4. CASE b = <<"reset">>
  <2>1. b[1] = "reset"
    BY <1>4
  <2>2. enabled' = {}
    BY <2>1 DEF Commit
  <2>3. row' \in [Rules -> Rows]
    BY <2>1 DEF Commit, Rows
  <2> QED
    BY <1>4, <2>2, <2>3
<1>5. CASE b \in {<<"work">>, <<"duplicate">>}
  <2>1. b[1] \in {"work", "duplicate"}
    BY <1>5
  <2>2. enabled' = enabled /\ row' = [r \in Rules |-> row[r]]
    BY <2>1 DEF Commit, Upserts
  <2> QED
    BY <1>1, <2>2 DEF Stored
<1> QED
  BY <1>2, <1>3, <1>4, <1>5 DEF Effects, Bodies

(* So is what a cancelled caller leaves to its worker thread.              *)
LEMMA LeaveTypes ==
  ASSUME TypeOK, NEW b \in Effects, LeaveToWorker(b)
  PROVE  /\ enabled' \subseteq Rules /\ row' \in [Rules -> Rows]
         /\ late' \subseteq Effects
         /\ enabled \subseteq Stored => enabled' \subseteq Stored'
         /\ b # <<"reset">> => Stored \subseteq Stored'
<1>1. CASE Commit(b) /\ UNCHANGED late
  BY <1>1, CommitTypes DEF TypeOK
<1>2. CASE UNCHANGED database
  BY <1>2 DEF TypeOK, database, Stored
<1>3. CASE late' = late \cup {b} /\ UNCHANGED <<enabled, row>>
  BY <1>3 DEF TypeOK, Stored
<1> QED
  BY <1>1, <1>2, <1>3 DEF LeaveToWorker

(* What a call asked for is something a worker may be left with.           *)
LEMMA RequestIsEffect ==
  ASSUME Frame, step = "working"
  PROVE  holder \in Calls /\ Request \in Bodies /\ Request \in Effects
BY ManagerAssumption
   DEF Frame, TypeOK, HolderInv, AskedInv, Asked, Tasks, Request, Unmade,
       Effects

(* So is the save of an engine that the holder synchronises.               *)
LEMMA SaveIsEffect ==
  ASSUME TypeOK, NEW e \in engines, NEW a \in {"stable", "pending"}
  PROVE  /\ <<"save", e.id.rule, a>> \in Effects
         /\ <<"save", e.id.rule, a>> # <<"reset">>
<1>1. e.id.rule \in Rules
  BY DEF TypeOK, Engines, Identities
<1>2. <<"save", e.id.rule, a>> \in {"save"} \X Rules \X {"stable", "pending"}
  BY <1>1
<1>3. <<"save", e.id.rule, a>>[1] = "save" /\ <<"reset">>[1] = "reset"
  OBVIOUS
<1> QED
  BY <1>2, <1>3 DEF Effects

(* A recovered engine is an engine.                                        *)
LEMMA NewEngine ==
  ASSUME NEW i \in Identities, NEW t \in BOOLEAN
  PROVE  [id |-> i, timer |-> t, await |-> "nothing"] \in Engines
BY DEF Engines, Awaits

(* An engine that becomes another leaves a set of engines.                 *)
LEMMA BecomeTypes ==
  ASSUME TypeOK, NEW e \in engines, NEW f \in Engines, Become(e, f)
  PROVE  engines' \subseteq Engines
<1>1. engines \subseteq Engines
  BY DEF TypeOK
<1> QED
  BY <1>1 DEF Become

(* A step of an engine, its own or one that the holder makes it take.      *)
EngineStep ==
    \E e \in engines, a \in Awaits, t \in BOOLEAN :
       Become(e, [e EXCEPT !.await = a, !.timer = t])

(* These actions leave the engines alone or are a step of one.             *)
LEMMA EngineSteps ==
  ASSUME TypeOK,
         \/ \E e \in engines :
              Write(e) \/ FailWrite(e) \/ FailSync(e) \/ Observe(e) \/ Fire(e)
         \/ \E r \in Rules : Synchronize(r)
         \/ CancelStarting
  PROVE  UNCHANGED engines \/ EngineStep
<1>1. \A e \in engines : e \in Engines /\ e.timer \in BOOLEAN
  BY DEF TypeOK, Engines
<1>2. \A e \in engines, a \in Awaits :
        [e EXCEPT !.await = a] = [e EXCEPT !.await = a, !.timer = e.timer]
  BY <1>1 DEF Engines
<1>3. ASSUME NEW e \in engines, NEW a \in Awaits,
             Become(e, [e EXCEPT !.await = a])
      PROVE  EngineStep
  <2>1. engines' = (engines \ {e}) \cup {[e EXCEPT !.await = a]}
    BY <1>3 DEF Become
  <2>2. engines' = (engines \ {e}) \cup
                     {[e EXCEPT !.await = a, !.timer = e.timer]}
    BY <1>2, <2>1
  <2> QED
    BY <1>1, <2>2 DEF EngineStep, Become
<1>4. ASSUME NEW e \in engines, Write(e) PROVE EngineStep
  <2> DEFINE pends == e.await \in {"pend", "syncPend"}
  <2>1. Become(e, [e EXCEPT !.await = "nothing", !.timer = pends])
    BY <1>4 DEF Write
  <2>2. pends \in BOOLEAN /\ "nothing" \in Awaits
    BY DEF Awaits
  <2> HIDE DEF pends
  <2> QED
    BY <2>1, <2>2 DEF EngineStep
<1>5. \A e \in engines : FailWrite(e) => EngineStep
  BY <1>3 DEF FailWrite, Awaits
<1>6. \A e \in engines : FailSync(e) => EngineStep
  BY <1>3 DEF FailSync, Awaits
<1>7. ASSUME NEW e \in engines, Observe(e) PROVE EngineStep
  <2>1. PICK a \in Outcomes(e) : Become(e, [e EXCEPT !.await = a])
    BY <1>7 DEF Observe
  <2>2. a \in Awaits
    BY DEF Outcomes, Awaits, Samples
  <2> QED
    BY <1>3, <2>1, <2>2
<1>8. ASSUME NEW e \in engines, Fire(e) PROVE EngineStep
  <2>1. [e EXCEPT !.timer = FALSE, !.await = "confirm"]
          = [e EXCEPT !.await = "confirm", !.timer = FALSE]
    BY <1>1 DEF Engines
  <2> QED
    BY <1>8, <2>1 DEF Fire, EngineStep, Awaits
<1>9. \A r \in Rules : Synchronize(r) => UNCHANGED engines \/ EngineStep
  BY <1>3 DEF Synchronize, Awaits, Syncs
<1>10. CancelStarting => UNCHANGED engines \/ EngineStep
  BY <1>3 DEF CancelStarting, Awaits
<1> QED
  BY <1>4, <1>5, <1>6, <1>7, <1>8, <1>9, <1>10

(* An engine that goes on under its identity changes neither who is        *)
(* observed nor which rules have an engine, nor how many each rule has.    *)
LEMMA BecomeKeeps ==
  ASSUME NEW e \in engines, NEW f, f.id = e.id, Become(e, f)
  PROVE  /\ Observed' = Observed /\ Ruled' = Ruled
         /\ OneEnginePerRule => OneEnginePerRule'
<1>1. engines' = (engines \ {e}) \cup {f}
  BY DEF Become
<1>2. /\ Observed' = {g.id : g \in engines'}
      /\ Ruled' = {g.id.rule : g \in engines'}
  BY DEF Observed, Ruled
<1>3. Observed' = Observed
  BY <1>1, <1>2 DEF Observed
<1>4. Ruled' = Ruled
  BY <1>1, <1>2 DEF Ruled
<1>5. OneEnginePerRule => OneEnginePerRule'
  BY <1>1 DEF OneEnginePerRule
<1> QED
  BY <1>3, <1>4, <1>5

(* So it is with each step of an engine.                                   *)
LEMMA EnginesKeep ==
  ASSUME TypeOK, UNCHANGED engines \/ EngineStep
  PROVE  /\ engines' \subseteq Engines
         /\ Observed' = Observed /\ Ruled' = Ruled
         /\ OneEnginePerRule => OneEnginePerRule'
<1>1. CASE UNCHANGED engines
  BY <1>1 DEF TypeOK, Observed, Ruled, OneEnginePerRule
<1>2. CASE EngineStep
  <2>1. PICK e \in engines, a \in Awaits, t \in BOOLEAN :
          Become(e, [e EXCEPT !.await = a, !.timer = t])
    BY <1>2 DEF EngineStep
  <2> DEFINE f == [e EXCEPT !.await = a, !.timer = t]
  <2>2. f \in Engines /\ f.id = e.id
    BY DEF TypeOK, Engines
  <2>3. Become(e, f)
    BY <2>1
  <2> HIDE DEF f
  <2> QED
    BY <2>2, <2>3, BecomeTypes, BecomeKeeps
<1> QED
  BY <1>1, <1>2

(* A recovered engine is one more observed engine, of the rule recovered.  *)
LEMMA RecoverAdds ==
  ASSUME NEW r \in Rules, Recover(r)
  PROVE  /\ Observed' = Observed \cup {[build |-> builds, rule |-> r]}
         /\ Ruled' = Ruled \cup {r}
<1> DEFINE id == [build |-> builds, rule |-> r]
           new == [id |-> id, timer |-> row[r] = "pending",
                   await |-> "nothing"]
<1>1. engines' = engines \cup {new}
  BY DEF Recover
<1>2. new.id = id /\ id.rule = r
  OBVIOUS
<1> HIDE DEF new
<1>3. /\ Observed' = {e.id : e \in engines'}
      /\ Ruled' = {e.id.rule : e \in engines'}
  BY DEF Observed, Ruled
<1>4. Observed' = Observed \cup {new.id}
  BY <1>1, <1>3 DEF Observed
<1>5. Ruled' = Ruled \cup {new.id.rule}
  BY <1>1, <1>3 DEF Ruled
<1> QED
  BY <1>2, <1>4, <1>5

-----------------------------------------------------------------------------
(* The steps, action by action                                             *)

(* Every step keeps the types.                                             *)
LEMMA TypesStep ==
  ASSUME Frame, [Next]_vars
  PROVE  TypeOK'
<1> USE ManagerAssumption DEF Frame
<1>1. CASE UNCHANGED vars
  BY <1>1 DEF vars, entry, lock, work, observation, database, TypeOK
<1>2. ASSUME NEW c \in Calls, NEW b \in Requests, Call(c, b) PROVE TypeOK'
  BY <1>2 DEF Call, entry, observation, database, TypeOK
<1>3. CASE Acquire
  <2>1. /\ Head(queue) \in Asked \cup {Stop}
        /\ Tail(queue) \in Seq(Calls \cup {Stop})
    BY <1>3, HeadOfQueue, AskedWait DEF Acquire
  <2> QED
    BY <1>3, <2>1 DEF Acquire, TypeOK, Asked, Tasks, Steps, entry, database
<1>4. ASSUME NEW e \in engines, Suspend(e) PROVE TypeOK'
  BY <1>4 DEF Suspend, entry, lock, work, observation, database, TypeOK
<1>5. CASE BeginWork
  BY <1>5 DEF BeginWork, entry, work, database, TypeOK, Steps
<1>6. CASE RunBody
  <2>1. enabled' \subseteq Rules /\ row' \in [Rules -> Rows]
    BY <1>6, RequestIsEffect, CommitTypes DEF RunBody
  <2> QED
    BY <1>6, <2>1 DEF RunBody, Resume, TypeOK, Steps, entry
<1>7. CASE RefuseBody
  BY <1>7 DEF RefuseBody, Resume, entry, database, TypeOK, Steps
<1>8. CASE List
  BY <1>8 DEF List, entry, observation, database, TypeOK, Steps
<1>9. ASSUME NEW r \in Rules, Recover(r) PROVE TypeOK'
  <2>1. [build |-> builds, rule |-> r] \in Identities
    BY DEF TypeOK, Identities
  <2>2. building' \subseteq Identities
    BY <1>9, <2>1 DEF Recover, TypeOK
  <2>3. (row[r] = "pending") \in BOOLEAN
    OBVIOUS
  <2>4. [id |-> [build |-> builds, rule |-> r], timer |-> row[r] = "pending",
         await |-> "nothing"] \in Engines
    BY <2>1, <2>3, NewEngine
  <2>5. engines' \subseteq Engines
    BY <1>9, <2>4 DEF Recover, TypeOK
  <2> QED
    BY <1>9, <2>2, <2>5 DEF Recover, TypeOK, entry, lock, observation, database
<1>10. CASE Adopt
  BY <1>10 DEF Adopt, entry, work, database, TypeOK, Steps
<1>11. CASE Install
  <2>1. todo' \subseteq Rules
    BY <1>11 DEF Install, TypeOK, Identities
  <2> QED
    BY <1>11, <2>1 DEF Install, entry, database, TypeOK, Steps
<1>12. ASSUME NEW r \in Rules, Synchronize(r) PROVE TypeOK'
  <2>1. engines' \subseteq Engines
    BY <1>12, EngineSteps, EnginesKeep
  <2> QED
    BY <1>12, <2>1 DEF Synchronize, entry, lock, observation, database, TypeOK
<1>13. CASE Release
  BY <1>13 DEF Release, work, observation, database, TypeOK, Setups, Steps
<1>14. ASSUME Abandon, engines' \subseteq Engines,
              enabled' \subseteq Rules, row' \in [Rules -> Rows],
              late' \subseteq Effects, budget' \in [Disturbances -> Nat]
       PROVE  TypeOK'
  <2>1. /\ opened' \in BOOLEAN /\ setup' \in Setups
        /\ entity' \in {"unloaded", "healthy", "error"}
    BY <1>14 DEF Abandon, TypeOK, Setups
  <2>2. /\ holder' = Nobody /\ step' = "free" /\ step' \in Steps
        /\ UNCHANGED <<services, platforms, queue, body, failed, todo, building,
                       paused, listener, runtimes, builds>>
    BY <1>14 DEF Abandon, Steps, work, observation
  <2> QED
    BY <1>14, <2>1, <2>2 DEF TypeOK
<1>15. CASE RefuseRebuild
  BY <1>14, <1>15 DEF RefuseRebuild, database, TypeOK
<1>16. CASE \/ RegisterServices \/ ForwardPlatforms \/ UnloadPlatforms
           \/ RemoveServices
  <2>1. /\ setup' \in Setups /\ services' \in BOOLEAN /\ platforms' \in BOOLEAN
        /\ UNCHANGED <<opened, queue, holder, step, body, failed, todo, building,
                       paused, listener, runtimes, engines, builds, enabled,
                       row, late, entity, budget>>
    BY <1>16 DEF RegisterServices, ForwardPlatforms, UnloadPlatforms,
      RemoveServices, lock, work, observation, database, TypeOK, Setups
  <2> QED
    BY <2>1 DEF TypeOK
<1>17. CASE StopStore
  BY <1>17 DEF StopStore, entry, work, database, TypeOK, Steps
<1>18. ASSUME NEW e \in engines, Write(e) PROVE TypeOK'
  <2>1. engines' \subseteq Engines
    BY <1>18, EngineSteps, EnginesKeep
  <2>2. row' \in [Rules -> Rows]
    BY <1>18 DEF Write, TypeOK, Rows
  <2>3. entity' \in {entity, "healthy"}
    BY <1>18 DEF Write
  <2> QED
    BY <1>18, <2>1, <2>2, <2>3 DEF Write, entry, lock, work, observation, TypeOK
<1>19. \A d \in Disturbances : Spend(d) => budget' \in [Disturbances -> Nat]
  BY SpendTypes
<1>20. \A d \in Disturbances : Hit(d) => budget' \in [Disturbances -> Nat]
  BY <1>19 DEF Hit, Disturbances
<1>21. ASSUME NEW e \in engines, FailWrite(e) PROVE TypeOK'
  <2>1. engines' \subseteq Engines
    BY <1>21, EngineSteps, EnginesKeep
  <2>2. budget' \in [Disturbances -> Nat]
    BY <1>19, <1>21 DEF FailWrite, TypeOK, Disturbances
  <2>3. entity' \in {entity, "error"}
    BY <1>21 DEF FailWrite
  <2> QED
    BY <1>21, <2>1, <2>2, <2>3
      DEF FailWrite, TypeOK, entry, lock, work, observation, database
<1>22. ASSUME NEW e \in engines, FailSync(e) PROVE TypeOK'
  <2>1. engines' \subseteq Engines
    BY <1>22, EngineSteps, EnginesKeep
  <2>2. budget' \in [Disturbances -> Nat]
    BY <1>20, <1>22 DEF FailSync, TypeOK, Disturbances
  <2>3. Abandon /\ UNCHANGED database
    BY <1>22 DEF FailSync
  <2> QED
    BY <1>14, <2>1, <2>2, <2>3 DEF database, TypeOK
<1>23. CASE FailSetup
  <2>1. budget' \in [Disturbances -> Nat]
    BY <1>19, <1>23 DEF FailSetup, Disturbances
  <2>2. platforms' \in BOOLEAN
    BY <1>23 DEF FailSetup
  <2>3. Append(queue, Stop) \in Seq(Calls \cup {Stop})
    BY DEF TypeOK
  <2> QED
    BY <1>23, <2>1, <2>2, <2>3
      DEF FailSetup, QueueStop, TypeOK, Setups, work, observation, database
<1>24. CASE Unload
  BY <1>24 DEF Unload, QueueStop, work, observation, database, TypeOK, Setups
<1>25. CASE FailUnloadPlatforms
  <2>1. budget' \in [Disturbances -> Nat]
    BY <1>19, <1>25 DEF FailUnloadPlatforms, Disturbances
  <2> QED
    BY <1>25, <2>1 DEF FailUnloadPlatforms, lock, work, observation, database,
      TypeOK, Setups
<1>26. ASSUME NEW c \in Calls, CancelWaiting(c) PROVE TypeOK'
  <2>1. queue' \in Seq(Calls \cup {Stop})
    BY <1>26, LeaveQueue, AskedWait DEF CancelWaiting
  <2>2. budget' \in [Disturbances -> Nat]
    BY <1>19, <1>26 DEF CancelWaiting, Disturbances
  <2>3. UNCHANGED <<opened, entry, holder, step, work, observation, engines,
                    builds, database, entity>>
    BY <1>26 DEF CancelWaiting
  <2> QED
    BY <2>1, <2>2, <2>3 DEF TypeOK, entry, work, observation, database
<1>27. CASE FailWork
  <2>1. budget' \in [Disturbances -> Nat]
    BY <1>19, <1>27 DEF FailWork, Disturbances
  <2> QED
    BY <1>27, <2>1 DEF FailWork, Resume, TypeOK, Steps, entry, database
<1>28. CASE FailRebuild \/ CancelDraining \/ CancelRebuild
  <2>1. budget' \in [Disturbances -> Nat]
    BY <1>19, <1>20, <1>28
      DEF FailRebuild, CancelDraining, CancelRebuild, Disturbances
  <2>2. Abandon /\ UNCHANGED <<engines, database>>
    BY <1>28 DEF FailRebuild, CancelDraining, CancelRebuild
  <2> QED
    BY <1>14, <2>1, <2>2 DEF database, TypeOK
<1>29. \A b : LeaveToWorker(b) => budget' \in [Disturbances -> Nat]
  BY <1>19 DEF LeaveToWorker, Disturbances
<1>30. CASE CancelWork
  <2>1. /\ enabled' \subseteq Rules /\ row' \in [Rules -> Rows]
        /\ late' \subseteq Effects
    BY <1>30, RequestIsEffect, LeaveTypes DEF CancelWork
  <2>2. budget' \in [Disturbances -> Nat]
    BY <1>29, <1>30 DEF CancelWork
  <2> QED
    BY <1>30, <2>1, <2>2 DEF CancelWork, TypeOK, Steps, entry, work
<1>31. CASE CancelStarting
  <2>1. engines' \subseteq Engines
    BY <1>31, EngineSteps, EnginesKeep
  <2>2. Abandon
    BY <1>31 DEF CancelStarting
  <2>3. /\ enabled' \subseteq Rules /\ row' \in [Rules -> Rows]
        /\ late' \subseteq Effects /\ budget' \in [Disturbances -> Nat]
    <3>1. CASE Spend("cancel") /\ UNCHANGED database
      BY <1>19, <3>1 DEF database, TypeOK, Disturbances
    <3>2. ASSUME NEW e \in engines, NEW a \in {"stable", "pending"},
                 LeaveToWorker(<<"save", e.id.rule, a>>)
          PROVE  /\ enabled' \subseteq Rules /\ row' \in [Rules -> Rows]
                 /\ late' \subseteq Effects
                 /\ budget' \in [Disturbances -> Nat]
      BY <1>29, <3>2, SaveIsEffect, LeaveTypes
    <3> QED
      BY <1>31, <3>1, <3>2 DEF CancelStarting
  <2> QED
    BY <1>14, <2>1, <2>2, <2>3
<1>32. ASSUME NEW b \in late, LateCommit(b) PROVE TypeOK'
  <2>1. enabled' \subseteq Rules /\ row' \in [Rules -> Rows]
    BY <1>32, CommitTypes DEF LateCommit, TypeOK
  <2> QED
    BY <1>32, <2>1 DEF LateCommit, entry, lock, work, observation, TypeOK
<1>33. ASSUME NEW e \in engines, Observe(e) \/ Fire(e) PROVE TypeOK'
  <2>1. engines' \subseteq Engines
    BY <1>33, EngineSteps, EnginesKeep
  <2> QED
    BY <1>33, <2>1 DEF Observe, Fire, TypeOK, entry, lock, work, observation,
      database
<1> QED
  BY <1>1, <1>2, <1>3, <1>4, <1>5, <1>6, <1>7, <1>8, <1>9, <1>10, <1>11, <1>12,
    <1>13, <1>15, <1>16, <1>17, <1>18, <1>21, <1>22, <1>23, <1>24, <1>25,
    <1>26, <1>27, <1>28, <1>30, <1>31, <1>32, <1>33
    DEF Next, Progress, EngineProgress, Environment

(* A step spends at most one disturbance, and gives none back.             *)
LEMMA BudgetStep ==
  ASSUME TypeOK, [Next]_vars
  PROVE  UNCHANGED budget \/ \E d \in Disturbances : Spend(d)
<1>1. CASE UNCHANGED vars
  BY <1>1 DEF vars
<1>2. CASE Progress
  BY <1>2 DEF Progress, Acquire, Suspend, BeginWork, RunBody, RefuseBody, List,
    Recover, Adopt, Install, Synchronize, Release, RefuseRebuild,
    RegisterServices, ForwardPlatforms, StopStore, UnloadPlatforms,
    RemoveServices
<1>3. CASE EngineProgress
  BY <1>3 DEF EngineProgress, Write, FailWrite, FailSync, Hit, Disturbances
<1>4. CASE Environment
  <2>1. CASE \/ Unload \/ (\E c \in Calls : \E b \in Requests : Call(c, b))
            \/ (\E b \in late : LateCommit(b))
            \/ (\E e \in engines : Observe(e) \/ Fire(e))
    BY <2>1 DEF Unload, QueueStop, Call, LateCommit, Observe, Fire
  <2>2. CASE \/ FailSetup \/ FailUnloadPlatforms
            \/ (\E c \in Calls : CancelWaiting(c)) \/ FailWork \/ FailRebuild
            \/ CancelDraining \/ CancelRebuild
    BY <2>2 DEF FailSetup, FailUnloadPlatforms, CancelWaiting, FailWork,
      FailRebuild, CancelDraining, CancelRebuild, Hit, Disturbances
  <2>3. CASE CancelWork \/ CancelStarting
    BY <2>3 DEF CancelWork, CancelStarting, LeaveToWorker, Disturbances
  <2> QED
    BY <1>4, <2>1, <2>2, <2>3 DEF Environment
<1> QED
  BY <1>1, <1>2, <1>3, <1>4 DEF Next

LEMMA BoundedStep ==
  ASSUME Frame, [Next]_vars
  PROVE  Bounded'
<1>1. \A d \in Disturbances : budget'[d] <= budget[d]
  BY BudgetStep, SpendTypes DEF Frame, TypeOK
<1>2. \A d \in Disturbances :
        budget[d] \in Nat /\ budget'[d] \in Nat /\ Budget[d] \in Nat
  BY TypesStep, ManagerAssumption DEF Frame, TypeOK
<1> QED
  BY <1>1, <1>2 DEF Frame, Bounded

(* What is undisturbed after a step was so before it.                      *)
LEMMA UndisturbedStep ==
  ASSUME Frame, [Next]_vars, NEW ds \in SUBSET Disturbances, Undisturbed(ds)'
  PROVE  Undisturbed(ds)
<1> SUFFICES ASSUME NEW d \in ds PROVE budget[d] = Budget[d]
  BY DEF Undisturbed
<1>1. budget'[d] = Budget[d]
  BY DEF Undisturbed
<1>2. budget'[d] <= budget[d] /\ budget[d] <= Budget[d]
  BY BudgetStep, SpendTypes DEF Frame, TypeOK, Bounded
<1>3. budget[d] \in Nat /\ Budget[d] \in Nat
  BY ManagerAssumption DEF Frame, TypeOK
<1> QED
  BY <1>1, <1>2, <1>3

(* The lock passes only between tasks and steps that fit each other.       *)
LEMMA HolderStep ==
  ASSUME Frame, [Next]_vars
  PROVE  HolderInv'
<1> USE ManagerAssumption DEF Frame
<1>1. ASSUME UNCHANGED <<opened, setup, holder, step>> PROVE HolderInv'
  BY <1>1 DEF HolderInv
<1>2. CASE UNCHANGED vars
  BY <1>1, <1>2 DEF vars, entry, lock
<1>3. CASE \/ (\E c \in Calls, b \in Requests : Call(c, b))
          \/ (\E e \in engines : Suspend(e)) \/ (\E r \in Rules : Recover(r))
          \/ (\E r \in Rules : Synchronize(r))
          \/ (\E e \in engines : Write(e) \/ FailWrite(e))
          \/ (\E c \in Calls : CancelWaiting(c))
          \/ (\E b \in late : LateCommit(b))
          \/ (\E e \in engines : Observe(e) \/ Fire(e))
  BY <1>1, <1>3 DEF Call, Suspend, Recover, Synchronize, Write, FailWrite,
    CancelWaiting, LateCommit, Observe, Fire, entry, lock
<1>4. CASE Acquire
  <2>1. Head(queue) \in Calls \cup {Stop}
    BY <1>4, HeadOfQueue DEF Acquire, Asked
  <2> QED
    BY <1>4, <2>1 DEF Acquire, entry, HolderInv, Tasks
<1>5. CASE BeginWork
  BY <1>5 DEF BeginWork, entry, HolderInv
<1>6. CASE RunBody \/ RefuseBody \/ FailWork
  BY <1>6 DEF RunBody, RefuseBody, FailWork, Resume, entry, HolderInv
<1>7. CASE List \/ Adopt \/ Install
  BY <1>7 DEF List, Adopt, Install, entry, HolderInv
<1>8. CASE Release
  BY <1>8 DEF Release, HolderInv, Tasks
<1>9. ASSUME Abandon PROVE HolderInv'
  BY <1>9 DEF Abandon, HolderInv, Tasks
<1>10. CASE \/ RefuseRebuild \/ FailRebuild \/ CancelDraining
           \/ CancelRebuild \/ CancelStarting
           \/ (\E e \in engines : FailSync(e))
  BY <1>9, <1>10 DEF RefuseRebuild, FailRebuild, CancelDraining, CancelRebuild,
    CancelStarting, FailSync
<1>11. CASE \/ RegisterServices \/ ForwardPlatforms \/ UnloadPlatforms
           \/ RemoveServices \/ FailUnloadPlatforms
  BY <1>11 DEF RegisterServices, ForwardPlatforms, UnloadPlatforms,
    RemoveServices, FailUnloadPlatforms, lock, HolderInv
<1>12. CASE StopStore
  BY <1>12 DEF StopStore, entry, HolderInv, Tasks
<1>13. CASE FailSetup \/ Unload
  BY <1>13 DEF FailSetup, Unload, QueueStop, HolderInv
<1>14. CASE CancelWork
  BY <1>14 DEF CancelWork, entry, HolderInv
<1> QED
  BY <1>2, <1>3, <1>4, <1>5, <1>6, <1>7, <1>8, <1>10, <1>11, <1>12, <1>13,
    <1>14 DEF Next, Progress, EngineProgress, Environment

(* Only tasks that made a request wait for the lock or get it.             *)
LEMMA AskedStep ==
  ASSUME Frame, [Next]_vars
  PROVE  AskedInv'
<1> USE ManagerAssumption DEF Frame
<1>1. ASSUME UNCHANGED <<queue, holder, body>> PROVE AskedInv'
  BY <1>1 DEF AskedInv, Asked
<1>2. CASE UNCHANGED vars
  BY <1>1, <1>2 DEF vars, lock, work
<1>3. CASE \/ (\E e \in engines : Suspend(e)) \/ BeginWork \/ List
          \/ (\E r \in Rules : Recover(r)) \/ Adopt \/ Install
          \/ (\E r \in Rules : Synchronize(r)) \/ RegisterServices
          \/ ForwardPlatforms \/ UnloadPlatforms \/ RemoveServices
          \/ FailUnloadPlatforms \/ (\E e \in engines : Write(e))
          \/ (\E e \in engines : FailWrite(e) \/ Observe(e) \/ Fire(e))
          \/ CancelWork \/ (\E b \in late : LateCommit(b))
  BY <1>1, <1>3 DEF Suspend, BeginWork, List, Recover, Adopt, Install,
    Synchronize, RegisterServices, ForwardPlatforms, UnloadPlatforms,
    RemoveServices, FailUnloadPlatforms, Write, FailWrite, Observe, Fire,
    CancelWork, LateCommit, lock, work
<1>4. CASE RunBody \/ RefuseBody \/ FailWork
  BY <1>1, <1>4 DEF RunBody, RefuseBody, FailWork, Resume
<1>5. ASSUME NEW c \in Calls, NEW b \in Requests, Call(c, b) PROVE AskedInv'
  <2>1. b # Unmade
    BY RequestsMade
  <2>2. Asked' = Asked \cup {c}
    BY <1>5, <2>1 DEF Call, TypeOK, Asked
  <2>3. queue \in Seq(Asked' \cup {Stop})
    BY <2>2 DEF AskedInv
  <2>4. queue' \in Seq(Asked' \cup {Stop})
    BY <1>5, <2>2, <2>3 DEF Call
  <2> QED
    BY <1>5, <2>2, <2>4 DEF Call, AskedInv
<1>6. CASE Acquire
  <2>1. /\ Head(queue) \in Asked \cup {Stop}
        /\ Tail(queue) \in Seq(Asked \cup {Stop})
    BY <1>6, HeadOfQueue DEF Acquire
  <2>2. Asked' = Asked
    BY <1>6 DEF Acquire, Asked
  <2> QED
    BY <1>6, <2>1, <2>2 DEF Acquire, AskedInv
<1>7. ASSUME UNCHANGED <<queue, body>>, holder' = Nobody PROVE AskedInv'
  BY <1>7 DEF AskedInv, Asked, Tasks
<1>8. CASE \/ Release \/ StopStore \/ RefuseRebuild \/ FailRebuild
          \/ CancelDraining \/ CancelRebuild \/ CancelStarting
          \/ (\E e \in engines : FailSync(e))
  BY <1>7, <1>8 DEF Release, StopStore, RefuseRebuild, FailRebuild,
    CancelDraining, CancelRebuild, CancelStarting, FailSync, Abandon, work
<1>9. CASE FailSetup \/ Unload
  <2>1. queue' = Append(queue, Stop) /\ UNCHANGED <<holder, body>>
    BY <1>9 DEF FailSetup, Unload, QueueStop, work
  <2> QED
    BY <2>1 DEF AskedInv, Asked
<1>10. ASSUME NEW c \in Calls, CancelWaiting(c) PROVE AskedInv'
  <2>1. queue' \in Seq(Asked \cup {Stop})
    BY <1>10, LeaveQueue DEF CancelWaiting
  <2>2. Asked' = Asked /\ holder' = holder
    BY <1>10 DEF CancelWaiting, Asked, work
  <2> QED
    BY <2>1, <2>2 DEF AskedInv
<1> QED
  BY <1>2, <1>3, <1>4, <1>5, <1>6, <1>8, <1>9, <1>10
    DEF Next, Progress, EngineProgress, Environment

(* Between drain and rebuild nothing is listened to.                       *)
LEMMA HeldStep ==
  ASSUME Frame, [Next]_vars
  PROVE  HeldInv'
<1> USE ManagerAssumption DEF Frame
<1>1. ASSUME UNCHANGED <<opened, step, paused, listener, runtimes>>
      PROVE  HeldInv'
  BY <1>1 DEF HeldInv
<1>2. CASE UNCHANGED vars
  BY <1>1, <1>2 DEF vars, lock, observation
<1>3. CASE \/ (\E c \in Calls, b \in Requests : Call(c, b))
          \/ (\E e \in engines : Suspend(e)) \/ (\E r \in Rules : Recover(r))
          \/ (\E r \in Rules : Synchronize(r)) \/ RegisterServices
          \/ ForwardPlatforms \/ UnloadPlatforms \/ RemoveServices
          \/ (\E e \in engines : Write(e) \/ FailWrite(e))
          \/ FailSetup \/ Unload \/ FailUnloadPlatforms
          \/ (\E c \in Calls : CancelWaiting(c))
          \/ (\E b \in late : LateCommit(b))
          \/ (\E e \in engines : Observe(e) \/ Fire(e))
  BY <1>1, <1>3 DEF Call, Suspend, Recover, Synchronize, RegisterServices,
    ForwardPlatforms, UnloadPlatforms, RemoveServices, Write, FailWrite,
    FailSetup, QueueStop, Unload, FailUnloadPlatforms, CancelWaiting,
    LateCommit, Observe, Fire, lock, observation
<1>4. CASE Acquire
  BY <1>4 DEF Acquire, HeldInv
<1>5. CASE BeginWork
  BY <1>5 DEF BeginWork, HeldInv
<1>6. CASE RunBody \/ RefuseBody \/ FailWork
  BY <1>6 DEF RunBody, RefuseBody, FailWork, Resume, HeldInv
<1>7. CASE List
  BY <1>7 DEF List, observation, HeldInv
<1>8. CASE Adopt \/ Install
  BY <1>8 DEF Adopt, Install, HeldInv
<1>9. CASE Release
  BY <1>9 DEF Release, observation, HeldInv
<1>10. CASE \/ RefuseRebuild \/ FailRebuild \/ CancelDraining
           \/ CancelRebuild \/ CancelStarting
           \/ (\E e \in engines : FailSync(e))
  <2>1. Abandon
    BY <1>10 DEF RefuseRebuild, FailRebuild, CancelDraining, CancelRebuild,
      CancelStarting, FailSync
  <2> QED
    BY <2>1 DEF Abandon, observation, HeldInv
<1>11. CASE StopStore
  BY <1>11 DEF StopStore, HeldInv
<1>12. CASE CancelWork
  BY <1>12 DEF CancelWork, HeldInv
<1> QED
  BY <1>2, <1>3, <1>4, <1>5, <1>6, <1>7, <1>8, <1>9, <1>10, <1>11, <1>12
    DEF Next, Progress, EngineProgress, Environment

(* Set-up and tear-down put up and take down in order.                     *)
LEMMA EntryStep ==
  ASSUME Frame, [Next]_vars
  PROVE  EntryInv'
<1> USE ManagerAssumption DEF Frame
<1>1. /\ budget["refuse"] \in Nat /\ budget'["refuse"] \in Nat
      /\ Budget["refuse"] \in Nat
      /\ budget'["refuse"] <= budget["refuse"]
  <2>1. /\ budget \in [Disturbances -> Nat] /\ budget' \in [Disturbances -> Nat]
        /\ "refuse" \in Disturbances
    BY TypesStep DEF TypeOK, Disturbances
  <2>2. \A d \in Disturbances : budget'[d] <= budget[d]
    BY <2>1, BudgetStep, SpendTypes
  <2> QED
    BY <2>1, <2>2
<1>2. ASSUME UNCHANGED <<opened, setup, services, platforms>> PROVE EntryInv'
  BY <1>1, <1>2 DEF EntryInv
<1>3. CASE UNCHANGED vars
  BY <1>2, <1>3 DEF vars, entry
<1>4. CASE \/ (\E c \in Calls, b \in Requests : Call(c, b)) \/ Acquire
          \/ (\E e \in engines : Suspend(e)) \/ BeginWork \/ List
          \/ (\E r \in Rules : Recover(r)) \/ Adopt \/ Install
          \/ (\E r \in Rules : Synchronize(r))
          \/ (\E e \in engines : Write(e) \/ FailWrite(e))
          \/ (\E c \in Calls : CancelWaiting(c)) \/ CancelWork
          \/ (\E b \in late : LateCommit(b))
          \/ (\E e \in engines : Observe(e) \/ Fire(e))
  BY <1>2, <1>4 DEF Call, Acquire, Suspend, BeginWork, List, Recover, Adopt,
    Install, Synchronize, Write, FailWrite, CancelWaiting, CancelWork,
    LateCommit, Observe, Fire, entry
<1>5. CASE RunBody \/ RefuseBody \/ FailWork
  BY <1>2, <1>5 DEF RunBody, RefuseBody, FailWork, Resume, entry
<1>6. CASE Release
  BY <1>1, <1>6 DEF Release, HolderInv, EntryInv
<1>7. CASE \/ RefuseRebuild \/ FailRebuild \/ CancelDraining
          \/ CancelRebuild \/ CancelStarting
          \/ (\E e \in engines : FailSync(e))
  <2>1. Abandon
    BY <1>7 DEF RefuseRebuild, FailRebuild, CancelDraining, CancelRebuild,
      CancelStarting, FailSync
  <2>2. CASE holder = Start
    BY <1>1, <2>1, <2>2 DEF Abandon, HolderInv, EntryInv
  <2>3. CASE holder # Start
    <3>1. UNCHANGED <<setup, services, platforms>> /\ (~opened => ~opened')
      BY <2>1, <2>3 DEF Abandon
    <3> QED
      BY <1>1, <3>1 DEF EntryInv
  <2> QED
    BY <2>2, <2>3
<1>8. CASE RegisterServices \/ ForwardPlatforms
  BY <1>1, <1>8 DEF RegisterServices, ForwardPlatforms, EntryInv
<1>9. CASE StopStore
  BY <1>1, <1>9 DEF StopStore, entry, EntryInv
<1>10. CASE UnloadPlatforms \/ RemoveServices
  BY <1>1, <1>10 DEF UnloadPlatforms, RemoveServices, EntryInv
<1>11. Spend("refuse") => budget'["refuse"] < budget["refuse"]
  BY SpendTypes DEF Disturbances
<1>12. CASE FailSetup
  BY <1>1, <1>11, <1>12 DEF FailSetup, QueueStop, Bounded, EntryInv,
    Disturbances
<1>13. CASE Unload
  BY <1>1, <1>13 DEF Unload, QueueStop, EntryInv
<1>14. CASE FailUnloadPlatforms
  BY <1>1, <1>11, <1>14 DEF FailUnloadPlatforms, EntryInv
<1> QED
  BY <1>3, <1>4, <1>5, <1>6, <1>7, <1>8, <1>9, <1>10, <1>12, <1>13, <1>14
    DEF Next, Progress, EngineProgress, Environment

(* Enabled rules stay in the database, and commits come late only after a  *)
(* call was cancelled that way.                                            *)
LEMMA RowStep ==
  ASSUME Frame, [Next]_vars
  PROVE  RowInv'
<1> USE ManagerAssumption DEF Frame
<1>1. Punctual' => Punctual /\ ~Spend("late")
  BY UndisturbedStep, Unspent, {"late"} \in SUBSET Disturbances,
     "late" \in {"late"} \cap Disturbances
     DEF Punctual, Disturbances
<1>2. ASSUME UNCHANGED database, setup' = "starting" => setup = "starting"
      PROVE  RowInv'
  BY <1>1, <1>2 DEF RowInv, Stored, database
<1>3. CASE UNCHANGED vars
  BY <1>2, <1>3 DEF vars, entry
<1>4. CASE Progress /\ ~RunBody
  BY <1>2, <1>4 DEF Progress, Acquire, Suspend, BeginWork, RefuseBody, Resume,
    List, Recover, Adopt, Install, Synchronize, Release, RefuseRebuild,
    Abandon, RegisterServices, ForwardPlatforms, StopStore, UnloadPlatforms,
    RemoveServices, entry
<1>5. step = "working" => setup # "starting"
  BY RequestIsEffect DEF HolderInv
<1>6. CASE RunBody
  <2>1. enabled' \subseteq Stored'
    BY <1>6, RequestIsEffect, CommitTypes DEF RunBody, RowInv
  <2> QED
    BY <1>1, <1>5, <1>6, <2>1 DEF RunBody, Resume, RowInv, entry
<1>7. ASSUME NEW e \in engines, Write(e) PROVE RowInv'
  <2>1. Stored' = Stored
    BY <1>7 DEF Write, Stored, TypeOK
  <2> QED
    BY <1>1, <1>7, <2>1 DEF Write, RowInv, entry
<1>8. CASE \E e \in engines : FailWrite(e) \/ FailSync(e)
  BY <1>2, <1>8 DEF FailWrite, FailSync, Abandon, entry
<1>9. CASE \/ FailSetup \/ Unload \/ FailUnloadPlatforms
          \/ (\E c \in Calls : CancelWaiting(c))
          \/ (\E c \in Calls, b \in Requests : Call(c, b))
          \/ FailWork \/ FailRebuild \/ CancelDraining \/ CancelRebuild
          \/ (\E e \in engines : Observe(e) \/ Fire(e))
  BY <1>2, <1>9 DEF FailSetup, Unload, QueueStop, FailUnloadPlatforms,
    CancelWaiting, Call, FailWork, Resume, FailRebuild, CancelDraining,
    CancelRebuild, Abandon, Observe, Fire, entry
<1>10. ASSUME NEW b \in Effects, LeaveToWorker(b), setup # "starting",
              setup' = setup
       PROVE  RowInv'
  <2>1. enabled' \subseteq Stored'
    BY <1>10, LeaveTypes DEF RowInv
  <2>2. Punctual' => late' = late
    BY <1>1, <1>10 DEF LeaveToWorker, database
  <2> QED
    BY <1>1, <1>10, <2>1, <2>2 DEF RowInv
<1>11. CASE CancelWork
  BY <1>5, <1>10, <1>11, RequestIsEffect DEF CancelWork, entry
<1>12. CASE CancelStarting
  <2>1. setup # "starting" /\ setup' = setup
    BY <1>12 DEF CancelStarting, Abandon, HolderInv
  <2>2. ASSUME NEW e \in engines, NEW a \in {"stable", "pending"},
               LeaveToWorker(<<"save", e.id.rule, a>>)
        PROVE  RowInv'
    BY <1>10, <2>1, <2>2, SaveIsEffect
  <2> QED
    BY <1>2, <1>12, <2>1, <2>2 DEF CancelStarting
<1>13. ASSUME NEW b \in late, LateCommit(b) PROVE RowInv'
  <2>1. setup # "starting" /\ setup' = setup /\ ~Punctual
    BY <1>13 DEF LateCommit, RowInv, entry
  <2>2. enabled' \subseteq Stored'
    BY <1>13, CommitTypes DEF LateCommit, RowInv, TypeOK
  <2> QED
    BY <1>1, <2>1, <2>2 DEF RowInv
<1> QED
  BY <1>3, <1>4, <1>6, <1>7, <1>8, <1>9, <1>11, <1>12, <1>13
    DEF Next, EngineProgress, Environment

(* What a rebuild recovered stays until the next drain.                    *)
LEMMA RebuildStep ==
  ASSUME Frame, [Next]_vars
  PROVE  RebuildInv'
<1> USE ManagerAssumption DEF Frame
<1>1. Punctual' => Punctual /\ late = {}
  BY UndisturbedStep, {"late"} \in SUBSET Disturbances
     DEF Punctual, Disturbances, RowInv
<1>2. ASSUME UNCHANGED <<step, todo, building, listener, runtimes>>,
             Observed' = Observed, Punctual => enabled' = enabled
      PROVE  RebuildInv'
  BY <1>1, <1>2 DEF RebuildInv, Rebuilt
<1>3. CASE UNCHANGED vars
  BY <1>2, <1>3 DEF vars, lock, work, observation, database, Observed
<1>4. CASE \/ (\E c \in Calls, b \in Requests : Call(c, b))
          \/ RegisterServices \/ ForwardPlatforms \/ UnloadPlatforms
          \/ RemoveServices \/ FailSetup \/ Unload \/ FailUnloadPlatforms
          \/ (\E c \in Calls : CancelWaiting(c))
  BY <1>2, <1>4 DEF Call, RegisterServices, ForwardPlatforms, UnloadPlatforms,
    RemoveServices, FailSetup, QueueStop, Unload, FailUnloadPlatforms,
    CancelWaiting, lock, work, observation, database, Observed
<1>5. ASSUME step' \notin {"building", "latest", "starting"} PROVE RebuildInv'
  BY <1>5 DEF RebuildInv
<1>6. CASE \/ Acquire \/ (\E e \in engines : Suspend(e)) \/ BeginWork
          \/ RunBody \/ RefuseBody \/ FailWork \/ Release \/ StopStore
          \/ CancelWork
  BY <1>5, <1>6 DEF Acquire, Suspend, BeginWork, RunBody, RefuseBody, FailWork,
    Resume, Release, StopStore, CancelWork, lock
<1>7. CASE \/ RefuseRebuild \/ FailRebuild \/ CancelDraining
          \/ CancelRebuild \/ CancelStarting
          \/ (\E e \in engines : FailSync(e))
  <2>1. Abandon
    BY <1>7 DEF RefuseRebuild, FailRebuild, CancelDraining, CancelRebuild,
      CancelStarting, FailSync
  <2> QED
    BY <1>5, <2>1 DEF Abandon
<1>8. CASE List
  BY <1>8 DEF List, observation, database, RebuildInv, Rebuilt
<1>9. ASSUME NEW r \in Rules, Recover(r) PROVE RebuildInv'
  <2>1. Observed' = Observed \cup {[build |-> builds, rule |-> r]}
    BY <1>9, RecoverAdds
  <2>2. Rebuilt' = Rebuilt \cup {r}
    <3> DEFINE id == [build |-> builds, rule |-> r]
    <3>1. building' = building \cup {id} /\ id.rule = r
      BY <1>9 DEF Recover
    <3> HIDE DEF id
    <3>2. Rebuilt' = {i.rule : i \in building'}
      BY DEF Rebuilt
    <3> QED
      BY <3>1, <3>2 DEF Rebuilt
  <2>3. /\ building' = building \cup {[build |-> builds, rule |-> r]}
        /\ todo' = todo \ {r} /\ r \in todo /\ step' = step
        /\ UNCHANGED <<runtimes, listener, enabled>> /\ step = "building"
    BY <1>9 DEF Recover, lock, observation, database
  <2> QED
    BY <1>1, <2>1, <2>2, <2>3 DEF RebuildInv
<1>10. CASE Adopt
  BY <1>1, <1>10 DEF Adopt, work, database, Observed, RebuildInv, Rebuilt
<1>11. CASE Install
  BY <1>1, <1>11 DEF Install, database, Observed, RebuildInv, Rebuilt
<1>12. ASSUME NEW r \in Rules, Synchronize(r) PROVE RebuildInv'
  <2>1. Observed' = Observed
    BY <1>12, EngineSteps, EnginesKeep
  <2>2. /\ step = "starting"
        /\ UNCHANGED <<step, building, listener, runtimes, enabled>>
    BY <1>12 DEF Synchronize, lock, observation, database
  <2> QED
    BY <1>1, <2>1, <2>2 DEF RebuildInv, Rebuilt
<1>13. ASSUME NEW e \in engines,
              Write(e) \/ FailWrite(e) \/ Observe(e) \/ Fire(e)
       PROVE  RebuildInv'
  <2>1. Observed' = Observed
    BY <1>13, EngineSteps, EnginesKeep
  <2> QED
    BY <1>2, <1>13, <2>1 DEF Write, FailWrite, Observe, Fire, lock, work,
      observation, database
<1>14. ASSUME NEW b \in late, LateCommit(b) PROVE RebuildInv'
  BY <1>1, <1>14 DEF LateCommit, RowInv, RebuildInv, Rebuilt, Observed, lock,
    work, observation
<1> QED
  BY <1>3, <1>4, <1>6, <1>7, <1>8, <1>9, <1>10, <1>11, <1>12, <1>13, <1>14
    DEF Next, Progress, EngineProgress, Environment

-----------------------------------------------------------------------------
(* The steps that strand nothing                                           *)

(* A holder that gives up where that strands engines has used that up.     *)
LEMMA Spared ==
  ASSUME Frame, Unstranded',
         \/ FailRebuild \/ CancelRebuild \/ CancelStarting
         \/ \E e \in engines : FailSync(e)
  PROVE  ~Strands
<1> USE ManagerAssumption DEF Frame
<1>1. CASE FailRebuild \/ CancelRebuild
  BY <1>1, HitSpares DEF FailRebuild, CancelRebuild
<1>2. CASE CancelStarting
  BY <1>2 DEF CancelStarting, Strands
<1>3. ASSUME NEW e \in engines, FailSync(e) PROVE ~Strands
  <2>1. CASE row[e.id.rule] # "absent"
    BY <1>3, <2>1, HitSpares DEF FailSync
  <2>2. CASE row[e.id.rule] = "absent"
    <3>1. e.id.rule \in Rules
      BY DEF TypeOK, Engines, Identities
    <3>2. holder # Start
      BY <2>2, <3>1 DEF HolderInv, RowInv, Stored
    <3> QED
      BY <1>3, <3>2 DEF FailSync, Strands
  <2> QED
    BY <2>1, <2>2
<1> QED
  BY <1>1, <1>2, <1>3

(* Such a step brings no engine into a pause or past the closing.          *)
LEMMA SilenceStep ==
  ASSUME Frame, Contained, [Next]_vars, Unstranded'
  PROVE  Silence'
<1> USE ManagerAssumption DEF Frame, Contained
<1>1. ASSUME UNCHANGED <<opened, step, listener, runtimes, engines>>
      PROVE  Silence'
  BY <1>1 DEF Silence
<1>2. CASE UNCHANGED vars
  BY <1>1, <1>2 DEF vars, lock, observation
<1>3. CASE \/ (\E c \in Calls, b \in Requests : Call(c, b))
          \/ RegisterServices \/ ForwardPlatforms \/ UnloadPlatforms
          \/ RemoveServices \/ FailSetup \/ Unload \/ FailUnloadPlatforms
          \/ (\E c \in Calls : CancelWaiting(c))
          \/ (\E b \in late : LateCommit(b))
  BY <1>1, <1>3 DEF Call, RegisterServices, ForwardPlatforms, UnloadPlatforms,
    RemoveServices, FailSetup, QueueStop, Unload, FailUnloadPlatforms,
    CancelWaiting, LateCommit, lock, observation
<1>4. CASE Acquire
  BY <1>4 DEF Acquire, Silence
<1>5. ASSUME NEW e \in engines, Suspend(e) PROVE Silence'
  BY <1>5 DEF Suspend, lock, observation, Silence
<1>6. Observed \subseteq runtimes /\ Drained => engines = {}
  BY DEF Drained, Observed
<1>7. CASE BeginWork
  BY <1>6, <1>7 DEF BeginWork, Covering, Silence
<1>8. CASE RunBody \/ RefuseBody \/ FailWork \/ CancelWork
  BY <1>8 DEF RunBody, RefuseBody, FailWork, CancelWork, Resume, Silence
<1>9. CASE List
  BY <1>9 DEF List, observation, Silence
<1>10. ASSUME NEW r \in Rules, Recover(r) PROVE Silence'
  BY <1>10 DEF Recover, lock, observation, HeldInv, Silence
<1>11. CASE Adopt \/ Install
  BY <1>11 DEF Adopt, Install, HeldInv, Silence
<1>12. CASE Release
  BY <1>12 DEF Release, observation, HeldInv, Silence
<1>13. CASE StopStore
  BY <1>6, <1>13 DEF StopStore, Covering, HeldInv, Silence
<1>14. ASSUME NEW e \in engines,
              Write(e) \/ FailWrite(e) \/ Observe(e) \/ Fire(e)
       PROVE  Silence'
  <2>1. UNCHANGED <<opened, step, listener, runtimes>>
    BY <1>14 DEF Write, FailWrite, Observe, Fire, lock, observation
  <2> QED
    BY <2>1 DEF Silence
<1>15. ASSUME NEW r \in Rules, Synchronize(r) PROVE Silence'
  BY <1>15 DEF Synchronize, lock, observation, HeldInv, Silence
<1>16. ASSUME Abandon,
              holder = Start => step \in {"listing", "building"} /\ engines = {}
                                /\ engines' = {},
              ~opened => engines' = {}
       PROVE  Silence'
  BY <1>16 DEF Abandon, observation, HeldInv, Silence
<1>17. CASE RefuseRebuild \/ CancelDraining
  BY <1>16, <1>17
    DEF RefuseRebuild, CancelDraining, HolderInv, HeldInv, Silence
<1>18. CASE FailRebuild \/ CancelRebuild
  <2>1. building = {} /\ step = "building" => engines = {}
    BY DEF Covering, Observed
  <2> QED
    BY <1>16, <1>18, <2>1, Spared
      DEF FailRebuild, CancelRebuild, Strands, HolderInv, Silence
<1>19. CASE CancelStarting \/ (\E e \in engines : FailSync(e))
  <2>1. Abandon /\ step = "starting"
    BY <1>19 DEF CancelStarting, FailSync
  <2>2. holder # Start /\ opened
    BY <1>19, <2>1, Spared DEF Strands, HeldInv
  <2> QED
    BY <1>16, <2>1, <2>2
<1> QED
  BY <1>2, <1>3, <1>4, <1>5, <1>7, <1>8, <1>9, <1>10, <1>11, <1>12, <1>13,
    <1>14, <1>15, <1>17, <1>18, <1>19
    DEF Next, Progress, EngineProgress, Environment

(* Such a step gives no rule a second engine.                              *)
LEMMA UniqueStep ==
  ASSUME Frame, Contained, [Next]_vars
  PROVE  OneEnginePerRule'
<1> USE DEF Frame, Contained
<1>1. ASSUME UNCHANGED engines PROVE OneEnginePerRule'
  BY <1>1 DEF OneEnginePerRule
<1>2. CASE UNCHANGED vars
  BY <1>1, <1>2 DEF vars
<1>3. CASE \/ Acquire \/ BeginWork \/ RunBody \/ RefuseBody \/ List \/ Adopt
          \/ Install \/ Release \/ RefuseRebuild \/ RegisterServices
          \/ ForwardPlatforms \/ StopStore \/ UnloadPlatforms
          \/ RemoveServices
  BY <1>1, <1>3 DEF Acquire, BeginWork, RunBody, RefuseBody, Resume, List,
    Adopt, Install, Release, RefuseRebuild, RegisterServices,
    ForwardPlatforms, StopStore, UnloadPlatforms, RemoveServices
<1>4. CASE \/ (\E c \in Calls, b \in Requests : Call(c, b)) \/ FailSetup
          \/ Unload \/ FailUnloadPlatforms
          \/ (\E c \in Calls : CancelWaiting(c)) \/ FailWork \/ FailRebuild
          \/ CancelDraining \/ CancelWork \/ CancelRebuild
          \/ (\E b \in late : LateCommit(b))
  BY <1>1, <1>4 DEF Call, FailSetup, QueueStop, Unload, FailUnloadPlatforms,
    CancelWaiting, FailWork, Resume, FailRebuild, CancelDraining, CancelWork,
    CancelRebuild, LateCommit
<1>5. ASSUME NEW e \in engines, Suspend(e) PROVE OneEnginePerRule'
  BY <1>5 DEF Suspend, OneEnginePerRule
<1>6. ASSUME NEW r \in Rules, Recover(r) PROVE OneEnginePerRule'
  <2>1. \A e \in engines : e.id.rule # r
    BY <1>6 DEF Recover, Covering, Ruled
  <2> DEFINE new == [id |-> [build |-> builds, rule |-> r],
                     timer |-> row[r] = "pending", await |-> "nothing"]
  <2>2. engines' = engines \cup {new} /\ new.id.rule = r
    BY <1>6 DEF Recover
  <2> HIDE DEF new
  <2> QED
    BY <2>1, <2>2 DEF OneEnginePerRule
<1>7. CASE \/ (\E e \in engines : Write(e) \/ FailWrite(e) \/ FailSync(e)
                                 \/ Observe(e) \/ Fire(e))
          \/ (\E r \in Rules : Synchronize(r)) \/ CancelStarting
  BY <1>7, EngineSteps, EnginesKeep
<1> QED
  BY <1>2, <1>3, <1>4, <1>5, <1>6, <1>7
    DEF Next, Progress, EngineProgress, Environment

(* Such a step keeps engines, generation and enabled rules together.       *)
LEMMA CoveringStep ==
  ASSUME Frame, Contained, [Next]_vars, Unstranded'
  PROVE  Covering'
<1> USE ManagerAssumption DEF Frame, Contained
<1>1. Punctual' => Punctual /\ late = {}
  BY UndisturbedStep, {"late"} \in SUBSET Disturbances
     DEF Punctual, Disturbances, RowInv
<1>2. ASSUME UNCHANGED <<step, todo, building, paused, listener, runtimes>>,
             Observed' = Observed, Ruled' = Ruled,
             Punctual => enabled' = enabled
      PROVE  Covering'
  BY <1>1, <1>2 DEF Covering
<1>3. UNCHANGED engines => Observed' = Observed /\ Ruled' = Ruled
  BY DEF Observed, Ruled
<1>4. CASE UNCHANGED vars
  BY <1>2, <1>3, <1>4 DEF vars, lock, work, observation, database
<1>5. CASE \/ (\E c \in Calls, b \in Requests : Call(c, b))
          \/ RegisterServices \/ ForwardPlatforms \/ UnloadPlatforms
          \/ RemoveServices \/ FailSetup \/ Unload \/ FailUnloadPlatforms
          \/ (\E c \in Calls : CancelWaiting(c))
  BY <1>2, <1>3, <1>5 DEF Call, RegisterServices, ForwardPlatforms,
    UnloadPlatforms, RemoveServices, FailSetup, QueueStop, Unload,
    FailUnloadPlatforms, CancelWaiting, lock, work, observation, database
<1>6. ASSUME NEW b \in late, LateCommit(b) PROVE Covering'
  BY <1>1, <1>2, <1>3, <1>6 DEF LateCommit, RowInv, lock, work, observation
<1>7. CASE Acquire
  BY <1>3, <1>7 DEF Acquire, HolderInv, TypeOK, Tasks, Covering
<1>8. ASSUME NEW e \in engines, Suspend(e) PROVE Covering'
  <2>1. Observed' \subseteq Observed
    BY <1>8 DEF Suspend, Observed
  <2> QED
    BY <1>8, <2>1 DEF Suspend, lock, observation, Covering
<1>9. ASSUME step' \in {"working", "listing"} PROVE Covering'
  BY <1>9 DEF Covering
<1>10. CASE \/ BeginWork \/ RunBody \/ RefuseBody \/ FailWork \/ CancelWork
  BY <1>9, <1>10
    DEF BeginWork, RunBody, RefuseBody, FailWork, CancelWork, Resume
<1>11. CASE List
  <2>1. Observed' = {} /\ Ruled' = {}
    BY <1>11 DEF List, Silence, Observed, Ruled
  <2> QED
    BY <1>11, <2>1 DEF List, database, Covering
<1>12. ASSUME NEW r \in Rules, Recover(r) PROVE Covering'
  <2>1. /\ Observed' = Observed \cup {[build |-> builds, rule |-> r]}
        /\ Ruled' = Ruled \cup {r}
    BY <1>12, RecoverAdds
  <2>2. /\ building' = building \cup {[build |-> builds, rule |-> r]}
        /\ todo' = todo \ {r} /\ r \in todo /\ step' = step
        /\ enabled' = enabled /\ step = "building"
    BY <1>12 DEF Recover, lock, database
  <2> QED
    BY <1>1, <2>1, <2>2 DEF Covering
<1>13. CASE Adopt
  BY <1>1, <1>3, <1>13
    DEF Adopt, database, HeldInv, Covering
<1>14. CASE Install
  BY <1>1, <1>3, <1>14 DEF Install, database, Covering
<1>15. ASSUME NEW r \in Rules, Synchronize(r) PROVE Covering'
  <2>1. Observed' = Observed /\ Ruled' = Ruled
    BY <1>15, EngineSteps, EnginesKeep
  <2>2. /\ step = "starting"
        /\ UNCHANGED <<step, paused, runtimes, enabled>>
    BY <1>15 DEF Synchronize, lock, observation, database
  <2> QED
    BY <1>1, <2>1, <2>2 DEF Covering
<1>16. CASE Release
  BY <1>1, <1>3, <1>16 DEF Release, observation, database, Covering
<1>17. CASE StopStore
  <2>1. engines' = {}
    BY <1>17 DEF StopStore, Drained, Covering, Observed
  <2> QED
    BY <1>17, <2>1 DEF StopStore, HeldInv, Covering, Observed
<1>18. ASSUME NEW e \in engines,
              Write(e) \/ FailWrite(e) \/ Observe(e) \/ Fire(e)
       PROVE  Covering'
  <2>1. Observed' = Observed /\ Ruled' = Ruled
    BY <1>18, EngineSteps, EnginesKeep
  <2> QED
    BY <1>2, <1>18, <2>1 DEF Write, FailWrite, Observe, Fire, lock, work,
      observation, database
<1>19. ASSUME Abandon, Observed' = Observed, Observed \subseteq runtimes,
              ~listener
       PROVE  Covering'
  BY <1>19 DEF Abandon, observation, Covering
<1>20. CASE RefuseRebuild \/ CancelDraining
  <2>1. Observed \subseteq runtimes /\ ~listener
    BY <1>20 DEF RefuseRebuild, CancelDraining, HeldInv, Silence, Covering,
      Observed
  <2> QED
    BY <1>3, <1>19, <1>20, <2>1 DEF RefuseRebuild, CancelDraining
<1>21. CASE FailRebuild \/ CancelRebuild
  <2>1. step \in {"listing", "building", "latest"} /\ ~Strands
    BY <1>21, Spared DEF FailRebuild, CancelRebuild
  <2>2. Observed \subseteq runtimes /\ ~listener
    BY <2>1 DEF Strands, HeldInv, Silence, Covering, Observed
  <2> QED
    BY <1>3, <1>19, <1>21, <2>2 DEF FailRebuild, CancelRebuild
<1>22. CASE CancelStarting \/ (\E e \in engines : FailSync(e))
  <2>1. Abandon /\ step = "starting"
    BY <1>22 DEF CancelStarting, FailSync
  <2>2. Observed' = Observed /\ Ruled' = Ruled
    BY <1>22, EngineSteps, EnginesKeep
  <2>3. Punctual' => enabled' = enabled
    <3>1. CASE \E e \in engines : FailSync(e)
      BY <3>1 DEF FailSync, database
    <3>2. CASE CancelStarting
      BY <3>2 DEF CancelStarting, LeaveToWorker, Commit, database
    <3> QED
      BY <1>22, <3>1, <3>2
  <2> QED
    BY <1>1, <2>1, <2>2, <2>3 DEF Abandon, observation, Covering
<1> QED
  BY <1>4, <1>5, <1>6, <1>7, <1>8, <1>10, <1>11, <1>12, <1>13, <1>14, <1>15,
    <1>16, <1>17, <1>18, <1>20, <1>21, <1>22
    DEF Next, Progress, EngineProgress, Environment

-----------------------------------------------------------------------------
(* The calm steps                                                          *)

(* A calm step leaves the lock to a listener.                              *)
LEMMA WatchedStep ==
  ASSUME Frame, Calm', Watched, [Next]_vars
  PROVE  Watched'
<1> USE ManagerAssumption DEF Frame
<1>1. ASSUME UNCHANGED <<opened, step, listener>> PROVE Watched'
  BY <1>1 DEF Watched
<1>2. CASE UNCHANGED vars
  BY <1>1, <1>2 DEF vars, lock, observation
<1>3. CASE \/ (\E c \in Calls, b \in Requests : Call(c, b))
          \/ (\E e \in engines : Suspend(e)) \/ (\E r \in Rules : Recover(r))
          \/ (\E r \in Rules : Synchronize(r))
          \/ RegisterServices \/ ForwardPlatforms \/ UnloadPlatforms
          \/ RemoveServices \/ FailSetup \/ Unload \/ FailUnloadPlatforms
          \/ (\E c \in Calls : CancelWaiting(c))
          \/ (\E b \in late : LateCommit(b))
  BY <1>1, <1>3 DEF Call, Suspend, Recover, Synchronize, RegisterServices,
    ForwardPlatforms, UnloadPlatforms, RemoveServices, FailSetup, QueueStop,
    Unload, FailUnloadPlatforms, CancelWaiting, LateCommit, lock, observation
<1>4. CASE \E e \in engines : Write(e) \/ FailWrite(e) \/ Observe(e) \/ Fire(e)
  BY <1>1, <1>4 DEF Write, FailWrite, Observe, Fire, lock, observation
<1>5. CASE \/ Acquire \/ BeginWork \/ RunBody \/ RefuseBody \/ List \/ Adopt
          \/ Install \/ FailWork \/ CancelWork
  BY <1>5 DEF Acquire, BeginWork, RunBody, RefuseBody, List, Adopt, Install,
    FailWork, CancelWork, Resume, Watched
<1>6. CASE Release
  BY <1>6 DEF Release, observation, RebuildInv, Watched
<1>7. CASE RefuseRebuild \/ StopStore
  BY <1>7 DEF RefuseRebuild, StopStore, Abandon, Watched
<1>8. CASE CancelStarting \/ (\E e \in engines : FailSync(e))
  <2>1. Abandon /\ step = "starting"
    BY <1>8 DEF CancelStarting, FailSync
  <2> QED
    BY <2>1 DEF Abandon, observation, RebuildInv, Watched
<1>9. \A d \in {"fail", "cancel", "strand", "late"} : ~Spend(d)
  BY Unspent DEF Calm, Disturbances
<1>10. CASE FailRebuild \/ CancelDraining \/ CancelRebuild
  BY <1>9, <1>10 DEF FailRebuild, CancelDraining, CancelRebuild, Hit
<1> QED
  BY <1>2, <1>3, <1>4, <1>5, <1>6, <1>7, <1>8, <1>10
    DEF Next, Progress, EngineProgress, Environment

(* A calm step erases no rule that has an engine.                          *)
LEMMA KeptStep ==
  ASSUME Frame, Contained, Calm, Calm', Kept, [Next]_vars
  PROVE  Kept'
<1> USE ManagerAssumption DEF Frame
<1>1. \A d \in {"fail", "cancel", "strand", "late"} : ~Spend(d)
  BY Unspent DEF Calm, Disturbances
<1>2. Punctual /\ late = {}
  BY DEF Calm, Undisturbed, Punctual, RowInv
<1>3. ASSUME Ruled' \subseteq Ruled, row' = row PROVE Kept'
  BY <1>3 DEF Kept, Stored
<1>4. UNCHANGED engines => Ruled' \subseteq Ruled
  BY DEF Ruled
<1>5. CASE UNCHANGED vars
  BY <1>3, <1>4, <1>5 DEF vars, database
<1>6. CASE \/ Acquire \/ BeginWork \/ RefuseBody \/ List \/ Adopt \/ Install
          \/ Release \/ RefuseRebuild \/ RegisterServices
          \/ ForwardPlatforms \/ StopStore \/ UnloadPlatforms
          \/ RemoveServices \/ FailSetup \/ Unload \/ FailUnloadPlatforms
          \/ (\E c \in Calls : CancelWaiting(c))
          \/ (\E c \in Calls, b \in Requests : Call(c, b))
  BY <1>3, <1>4, <1>6 DEF Acquire, BeginWork, RefuseBody, Resume, List, Adopt,
    Install, Release, RefuseRebuild, RegisterServices, ForwardPlatforms,
    StopStore, UnloadPlatforms, RemoveServices, FailSetup, QueueStop, Unload,
    FailUnloadPlatforms, CancelWaiting, Call, database
<1>7. ASSUME NEW e \in engines, Suspend(e) PROVE Kept'
  <2>1. Ruled' \subseteq Ruled
    BY <1>7 DEF Suspend, Ruled
  <2> QED
    BY <1>3, <1>7, <2>1 DEF Suspend, database
<1>8. CASE RunBody
  <2>1. Ruled' = {}
    BY <1>8 DEF RunBody, Resume, Contained, Silence, Ruled
  <2> QED
    BY <2>1 DEF Kept
<1>9. ASSUME NEW r \in Rules, Recover(r) PROVE Kept'
  <2>1. Ruled' = Ruled \cup {r}
    BY <1>9, RecoverAdds
  <2>2. r \in enabled
    BY <1>2, <1>9 DEF Recover, Contained, Covering
  <2> QED
    BY <1>9, <2>1, <2>2 DEF Recover, RowInv, Kept, Stored, database
<1>10. ASSUME NEW e \in engines, Write(e) PROVE Kept'
  <2>1. Ruled' = Ruled
    BY <1>10, EngineSteps, EnginesKeep
  <2>2. Stored' = Stored
    BY <1>10 DEF Write, Stored, TypeOK
  <2> QED
    BY <2>1, <2>2 DEF Kept
<1>11. CASE \/ (\E e \in engines :
                  FailWrite(e) \/ FailSync(e) \/ Observe(e) \/ Fire(e))
           \/ (\E r \in Rules : Synchronize(r))
  <2>1. Ruled' = Ruled
    BY <1>11, EngineSteps, EnginesKeep
  <2> QED
    BY <1>3, <1>11, <2>1
      DEF FailWrite, FailSync, Observe, Fire, Synchronize, database
<1>12. CASE \/ FailWork \/ FailRebuild \/ CancelDraining \/ CancelWork
           \/ CancelRebuild \/ CancelStarting
           \/ (\E b \in late : LateCommit(b))
  BY <1>1, <1>2, <1>12 DEF FailWork, FailRebuild, CancelDraining, CancelWork,
    CancelRebuild, CancelStarting, LeaveToWorker, Hit
<1> QED
  BY <1>5, <1>6, <1>7, <1>8, <1>9, <1>10, <1>11, <1>12
    DEF Next, Progress, EngineProgress, Environment

(* A calm step reports an error only for a refused request.                *)
LEMMA ReportedStep ==
  ASSUME Frame, Contained, Calm', Kept, Reported, [Next]_vars
  PROVE  Reported'
<1> USE ManagerAssumption DEF Frame
<1>1. \A d \in {"fail", "cancel", "strand", "late"} : ~Spend(d)
  BY Unspent DEF Calm, Disturbances
<1>2. ASSUME UNCHANGED body, opened' => opened,
             failed' => failed, entity' = "error" => entity = "error"
      PROVE  Reported'
  BY <1>2 DEF Reported, Refused
<1>3. CASE UNCHANGED vars
  BY <1>2, <1>3 DEF vars, work
<1>4. CASE \/ (\E e \in engines : Suspend(e)) \/ BeginWork \/ List
          \/ (\E r \in Rules : Recover(r)) \/ Adopt \/ Install
          \/ (\E r \in Rules : Synchronize(r)) \/ RegisterServices
          \/ ForwardPlatforms \/ UnloadPlatforms \/ RemoveServices
          \/ FailSetup \/ Unload \/ FailUnloadPlatforms
          \/ (\E c \in Calls : CancelWaiting(c)) \/ CancelWork
          \/ (\E b \in late : LateCommit(b))
          \/ (\E e \in engines : Observe(e) \/ Fire(e))
  BY <1>2, <1>4 DEF Suspend, BeginWork, List, Recover, Adopt, Install,
    Synchronize, RegisterServices, ForwardPlatforms, UnloadPlatforms,
    RemoveServices, FailSetup, QueueStop, Unload, FailUnloadPlatforms,
    CancelWaiting, CancelWork, LateCommit, Observe, Fire, work
<1>5. ASSUME NEW c \in Calls, NEW b \in Requests, Call(c, b) PROVE Reported'
  <2>1. <<"duplicate">> # Unmade
    BY DEF Unmade
  <2>2. \A d \in Calls : body[d] # Unmade => body'[d] = body[d]
    BY <1>5 DEF Call, TypeOK
  <2>3. Refused => Refused'
    BY <1>5, <2>1, <2>2 DEF Call, Refused
  <2> QED
    BY <1>5, <2>3 DEF Call, Reported
<1>6. CASE \/ Acquire \/ RunBody \/ Release \/ StopStore
          \/ (\E e \in engines : Write(e))
  <2>1. CASE Acquire \/ StopStore \/ (\E e \in engines : Write(e))
    BY <1>2, <2>1 DEF Acquire, StopStore, Write, work
  <2>2. CASE RunBody
    BY <1>2, <2>2 DEF RunBody, Resume
  <2>3. CASE Release
    BY <2>3 DEF Release, work, Reported, Refused
  <2> QED
    BY <1>6, <2>1, <2>2, <2>3
<1>7. CASE RefuseBody
  <2>1. holder \in Calls /\ body[holder] # Unmade
    BY <1>7, RequestIsEffect DEF RefuseBody, AskedInv, Asked
  <2>2. body' = body /\ opened' = opened
    BY <1>7 DEF RefuseBody, Resume
  <2>3. Refused'
    BY <1>7, <2>1, <2>2 DEF RefuseBody, Request, Refused
  <2> QED
    BY <2>3 DEF Reported
<1>8. ASSUME Abandon, holder # Start PROVE Reported'
  BY <1>2, <1>8 DEF Abandon, work
<1>9. CASE \/ RefuseRebuild \/ FailRebuild \/ CancelDraining
          \/ CancelRebuild \/ CancelStarting
  BY <1>1, <1>8, <1>9 DEF RefuseRebuild, FailRebuild, CancelDraining,
    CancelRebuild, CancelStarting, Hit, HolderInv
<1>10. \A e \in engines : row[e.id.rule] # "absent"
  BY DEF Kept, Ruled, Stored
<1>11. CASE \/ FailWork
           \/ (\E e \in engines : FailWrite(e) \/ FailSync(e))
  <2>1. engines # {} => opened
    BY DEF Contained, Silence
  <2> QED
    BY <1>1, <1>10, <1>11, <2>1 DEF FailWork, FailWrite, FailSync, Hit
<1> QED
  BY <1>3, <1>4, <1>5, <1>6, <1>7, <1>9, <1>11
    DEF Next, Progress, EngineProgress, Environment

-----------------------------------------------------------------------------
(* The invariant holds, and what follows from it                           *)

(* The manager starts with the lock held for async_start, and no engine.   *)
LEMMA InvInit == Init => Inv
<1> SUFFICES ASSUME Init PROVE Inv
  OBVIOUS
<1> USE ManagerAssumption
<1>1. TypeOK
  <2>1. /\ queue \in Seq(Calls \cup {Stop})
        /\ body \in [Calls -> Requests \cup {Unmade}]
    BY DEF Init
  <2>2. row \in [Rules -> Rows] /\ late \subseteq Effects
    BY DEF Init, Rows
  <2>3. holder = Start /\ step = "listing" /\ Start # Nobody
    BY DEF Init, Tasks
  <2>4. budget \in [Disturbances -> Nat] /\ enabled \subseteq Rules
    BY DEF Init
  <2>5. /\ opened \in BOOLEAN /\ services \in BOOLEAN /\ platforms \in BOOLEAN
        /\ failed \in BOOLEAN /\ paused \in BOOLEAN /\ listener \in BOOLEAN
        /\ setup \in Setups /\ entity \in {"unloaded", "healthy", "error"}
        /\ todo = {} /\ building = {} /\ runtimes = {} /\ engines = {}
        /\ builds \in Nat
    BY DEF Init, Setups
  <2> QED
    BY <2>1, <2>2, <2>3, <2>4, <2>5 DEF TypeOK, Steps, Tasks
<1>2. Stored = Rules /\ late = {} /\ enabled \subseteq Rules
  BY DEF Init, Stored
<1>3. Bounded /\ HolderInv /\ AskedInv /\ HeldInv /\ EntryInv /\ RebuildInv
  BY DEF Init, Bounded, HolderInv, AskedInv, Asked, HeldInv, EntryInv,
         RebuildInv, Disturbances
<1>4. Contained /\ Steady
  BY DEF Init, Contained, OneEnginePerRule, Silence, Covering, Steady, Watched,
         Kept, Ruled, Reported
<1> QED
  BY <1>1, <1>2, <1>3, <1>4 DEF Inv, Frame, RowInv

(* Every step keeps what holds whatever goes wrong.                        *)
LEMMA FrameStep ==
  ASSUME Frame, [Next]_vars
  PROVE  Frame'
BY TypesStep, BoundedStep, HolderStep, AskedStep, HeldStep, EntryStep,
   RowStep, RebuildStep
   DEF Frame

(* Every step keeps the invariant.                                         *)
LEMMA InvStep == Inv /\ [Next]_vars => Inv'
<1> SUFFICES ASSUME Inv, [Next]_vars PROVE Inv'
  OBVIOUS
<1>1. Frame'
  BY FrameStep DEF Inv
<1>2. ASSUME Unstranded' PROVE Contained'
  <2>1. Unstranded
    BY <1>2, UndisturbedStep, {"strand"} \in SUBSET Disturbances
       DEF Inv, Unstranded, Disturbances
  <2> QED
    BY <1>2, <2>1, SilenceStep, UniqueStep, CoveringStep DEF Inv, Contained
<1>3. ASSUME Calm' PROVE Steady'
  <2>1. Calm
    BY <1>3, UndisturbedStep,
       {"fail", "cancel", "strand", "late"} \in SUBSET Disturbances
       DEF Inv, Calm, Disturbances
  <2>2. Contained /\ Steady
    BY <2>1 DEF Inv, Calm, Unstranded, Undisturbed
  <2> QED
    BY <1>3, <2>1, <2>2, WatchedStep, KeptStep, ReportedStep DEF Inv, Steady
<1> QED
  BY <1>1, <1>2, <1>3 DEF Inv

(* The inductive invariant, for the theorems below.                        *)
THEOREM InvAlways == Spec => []Inv
<1>1. Init => Inv
  BY InvInit
<1>2. Inv /\ [Next]_vars => Inv'
  BY InvStep
<1> QED
  BY <1>1, <1>2, PTL DEF Spec

(* The fields of the manager, its lock, its queue and its engines keep     *)
(* their types, and the lock has a holder exactly while that one awaits,   *)
(* whatever fails or is cancelled.                                         *)
THEOREM TypeOKAlways == Spec => []TypeOK
<1>1. Inv => TypeOK
  BY DEF Inv, Frame
<1> QED
  BY <1>1, InvAlways, PTL

(* No engine accepts, waits or keeps a timer while the body of a pause     *)
(* runs, whatever failed, was cancelled or committed late before, as long  *)
(* as no rebuild or set-up has stranded an engine.                         *)
THEOREM PausesAreQuiet == Spec => [](Unstranded => PauseIsQuiet)
<1>1. Inv => (Unstranded => PauseIsQuiet)
  BY DEF Inv, Contained, Silence, PauseIsQuiet
<1> QED
  BY <1>1, InvAlways, PTL

(* Under the same premise no rule ever has two engines, for any number of  *)
(* rules and calls, failing bodies and writes, and cancelled drains.       *)
THEOREM EnginesAreUnique == Spec => [](Unstranded => OneEnginePerRule)
<1>1. Inv => (Unstranded => OneEnginePerRule)
  BY DEF Inv, Contained
<1> QED
  BY <1>1, InvAlways, PTL

(* Under the same premise a free lock of an open store means that either   *)
(* nothing is observed, and then something failed or was cancelled, or     *)
(* every rule that was enabled when the rules were read is, after any      *)
(* sequence of pauses.                                                     *)
THEOREM ObservationIsWhole == Spec => [](Unstranded => ObservationResumes)
<1>1. Inv => (Unstranded => ObservationResumes)
  <2> SUFFICES ASSUME Inv, Unstranded, holder = Nobody, opened
               PROVE  /\ Calm => listener
                      /\ listener =>
                           /\ ~paused
                           /\ {e.id : e \in engines} = runtimes
                           /\ Punctual => {e.id.rule : e \in engines} = enabled
    BY DEF ObservationResumes
  <2>1. step = "free"
    BY DEF Inv, Frame, TypeOK
  <2>2. Calm => listener
    BY <2>1 DEF Inv, Steady, Watched
  <2> QED
    BY <2>1, <2>2 DEF Inv, Contained, Covering, Observed, Ruled
<1> QED
  BY <1>1, InvAlways, PTL

(* Under the same premise no engine outlives its store, whatever waited    *)
(* for the lock when it was closed and however its set-up failed.          *)
THEOREM StopsAreSilent == Spec => [](Unstranded => StopSilencesEngines)
<1>1. Inv => (Unstranded => StopSilencesEngines)
  BY DEF Inv, Contained, Silence, StopSilencesEngines
<1> QED
  BY <1>1, InvAlways, PTL

(* Before anything goes wrong, a database error is reported only after a   *)
(* request that SQLite or the closed store refused.                        *)
THEOREM ErrorsJustified == Spec => []ErrorsAreRefusals
<1>1. budget = Budget => Calm
  BY DEF Calm, Undisturbed
<1>2. Inv => ErrorsAreRefusals
  BY <1>1 DEF Inv, Steady, Reported, Refused, ErrorsAreRefusals
<1> QED
  BY <1>2, InvAlways, PTL

(* An entry that is gone has left no service and no open store behind, and *)
(* no platform, unless two steps were refused; nor a listener, a           *)
(* generation or an engine, unless a rebuild or the set-up stranded some.  *)
THEOREM GoneLeavesNothing == Spec => []EntryLeavesNothing
<1>1. Inv => EntryLeavesNothing
  <2> SUFFICES ASSUME Inv, setup = "gone"
               PROVE  EntryLeavesNothing
    BY DEF EntryLeavesNothing
  <2>1. /\ ~services /\ ~opened
        /\ platforms => budget["refuse"] < Budget["refuse"] - 1
    BY DEF Inv, Frame, EntryInv
  <2>2. Unstranded => ~listener /\ runtimes = {} /\ engines = {}
    BY <2>1 DEF Inv, Contained, Silence
  <2> QED
    BY <2>1, <2>2 DEF EntryLeavesNothing
<1> QED
  BY <1>1, InvAlways, PTL

(* A rebuild that completes restores observation of every enabled rule by  *)
(* the engines it recovered, whatever failed or was cancelled before, as   *)
(* long as no worker thread kept its commit back.                          *)
THEOREM RebuildsRestore == Spec => RebuildRestores
<1>1. ASSUME Inv, [Next]_vars, step = "starting", step' = "free"
      PROVE  /\ listener /\ ~paused /\ runtimes = building
             /\ Punctual => {id.rule : id \in runtimes} = enabled
             /\ runtimes \subseteq {e.id : e \in engines}
  BY <1>1 DEF Inv, Frame, HeldInv, RebuildInv, Rebuilt, Observed
<1>2. Inv /\ [Next]_vars =>
        [step = "starting" /\ step' = "free" =>
           /\ listener /\ ~paused /\ runtimes = building
           /\ Punctual => {id.rule : id \in runtimes} = enabled
           /\ runtimes \subseteq {e.id : e \in engines}]_vars
  BY <1>1
<1> QED
  BY <1>2, InvAlways, PTL DEF Spec, RebuildRestores
=============================================================================
