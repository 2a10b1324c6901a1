--------------------------- MODULE ExportsProofs ---------------------------
(***************************************************************************)
(* Proofs about Exports, for any identifiers, lifetime and disturbances,   *)
(* hence for any number of resets, reloads, restarts and failed writes.    *)
(***************************************************************************)
EXTENDS Exports, TLAPS

-----------------------------------------------------------------------------
(* The inductive invariant                                                 *)

(* An entry that is not set up in this process has nothing going on; a     *)
(* cleanup under way has a reset behind it.                                *)
Quiet ==
    /\ entry = "unloaded" =>
         /\ reset = "idle"
         /\ \A e \in Ids : call[e] \in {"idle", "failed"} /\ timers[e] = NoTime
    /\ reset # "idle" => resets > 0
    /\ reset # "unlinking" => orphans = {}

(* Writing holds the store's lock, and what it writes was read since the   *)
(* last reset.                                                             *)
Writing ==
    \A e \in Ids :
        /\ call[e] = "writing" <=> writer = e
        /\ call[e] = "writing" /\ files[e] # NoFile =>
             files[e].content = resets

(* The files that still hold erased rows.                                  *)
Stale == {e \in Ids : files[e] # NoFile /\ files[e].content # resets}

(* An answered reset has left none; one that cleans up has listed all.     *)
Erasure ==
    /\ reset = "idle" /\ entry # "unloaded" => Stale = {}
    /\ reset = "unlinking" =>
         \A e \in Stale : [id |-> e, kind |-> files[e].kind] \in orphans

(* Before any reset, an export call has its registration, its file once    *)
(* that is written, and a discard not due before the URL expires.          *)
Registered(e) == artifact[e] # NoTime /\ expires[e] = artifact[e]
Kept ==
    resets = 0 => \A e \in Ids :
        /\ call[e] \in {"queued", "writing", "written"} => Registered(e)
        /\ call[e] = "writing" => files[e] # NoFile
        /\ call[e] = "written" => IsFile(e)
        /\ call[e] = "answered" /\ artifact[e] > 0 =>
             Registered(e) /\ IsFile(e) /\ timers[e] >= artifact[e]
        /\ artifact[e] <= Lifetime
        /\ timers[e] # NoTime => call[e] = "answered"

Inv == TypeOK /\ Quiet /\ Writing /\ Erasure /\ Kept

-----------------------------------------------------------------------------

(* No step leaves the types.                                               *)
LEMMA TypesStep ==
  ASSUME Inv, [Next]_vars
  PROVE  TypeOK'
<1> USE ExportAssumption, WriterAssumption, FileAssumption DEF NoTime
<1>1. CASE UNCHANGED vars
  BY <1>1 DEF Inv, vars, TypeOK
<1>2. CASE Tick
  BY <1>2 DEF Inv, Tick, Elapse, TypeOK
<1>3. CASE SetUp
  BY <1>3 DEF Inv, SetUp, TypeOK, Files
<1>4. CASE Unload
  BY <1>4 DEF Inv, Unload, Spend, NoReset, Outcome, TypeOK, Calls, Disturbances
<1>5. CASE Restart
  BY <1>5 DEF Inv, Restart, Spend, TypeOK, Calls, Paths, Disturbances
<1>6. CASE ResetDatabase
  BY <1>6 DEF Inv, ResetDatabase, Spend, NoReset, TypeOK, Disturbances
<1>7. CASE DiscardAll
  BY <1>7 DEF Inv, DiscardAll, IsFile, PathsOf, Paths, TypeOK, Files
<1>8. CASE UnlinkOrphan
  BY <1>8 DEF Inv, UnlinkOrphan, PathsOf, Paths, TypeOK, Files
<1>9. CASE ResetReturns
  BY <1>9 DEF Inv, ResetReturns, TypeOK
<1>10. ASSUME NEW e \in Ids, BeginWrite(e) PROVE TypeOK'
  BY <1>10 DEF Inv, BeginWrite, TypeOK, Calls, Files
<1>11. ASSUME NEW e \in Ids, FinishWrite(e) PROVE TypeOK'
  BY <1>11 DEF Inv, FinishWrite, Outcome, TypeOK, Calls, Files
<1>12. ASSUME NEW e \in Ids, Answer(e) PROVE TypeOK'
  BY <1>12 DEF Inv, Answer, TypeOK, Calls
<1>13. ASSUME NEW e \in Ids, DiscardFailed(e) PROVE TypeOK'
  BY <1>13 DEF Inv, DiscardFailed, Discard, IsFile, RegistryFree, TypeOK,
    Calls, Files
<1>14. ASSUME NEW e \in Ids, RemoveAtExpiry(e) PROVE TypeOK'
  BY <1>14 DEF Inv, RemoveAtExpiry, Discard, IsFile, RegistryFree, TypeOK,
    Files
<1>15. ASSUME NEW e \in Ids, Allocate(e) PROVE TypeOK'
  BY <1>15 DEF Inv, Allocate, RegistryFree, TypeOK, Calls
<1>16. ASSUME NEW e \in Ids, FailWrite(e) PROVE TypeOK'
  BY <1>16 DEF Inv, FailWrite, Spend, Outcome, TypeOK, Calls, Files,
    Disturbances
<1>17. ASSUME NEW e \in Ids, Cancel(e) PROVE TypeOK'
  BY <1>17 DEF Inv, Cancel, Spend, TypeOK, Calls, Disturbances
<1>18. ASSUME NEW e \in Ids, Resolve(e) PROVE TypeOK'
  BY <1>18 DEF Inv, Resolve, Discard, IsFile, Resolvable, RegistryFree, TypeOK,
    Files
<1> QED
  BY <1>1, <1>2, <1>3, <1>4, <1>5, <1>6, <1>7, <1>8, <1>9, <1>10, <1>11, <1>12,
    <1>13, <1>14, <1>15, <1>16, <1>17, <1>18 DEF Next, Program

(* Only a set-up entry has work going on.                                  *)
LEMMA QuietStep ==
  ASSUME Inv, [Next]_vars
  PROVE  Quiet'
<1> USE ExportAssumption, WriterAssumption, FileAssumption DEF NoTime
<1>1. ASSUME UNCHANGED <<entry, reset, call, timers, resets, orphans>> PROVE
  Quiet'
  BY <1>1 DEF Inv, Quiet
<1>2. CASE UNCHANGED vars
  BY <1>1, <1>2 DEF vars
<1>3. CASE \/ (\E e \in Ids : Resolve(e))
  BY <1>1, <1>3 DEF Resolve, Discard
<1>4. CASE Tick
  BY <1>4 DEF Inv, Tick, Elapse, Quiet, TypeOK
<1>5. CASE SetUp
  BY <1>5 DEF Inv, SetUp, Quiet, TypeOK
<1>6. CASE Unload
  BY <1>6 DEF Inv, Unload, Spend, NoReset, Outcome, Quiet, TypeOK, Calls
<1>7. CASE Restart
  BY <1>7 DEF Inv, Restart, Spend, Quiet, TypeOK, Calls
<1>8. CASE ResetDatabase
  BY <1>8 DEF Inv, ResetDatabase, Spend, NoReset, Quiet, TypeOK
<1>9. CASE DiscardAll
  BY <1>9 DEF Inv, DiscardAll, IsFile, PathsOf, Paths, Quiet, TypeOK
<1>10. CASE UnlinkOrphan
  BY <1>10 DEF Inv, UnlinkOrphan, PathsOf, Paths, Quiet, TypeOK
<1>11. CASE ResetReturns
  BY <1>11 DEF Inv, ResetReturns, Quiet, TypeOK
<1>12. ASSUME NEW e \in Ids, BeginWrite(e) PROVE Quiet'
  BY <1>12 DEF Inv, BeginWrite, Quiet, TypeOK, Calls
<1>13. ASSUME NEW e \in Ids, FinishWrite(e) PROVE Quiet'
  BY <1>13 DEF Inv, FinishWrite, Outcome, Quiet, TypeOK, Calls
<1>14. ASSUME NEW e \in Ids, Answer(e) PROVE Quiet'
  BY <1>14 DEF Inv, Answer, Quiet, TypeOK, Calls
<1>15. ASSUME NEW e \in Ids, DiscardFailed(e) PROVE Quiet'
  BY <1>15 DEF Inv, DiscardFailed, Discard, IsFile, RegistryFree, Quiet,
    TypeOK, Calls
<1>16. ASSUME NEW e \in Ids, RemoveAtExpiry(e) PROVE Quiet'
  BY <1>16 DEF Inv, RemoveAtExpiry, Discard, IsFile, RegistryFree, Quiet,
    TypeOK
<1>17. ASSUME NEW e \in Ids, Allocate(e) PROVE Quiet'
  BY <1>17 DEF Inv, Allocate, RegistryFree, Quiet, TypeOK, Calls
<1>18. ASSUME NEW e \in Ids, FailWrite(e) PROVE Quiet'
  BY <1>18 DEF Inv, FailWrite, Spend, Outcome, Quiet, TypeOK, Calls
<1>19. ASSUME NEW e \in Ids, Cancel(e) PROVE Quiet'
  BY <1>19 DEF Inv, Cancel, Spend, Quiet, TypeOK, Calls
<1> QED
  BY <1>2, <1>3, <1>4, <1>5, <1>6, <1>7, <1>8, <1>9, <1>10, <1>11, <1>12,
    <1>13, <1>14, <1>15, <1>16, <1>17, <1>18, <1>19 DEF Next, Program

(* One call writes, and what it writes is fresh.                           *)
LEMMA WritingStep ==
  ASSUME Inv, [Next]_vars
  PROVE  Writing'
<1> USE ExportAssumption, WriterAssumption, FileAssumption DEF NoTime
<1>1. ASSUME UNCHANGED <<call, writer, files, resets>> PROVE Writing'
  BY <1>1 DEF Inv, Writing
<1>2. CASE UNCHANGED vars
  BY <1>1, <1>2 DEF vars
<1>3. CASE \/ Tick \/ ResetReturns
  BY <1>1, <1>3 DEF Tick, ResetReturns
<1>4. CASE SetUp
  BY <1>4 DEF Inv, SetUp, Writing, TypeOK, Quiet, Erasure, Files
<1>5. CASE Unload
  BY <1>5 DEF Inv, Unload, Spend, NoReset, Outcome, Writing, TypeOK, Quiet,
    Erasure
<1>6. CASE Restart
  BY <1>6 DEF Inv, Restart, Spend, Writing, TypeOK, Quiet, Erasure
<1>7. CASE ResetDatabase
  BY <1>7 DEF Inv, ResetDatabase, Spend, NoReset, Writing, TypeOK, Quiet,
    Erasure
<1>8. CASE DiscardAll
  BY <1>8 DEF Inv, DiscardAll, IsFile, PathsOf, Paths, Writing, TypeOK, Quiet,
    Erasure, Files
<1>9. CASE UnlinkOrphan
  BY <1>9 DEF Inv, UnlinkOrphan, PathsOf, Paths, Writing, TypeOK, Quiet,
    Erasure, Files
<1>10. ASSUME NEW e \in Ids, BeginWrite(e) PROVE Writing'
  BY <1>10 DEF Inv, BeginWrite, Writing, TypeOK, Quiet, Erasure, Files
<1>11. ASSUME NEW e \in Ids, FinishWrite(e) PROVE Writing'
  BY <1>11 DEF Inv, FinishWrite, Outcome, Writing, TypeOK, Quiet, Erasure,
    Files
<1>12. ASSUME NEW e \in Ids, Answer(e) PROVE Writing'
  BY <1>12 DEF Inv, Answer, Writing, TypeOK, Quiet, Erasure
<1>13. ASSUME NEW e \in Ids, DiscardFailed(e) PROVE Writing'
  BY <1>13 DEF Inv, DiscardFailed, Discard, IsFile, RegistryFree, Writing,
    TypeOK, Quiet, Erasure, Files
<1>14. ASSUME NEW e \in Ids, RemoveAtExpiry(e) PROVE Writing'
  BY <1>14 DEF Inv, RemoveAtExpiry, Discard, IsFile, RegistryFree, Writing,
    TypeOK, Quiet, Erasure, Files
<1>15. ASSUME NEW e \in Ids, Allocate(e) PROVE Writing'
  BY <1>15 DEF Inv, Allocate, RegistryFree, Writing, TypeOK, Quiet, Erasure
<1>16. ASSUME NEW e \in Ids, FailWrite(e) PROVE Writing'
  BY <1>16 DEF Inv, FailWrite, Spend, Outcome, Writing, TypeOK, Quiet, Erasure,
    Files
<1>17. ASSUME NEW e \in Ids, Cancel(e) PROVE Writing'
  BY <1>17 DEF Inv, Cancel, Spend, Writing, TypeOK, Quiet, Erasure
<1>18. ASSUME NEW e \in Ids, Resolve(e) PROVE Writing'
  BY <1>18 DEF Inv, Resolve, Discard, IsFile, Resolvable, RegistryFree,
    Writing, TypeOK, Quiet, Erasure, Files
<1> QED
  BY <1>2, <1>3, <1>4, <1>5, <1>6, <1>7, <1>8, <1>9, <1>10, <1>11, <1>12,
    <1>13, <1>14, <1>15, <1>16, <1>17, <1>18 DEF Next, Program

(* Resets list what is stale, and remove what they list.                   *)
LEMMA ErasureStep ==
  ASSUME Inv, [Next]_vars
  PROVE  Erasure'
<1> USE ExportAssumption, WriterAssumption, FileAssumption DEF NoTime
<1>1. ASSUME UNCHANGED <<entry, reset, files, resets, orphans>> PROVE Erasure'
  BY <1>1 DEF Inv, Erasure, Stale
<1>2. CASE UNCHANGED vars
  BY <1>1, <1>2 DEF vars
<1>3. CASE \/ Tick \/ (\E e \in Ids : Answer(e))
           \/ (\E e \in Ids : Allocate(e)) \/ (\E e \in Ids : Cancel(e))
  BY <1>1, <1>3 DEF Tick, Answer, Allocate, Cancel
<1>4. CASE SetUp
  BY <1>4 DEF Inv, SetUp, Erasure, Stale, TypeOK, Quiet, Writing, Files
<1>5. CASE Unload
  BY <1>5 DEF Inv, Unload, Spend, NoReset, Outcome, Erasure, Stale, TypeOK,
    Quiet, Writing
<1>6. CASE Restart
  BY <1>6 DEF Inv, Restart, Spend, Erasure, Stale, TypeOK, Quiet, Writing
<1>7. CASE ResetDatabase
  BY <1>7 DEF Inv, ResetDatabase, Spend, NoReset, Erasure, Stale, TypeOK,
    Quiet, Writing
<1>8. CASE DiscardAll
  BY <1>8 DEF Inv, DiscardAll, IsFile, PathsOf, Paths, Erasure, Stale, TypeOK,
    Quiet, Writing, Files
<1>9. CASE UnlinkOrphan
  BY <1>9 DEF Inv, UnlinkOrphan, PathsOf, Paths, Erasure, Stale, TypeOK, Quiet,
    Writing, Files
<1>10. CASE ResetReturns
  BY <1>10 DEF Inv, ResetReturns, Erasure, Stale, TypeOK, Quiet, Writing
<1>11. ASSUME NEW e \in Ids, BeginWrite(e) PROVE Erasure'
  BY <1>11 DEF Inv, BeginWrite, Erasure, Stale, TypeOK, Quiet, Writing, Files
<1>12. ASSUME NEW e \in Ids, FinishWrite(e) PROVE Erasure'
  BY <1>12 DEF Inv, FinishWrite, Outcome, Erasure, Stale, TypeOK, Quiet,
    Writing, Files
<1>13. ASSUME NEW e \in Ids, DiscardFailed(e) PROVE Erasure'
  BY <1>13 DEF Inv, DiscardFailed, Discard, IsFile, RegistryFree, Erasure,
    Stale, TypeOK, Quiet, Writing, Files
<1>14. ASSUME NEW e \in Ids, RemoveAtExpiry(e) PROVE Erasure'
  BY <1>14 DEF Inv, RemoveAtExpiry, Discard, IsFile, RegistryFree, Erasure,
    Stale, TypeOK, Quiet, Writing, Files
<1>15. ASSUME NEW e \in Ids, FailWrite(e) PROVE Erasure'
  BY <1>15 DEF Inv, FailWrite, Spend, Outcome, Erasure, Stale, TypeOK, Quiet,
    Writing, Files
<1>16. ASSUME NEW e \in Ids, Resolve(e) PROVE Erasure'
  BY <1>16 DEF Inv, Resolve, Discard, IsFile, Resolvable, RegistryFree,
    Erasure, Stale, TypeOK, Quiet, Writing, Files
<1> QED
  BY <1>2, <1>3, <1>4, <1>5, <1>6, <1>7, <1>8, <1>9, <1>10, <1>11, <1>12,
    <1>13, <1>14, <1>15, <1>16 DEF Next, Program

(* Registrations, files and discards go together until a reset.            *)
LEMMA KeptStep ==
  ASSUME Inv, [Next]_vars
  PROVE  Kept'
<1> USE ExportAssumption, WriterAssumption, FileAssumption DEF NoTime
<1>1. ASSUME UNCHANGED <<resets, call, artifact, expires, files, timers>> PROVE
  Kept'
  BY <1>1 DEF Inv, Kept, Registered, IsFile
<1>2. CASE UNCHANGED vars
  BY <1>1, <1>2 DEF vars
<1>3. CASE \/ ResetReturns
  BY <1>1, <1>3 DEF ResetReturns
<1>4. CASE Tick
  BY <1>4 DEF Inv, Tick, Elapse, Kept, Registered, TypeOK, Quiet, Writing,
    IsFile
<1>5. CASE SetUp
  BY <1>5 DEF Inv, SetUp, Kept, Registered, TypeOK, Quiet, Writing, IsFile,
    Files
<1>6. CASE Unload
  BY <1>6 DEF Inv, Unload, Spend, NoReset, Outcome, Kept, Registered, TypeOK,
    Quiet, Writing, IsFile
<1>7. CASE Restart
  BY <1>7 DEF Inv, Restart, Spend, Kept, Registered, TypeOK, Quiet, Writing,
    IsFile
<1>8. CASE ResetDatabase
  BY <1>8 DEF Inv, ResetDatabase, Spend, NoReset, Kept, Registered, TypeOK,
    Quiet, Writing, IsFile
<1>9. CASE DiscardAll
  BY <1>9 DEF Inv, DiscardAll, IsFile, PathsOf, Paths, Kept, Registered,
    TypeOK, Quiet, Writing, Files
<1>10. CASE UnlinkOrphan
  BY <1>10 DEF Inv, UnlinkOrphan, PathsOf, Paths, Kept, Registered, TypeOK,
    Quiet, Writing, IsFile, Files
<1>11. ASSUME NEW e \in Ids, BeginWrite(e) PROVE Kept'
  BY <1>11 DEF Inv, BeginWrite, Kept, Registered, TypeOK, Quiet, Writing,
    IsFile, Files
<1>12. ASSUME NEW e \in Ids, FinishWrite(e) PROVE Kept'
  BY <1>12 DEF Inv, FinishWrite, Outcome, Kept, Registered, TypeOK, Quiet,
    Writing, IsFile, Files
<1>13. ASSUME NEW e \in Ids, Answer(e) PROVE Kept'
  BY <1>13 DEF Inv, Answer, Kept, Registered, TypeOK, Quiet, Writing, IsFile
<1>14. ASSUME NEW e \in Ids, DiscardFailed(e) PROVE Kept'
  BY <1>14 DEF Inv, DiscardFailed, Discard, IsFile, RegistryFree, Kept,
    Registered, TypeOK, Quiet, Writing, Files
<1>15. ASSUME NEW e \in Ids, RemoveAtExpiry(e) PROVE Kept'
  BY <1>15 DEF Inv, RemoveAtExpiry, Discard, IsFile, RegistryFree, Kept,
    Registered, TypeOK, Quiet, Writing, Files
<1>16. ASSUME NEW e \in Ids, Allocate(e) PROVE Kept'
  BY <1>16 DEF Inv, Allocate, RegistryFree, Kept, Registered, TypeOK, Quiet,
    Writing, IsFile
<1>17. ASSUME NEW e \in Ids, FailWrite(e) PROVE Kept'
  BY <1>17 DEF Inv, FailWrite, Spend, Outcome, Kept, Registered, TypeOK, Quiet,
    Writing, IsFile, Files
<1>18. ASSUME NEW e \in Ids, Cancel(e) PROVE Kept'
  BY <1>18 DEF Inv, Cancel, Spend, Kept, Registered, TypeOK, Quiet, Writing,
    IsFile
<1>19. ASSUME NEW e \in Ids, Resolve(e) PROVE Kept'
  BY <1>19 DEF Inv, Resolve, Discard, IsFile, Resolvable, RegistryFree, Kept,
    Registered, TypeOK, Quiet, Writing, Files
<1> QED
  BY <1>2, <1>3, <1>4, <1>5, <1>6, <1>7, <1>8, <1>9, <1>10, <1>11, <1>12,
    <1>13, <1>14, <1>15, <1>16, <1>17, <1>18, <1>19 DEF Next, Program

-----------------------------------------------------------------------------
(* The invariant holds, and what follows from it                           *)

(* A process starts without registrations, files or work.                  *)
LEMMA InvInit == Init => Inv
<1> SUFFICES ASSUME Init PROVE Inv
  OBVIOUS
<1> USE ExportAssumption, WriterAssumption, FileAssumption DEF NoTime
<1>1. TypeOK
  BY DEF Init, TypeOK, Calls
<1>2. Quiet /\ Writing
  BY DEF Init, Quiet, Writing
<1>3. Erasure /\ Kept
  BY DEF Init, Erasure, Stale, Kept
<1> QED
  BY <1>1, <1>2, <1>3 DEF Inv

(* Every step keeps the invariant.                                         *)
LEMMA InvStep == Inv /\ [Next]_vars => Inv'
<1> SUFFICES ASSUME Inv, [Next]_vars PROVE Inv'
  OBVIOUS
<1> QED
  BY TypesStep, QuietStep, WritingStep, ErasureStep, KeptStep DEF Inv

(* The inductive invariant, for the theorems below.                        *)
THEOREM InvAlways == Spec => []Inv
<1>1. Init => Inv
  BY InvInit
<1>2. Inv /\ [Next]_vars => Inv'
  BY InvStep
<1> QED
  BY <1>1, <1>2, PTL DEF Spec

(* Registry, files, calls and discards keep their types, and no instant    *)
(* lies in the past, whatever fails, is cancelled or restarts.             *)
THEOREM TypeOKAlways == Spec => []TypeOK
<1>1. Inv => TypeOK
  BY DEF Inv
<1> QED
  BY <1>1, InvAlways, PTL

(* A reset that has answered leaves no erased row on disk: for any number  *)
(* of exports under way, of resets that raised before it, of reloads and   *)
(* of restarts.                                                            *)
THEOREM ResetsErase == Spec => []ResetErases
<1>1. Inv => ResetErases
  BY DEF Inv, Erasure, Stale, ResetErases
<1> QED
  BY <1>1, InvAlways, PTL

(* A URL that was answered can be downloaded until its expiry, for any     *)
(* lifetime, unless the database was reset.                                *)
THEOREM UrlsResolve == Spec => []AnsweredUrlsResolve
<1>1. Inv => AnsweredUrlsResolve
  BY DEF Inv, TypeOK, Kept, Registered, Resolvable, AnsweredUrlsResolve
<1> QED
  BY <1>1, InvAlways, PTL
=============================================================================
