------------------------------ MODULE Exports ------------------------------
(***************************************************************************)
(* CSV exports (export.py, http.py, management_backend.py): a registry of  *)
(* expiring download identifiers, the files it points at, and the calls    *)
(* that write, time, download and invalidate them.  The registry outlives  *)
(* a reload of the config entry but not the process; the files outlive     *)
(* both.                                                                   *)
(*                                                                         *)
(* A registry method runs in a worker thread under the registry's RLock, a *)
(* CSV is written in a worker thread under the store's RLock: the two      *)
(* exclude nothing of each other.  CSV content is the number of database   *)
(* resets that preceded the query that produced it.                        *)
(***************************************************************************)
EXTENDS Integers

CONSTANTS
    Ids,        \* export identifiers, one per export_journal call
    Lifetime,   \* EXPORT_LIFETIME
    NoFile,     \* nothing on disk for an identifier
    Budget      \* how often each environment disturbance may happen

Disturbances == {"fail", "cancel", "reset", "reload", "crash"}

ASSUME ExportAssumption ==
    /\ Lifetime \in Nat \ {0}
    /\ Budget \in [Disturbances -> Nat]

(* Instants are kept as the time left until them, so no clock is needed.   *)
VARIABLES
    entry,    \* the config entry: "unloaded" (none yet in this process),
              \* "loaded", or "reloading" (unloaded, process data kept)
    call,     \* where the export_journal call of each identifier is
    awaited,  \* whether somebody still awaits that call
    artifact, \* expires_at of the artifact each call was allocated
    expires,  \* expires_at of each identifier in _artifacts, or NoTime
    files,    \* what is on disk for each identifier
    timers,   \* the scheduled discard of each identifier, or NoTime
    writer,   \* the call that holds the store's lock, or NoWriter
    reset,    \* where the last reset_database call is: "idle" once it answered,
              \* "raised" if it ended with an error
    orphans,  \* paths cleanup_orphaned_files has still to unlink
    resets,   \* resets the database went through
    budget    \* disturbances left

vars == <<entry, call, awaited, artifact, expires, files, timers, writer, reset,
          orphans, resets, budget>>

NoTime == -1
NoWriter == "no writer"
ASSUME WriterAssumption == NoWriter \notin Ids

Calls == {"idle", "queued", "writing", "written", "failing", "answered",
          "failed", "abandoned"}
Files == [kind : {"tmp", "csv"}, content : Nat]
Paths == [id : Ids, kind : {"tmp", "csv"}]

ASSUME FileAssumption == NoFile \notin Files

Init ==
    /\ entry = "unloaded"
    /\ call = [e \in Ids |-> "idle"]
    /\ awaited = [e \in Ids |-> FALSE]
    /\ artifact = [e \in Ids |-> NoTime]
    /\ expires = [e \in Ids |-> NoTime]
    /\ files = [e \in Ids |-> NoFile]
    /\ timers = [e \in Ids |-> NoTime]
    /\ writer = NoWriter /\ reset = "idle" /\ orphans = {} /\ resets = 0
    /\ budget = Budget

Spend(d) == budget[d] > 0 /\ budget' = [budget EXCEPT ![d] = @ - 1]

(* The registry's lock is held by a cleanup that still has files to unlink. *)
RegistryFree == reset # "unlinking"

\* A plausible bug of Elapse, used by a mutation run only.
FaultyElapse(instants) == [e \in Ids |-> instants[e] - 1]

Elapse(instants) ==
    [e \in Ids |-> IF instants[e] > 0 THEN instants[e] - 1 ELSE instants[e]]

Tick ==
    /\ \E e \in Ids : artifact[e] > 0 \/ timers[e] > 0
    /\ artifact' = Elapse(artifact)
    /\ expires' = Elapse(expires)
    /\ timers' = Elapse(timers)
    /\ UNCHANGED <<entry, call, awaited, files, writer, reset, orphans, resets,
                   budget>>

-----------------------------------------------------------------------------
(* async_export_journal                                                    *)

Allocate(e) ==
    /\ entry = "loaded" /\ call[e] = "idle" /\ RegistryFree
    /\ call' = [call EXCEPT ![e] = "queued"]
    /\ awaited' = [awaited EXCEPT ![e] = TRUE]
    /\ artifact' = [artifact EXCEPT ![e] = Lifetime]
    /\ expires' = [expires EXCEPT ![e] = Lifetime]
    /\ UNCHANGED <<entry, files, timers, writer, reset, orphans, resets,
                   budget>>

(* The worker thread gets the connection, reads the rows and opens .tmp.   *)
BeginWrite(e) ==
    /\ entry = "loaded" /\ call[e] = "queued" /\ writer = NoWriter
    /\ call' = [call EXCEPT ![e] = "writing"]
    /\ writer' = e
    /\ files' = [files EXCEPT ![e] = [kind |-> "tmp", content |-> resets]]
    /\ UNCHANGED <<artifact, entry, awaited, expires, timers, reset, orphans,
                   resets, budget>>

Outcome(e, reached) == IF awaited[e] THEN reached ELSE "abandoned"

(* .tmp replaces .csv, unless a cleanup unlinked it meanwhile.             *)
FinishWrite(e) ==
    /\ call[e] = "writing"
    /\ writer' = NoWriter
    /\ IF files[e] # NoFile
       THEN /\ files' = [files EXCEPT ![e].kind = "csv"]
            /\ call' = [call EXCEPT ![e] = Outcome(e, "written")]
       ELSE /\ call' = [call EXCEPT ![e] = Outcome(e, "failing")]
            /\ UNCHANGED files
    /\ UNCHANGED <<artifact, entry, awaited, expires, timers, reset, orphans,
                   resets, budget>>

FailWrite(e) ==
    /\ call[e] = "writing" /\ Spend("fail")
    /\ writer' = NoWriter
    /\ files' = [files EXCEPT ![e] = NoFile]
    /\ call' = [call EXCEPT ![e] = Outcome(e, "failing")]
    /\ UNCHANGED <<artifact, entry, awaited, expires, timers, reset, orphans,
                   resets>>

(* Back in the event loop: schedule the discard and answer with the URL.   *)
Answer(e) ==
    /\ call[e] = "written"
    /\ call' = [call EXCEPT ![e] = "answered"]
    /\ timers' = [timers EXCEPT ![e] = Lifetime]
    /\ UNCHANGED <<artifact, entry, awaited, expires, files, writer, reset,
                   orphans, resets, budget>>

IsFile(e) == files[e] # NoFile /\ files[e].kind = "csv"

\* A plausible bug of Discard, used by a mutation run only.
FaultyDiscard(e) ==
    /\ expires' = [expires EXCEPT ![e] = NoTime]
    /\ UNCHANGED files

(* ExportRegistry.discard: a file is removed only through its registration. *)
Discard(e) ==
    /\ expires' = [expires EXCEPT ![e] = NoTime]
    /\ files' = IF expires[e] # NoTime /\ IsFile(e)
                THEN [files EXCEPT ![e] = NoFile] ELSE files

DiscardFailed(e) ==
    /\ call[e] = "failing" /\ RegistryFree
    /\ call' = [call EXCEPT ![e] = "failed"]
    /\ Discard(e)
    /\ UNCHANGED <<artifact, entry, awaited, timers, writer, reset, orphans,
                   resets, budget>>

(* The task awaiting the call is cancelled.  A call that has not reached a *)
(* worker thread ends; one that has is finished by its thread, unheard.    *)
Cancel(e) ==
    /\ call[e] \in {"queued", "writing", "written"} /\ awaited[e]
    /\ Spend("cancel")
    /\ awaited' = [awaited EXCEPT ![e] = FALSE]
    /\ \/ call[e] # "writing" /\ call' = [call EXCEPT ![e] = "abandoned"]
       \/ call[e] # "written" /\ UNCHANGED call
    /\ UNCHANGED <<artifact, entry, expires, files, timers, writer, reset, orphans,
                   resets>>

-----------------------------------------------------------------------------
(* The scheduled discard and the download view                             *)

RemoveAtExpiry(e) ==
    /\ timers[e] = 0 /\ RegistryFree
    /\ timers' = [timers EXCEPT ![e] = NoTime]
    /\ Discard(e)
    /\ UNCHANGED <<artifact, entry, call, awaited, writer, reset, orphans, resets,
                   budget>>

Resolvable(e) == expires[e] > 0 /\ IsFile(e)

(* A download resolves an identifier that was answered; one that does not  *)
(* resolve any more is discarded.                                          *)
Resolve(e) ==
    /\ call[e] = "answered" /\ RegistryFree
    /\ expires[e] # NoTime /\ ~Resolvable(e)
    /\ Discard(e)
    /\ UNCHANGED <<artifact, entry, call, awaited, timers, writer, reset, orphans,
                   resets, budget>>

-----------------------------------------------------------------------------
(* async_reset_database, inside the manager's pause, which excludes another *)

NoReset == reset \in {"idle", "raised"}

ResetDatabase ==
    /\ entry = "loaded" /\ NoReset /\ writer = NoWriter
    /\ Spend("reset")
    /\ reset' = "erased" /\ resets' = resets + 1
    /\ UNCHANGED <<artifact, entry, call, awaited, expires, files, timers, writer,
                   orphans>>

PathsOf(fs) == {p \in Paths : fs[p.id] # NoFile /\ fs[p.id].kind = p.kind}

\* A plausible bug of DiscardAll, used by a mutation run only.
FaultyDiscardAll ==
    /\ reset = "erased"
    /\ orphans' = {p \in PathsOf(files) : expires[p.id] = NoTime}
    /\ reset' = "unlinking"
    /\ UNCHANGED <<artifact, entry, call, awaited, expires, files, timers, writer,
                   resets, budget>>

(* discard_all unregisters everything and unlinks the .csv of each, then   *)
(* lists what cleanup_orphaned_files finds.                                *)
DiscardAll ==
    /\ reset = "erased"
    /\ expires' = [e \in Ids |-> NoTime]
    /\ files' = [e \in Ids |-> IF expires[e] # NoTime /\ IsFile(e)
                               THEN NoFile ELSE files[e]]
    /\ orphans' = PathsOf(files')
    /\ reset' = "unlinking"
    /\ UNCHANGED <<artifact, entry, call, awaited, timers, writer, resets, budget>>

(* path.unlink() raises when the file was renamed since it was listed.     *)
UnlinkOrphan ==
    /\ reset = "unlinking"
    /\ \E p \in orphans :
         IF p \in PathsOf(files)
         THEN /\ orphans' = orphans \ {p}
              /\ files' = [files EXCEPT ![p.id] = NoFile]
              /\ UNCHANGED reset
         ELSE orphans' = {} /\ reset' = "raised" /\ UNCHANGED files
    /\ UNCHANGED <<artifact, entry, call, awaited, expires, timers, writer, resets,
                   budget>>

ResetReturns ==
    /\ reset = "unlinking" /\ orphans = {}
    /\ reset' = "idle"
    /\ UNCHANGED <<artifact, entry, call, awaited, expires, files, timers, writer,
                   orphans, resets, budget>>

-----------------------------------------------------------------------------
(* The config entry and the process                                        *)

\* A plausible bug of SetUp, used by a mutation run only.
FaultySetUp ==
    /\ entry # "loaded"
    /\ entry' = "loaded"
    /\ expires' = [e \in Ids |-> NoTime]
    /\ files' = [e \in Ids |-> NoFile]
    /\ UNCHANGED <<artifact, call, awaited, timers, writer, reset, orphans, resets,
                   budget>>

(* _async_export_registry: only the first set-up of a process creates the  *)
(* registry, and removes every file of the process before it.              *)
SetUp ==
    /\ entry # "loaded"
    /\ entry' = "loaded"
    /\ files' = IF entry = "unloaded" THEN [e \in Ids |-> NoFile] ELSE files
    /\ UNCHANGED <<artifact, call, awaited, expires, timers, writer, reset,
                   orphans, resets, budget>>

(* The store closes once it is idle; calls still waiting for it end with    *)
(* StorageClosedError.                                                     *)
Unload ==
    /\ entry = "loaded" /\ writer = NoWriter /\ NoReset
    /\ Spend("reload")
    /\ entry' = "reloading"
    /\ call' = [e \in Ids |-> IF call[e] = "queued" THEN Outcome(e, "failing")
                              ELSE call[e]]
    /\ UNCHANGED <<artifact, awaited, expires, files, timers, writer, reset,
                   orphans, resets>>

(* The process ends anywhere; only the files remain.                       *)
Restart ==
    /\ Spend("crash")
    /\ entry' = "unloaded"
    /\ call' = [e \in Ids |-> IF call[e] = "idle" THEN "idle" ELSE "failed"]
    /\ awaited' = [e \in Ids |-> FALSE]
    /\ artifact' = [e \in Ids |-> NoTime]
    /\ expires' = [e \in Ids |-> NoTime]
    /\ timers' = [e \in Ids |-> NoTime]
    /\ writer' = NoWriter /\ reset' = "idle" /\ orphans' = {}
    /\ UNCHANGED <<files, resets>>

-----------------------------------------------------------------------------
Program(e) ==
    \/ BeginWrite(e) \/ FinishWrite(e) \/ Answer(e)
    \/ DiscardFailed(e) \/ RemoveAtExpiry(e)

Next ==
    \/ Tick \/ SetUp \/ Unload \/ Restart
    \/ ResetDatabase \/ DiscardAll \/ UnlinkOrphan \/ ResetReturns
    \/ \E e \in Ids :
         \/ Program(e) \/ Allocate(e) \/ FailWrite(e) \/ Cancel(e) \/ Resolve(e)

Spec == Init /\ [][Next]_vars

FairSpec ==
    /\ Spec
    /\ WF_vars(Tick) /\ WF_vars(SetUp)
    /\ WF_vars(DiscardAll) /\ WF_vars(UnlinkOrphan) /\ WF_vars(ResetReturns)
    /\ \A e \in Ids : WF_vars(Program(e))

-----------------------------------------------------------------------------
(* The types of the registry, the files and the calls; the time left until *)
(* an instant is never negative.                                           *)
TypeOK ==
    /\ resets \in Nat
    /\ entry \in {"unloaded", "loaded", "reloading"}
    /\ reset \in {"idle", "erased", "unlinking", "raised"}
    /\ call \in [Ids -> Calls] /\ awaited \in [Ids -> BOOLEAN]
    /\ artifact \in [Ids -> Nat \cup {NoTime}]
    /\ expires \in [Ids -> Nat \cup {NoTime}]
    /\ timers \in [Ids -> Nat \cup {NoTime}]
    /\ files \in [Ids -> Files \cup {NoFile}]
    /\ writer \in Ids \cup {NoWriter}
    /\ orphans \subseteq Paths
    /\ budget \in [Disturbances -> Nat]

(* Once reset_database has answered, no file on disk holds a row of the    *)
(* database it erased, whatever was being exported meanwhile, whoever gave *)
(* up waiting and whatever an earlier reset that raised has left behind.   *)
ResetErases ==
    reset = "idle" /\ entry # "unloaded" =>
        \A e \in Ids : files[e] # NoFile => files[e].content = resets

(* A URL that was answered can be downloaded until its expiry, over any    *)
(* number of reloads of the entry, unless a reset invalidated it.          *)
AnsweredUrlsResolve ==
    \A e \in Ids :
        call[e] = "answered" /\ artifact[e] > 0 /\ resets = 0 => Resolvable(e)

(* An answered export is removed from disk in the end: by its timer, by a  *)
(* reset, or by the first set-up of the next process; only one that a      *)
(* reset unregistered before its CSV was written escapes.                  *)
AnsweredFilesAreRemoved ==
    \A e \in Ids : call[e] = "answered" /\ expires[e] # NoTime ~> files[e] = NoFile

(* README.md:126, "Expired export files are removed": no file stays on     *)
(* disk for ever.                                                          *)
ExportFilesAreRemoved ==
    \A e \in Ids : (files[e] # NoFile) ~> (files[e] = NoFile)
=============================================================================
