-------------------------- MODULE KnowledgeLifecycle --------------------------
(***************************************************************************)
(* Shared Knowledge: the KnowledgeService of knowledge/service.py, the     *)
(* queries of repositories/knowledge.py and the routes and startup hook of *)
(* app.py that run them.                                                   *)
(*                                                                         *)
(* One upload is spread over three stores that nothing keeps in step: a    *)
(* row of knowledge_resources, the bytes staged on local disk and a file   *)
(* at the provider with its vector-store attachment.  A task is one call   *)
(* of the service on the event loop; its steps end where the code awaits.  *)
(* A crash loses the tasks and the BackgroundTasks that have not started,  *)
(* and leaves the three stores as they are.                                *)
(*                                                                         *)
(* Names, sizes, categories and error messages are left out;               *)
(* vector_store_file_id, always written with provider_file_id and to the   *)
(* same value, is "file" too.                                              *)
(***************************************************************************)
EXTENDS Naturals

CONSTANTS
    Resources,      \* rows uploads can create (a bound)
    Files,          \* provider file ids (a bound)
    Tasks,          \* calls of the service that may run together (a bound)
    Startup,        \* the call of recover_stale in the lifespan hook
    None,           \* no provider file, no resource
    Ops,            \* what administrators request in an instance
    Faults,         \* what else than a provider call may go wrong
    MaxCrashes      \* bound on the crashes of the process

ASSUME KnowledgeAssumption ==
    /\ Startup \notin Tasks
    /\ None \notin Files \cup Resources
    /\ Ops \subseteq {"upload", "retry", "delete"}
    /\ Faults \subseteq {"stage", "cleanup", "lost"}
    /\ MaxCrashes \in Nat

VARIABLES
    row,         \* knowledge_resources
    staged,      \* resources whose directory exists under staging_root
    stored,      \* files the provider keeps
    attachment,  \* status of a file in the vector store
    origin,      \* history: the resource a provider file was created for
    task,        \* the calls in progress
    pending,     \* ingests dispatched and not started
    up,          \* the process runs
    todo,        \* stale rows recover_stale has still to handle
    crashes      \* crashes so far

provider == <<stored, attachment, origin>>
process == <<up, crashes>>
vars == <<row, staged, provider, task, pending, process, todo>>

-----------------------------------------------------------------------------
(* Rows and tasks *)

Statuses == {"absent", "queued", "processing", "ready", "error",
             "deleting", "deleted"}

(* "path": metadata_json names the staging path. *)
Rows == [status : Statuses, file : Files \cup {None}, path : BOOLEAN]

NoRow == [status |-> "absent", file |-> None, path |-> FALSE]

(* "path" and "status" of a task are those of the row it loaded, "file" is *)
(* its provider file, "failed" says that _cleanup_provider reported an     *)
(* error and "abandon" that its caller ignores the report.                 *)
TaskRecords ==
    [op : {"none", "upload", "ingest", "retry", "delete", "recover"},
     pc : {"idle", "stage", "describe", "unstaged", "claim", "create",
           "record", "attach", "poll", "finish", "sweep", "detach", "remove",
           "cleaned", "mark", "reload", "requeue", "next", "retrieve"},
     res : Resources \cup {None}, status : Statuses,
     file : Files \cup {None}, path : BOOLEAN,
     failed : BOOLEAN, abandon : BOOLEAN]

NoTask == [op |-> "none", pc |-> "idle", res |-> None, status |-> "absent",
           file |-> None, path |-> FALSE, failed |-> FALSE, abandon |-> FALSE]

(* Rows, tasks and provider objects are well formed. *)
TypeOK ==
    /\ row \in [Resources -> Rows]
    /\ staged \subseteq Resources /\ stored \subseteq Files
    /\ attachment \in [Files -> {"none", "in_progress", "completed", "failed"}]
    /\ origin \in [Files -> Resources \cup {None}]
    /\ task \in [Tasks \cup {Startup} -> TaskRecords]
    /\ pending \subseteq Resources /\ todo \subseteq Resources
    /\ up \in BOOLEAN /\ crashes \in 0..MaxCrashes
    /\ \A t \in Tasks : task[t].pc # "idle" => task[t].res \in Resources

Init ==
    /\ row = [r \in Resources |-> NoRow]
    /\ staged = {} /\ stored = {}
    /\ attachment = [f \in Files |-> "none"]
    /\ origin = [f \in Files |-> None]
    /\ task = [t \in Tasks \cup {Startup} |-> NoTask]
    /\ pending = {} /\ todo = {}
    /\ up = TRUE /\ crashes = 0

-----------------------------------------------------------------------------
(* Helpers *)

(* The lifespan hook runs recover_stale before the first request. *)
Serving == up /\ task[Startup].pc = "idle"

At(t, op, pc) == task[t].op = op /\ task[t].pc = pc

(* Variant: the call does not carry its resource along. *)
BeginAnonymous(t, op, pc, r) ==
    task' = [task EXCEPT ![t] = [NoTask EXCEPT
                 !.op = op, !.pc = pc,
                 !.status = row[r].status, !.path = row[r].path]]

Begin(t, op, pc, r) ==
    task' = [task EXCEPT ![t] = [NoTask EXCEPT
                 !.op = op, !.pc = pc, !.res = r,
                 !.status = row[r].status, !.path = row[r].path]]

GoTo(t, pc) == task' = [task EXCEPT ![t].pc = pc]
End(t) == task' = [task EXCEPT ![t] = NoTask]

(* Variant: the row is there, whatever its status is by now. *)
CanTransitionAny(r, expected) == row[r].status # "absent"

(* transition(): the WHERE clause of its UPDATE. *)
CanTransition(r, expected) == row[r].status = expected

SetStatus(r, status) == row' = [row EXCEPT ![r].status = status]

(* Variant: nothing attached, nothing to clean up. *)
FirstOfCleanUpAttached(file) ==
    IF file = None THEN "cleaned"
    ELSE IF attachment[file] = "none" THEN "cleaned" ELSE "detach"

(* _cleanup_provider has nothing to do without a provider file. *)
FirstOfCleanUp(file) == IF file = None THEN "cleaned" ELSE "detach"

CleanUp(t, file, abandon) ==
    task' = [task EXCEPT ![t] = [@ EXCEPT
                 !.pc = FirstOfCleanUp(file),
                 !.file = file, !.abandon = abandon]]

-----------------------------------------------------------------------------
(* queue_upload *)

(* create_queued has committed, the bytes are not staged yet. *)
Upload(t, r) ==
    /\ "upload" \in Ops /\ Serving /\ task[t].pc = "idle"
    /\ row[r].status = "absent"
    /\ row' = [row EXCEPT ![r] = [NoRow EXCEPT !.status = "queued"]]
    /\ Begin(t, "upload", "stage", r)
    /\ UNCHANGED <<staged, provider, pending, process, todo>>

UploadStage(t) ==
    LET r == task[t].res
    IN  /\ At(t, "upload", "stage")
        /\ \/ staged' = staged \cup {r} /\ GoTo(t, "describe")
           \/ /\ "stage" \in Faults
              /\ staged' = staged \ {r} /\ GoTo(t, "unstaged")
        /\ UNCHANGED <<row, provider, pending, process, todo>>

(* Variant: the route answers and dispatches nothing. *)
UploadDescribeOnly(t) ==
    /\ At(t, "upload", "describe")
    /\ row' = [row EXCEPT ![task[t].res].path = TRUE]
    /\ End(t)
    /\ UNCHANGED <<staged, provider, pending, process, todo>>

(* force_update(metadata=...); then the 202 response and, after it, ingest *)
(* as a BackgroundTask.                                                    *)
UploadDescribe(t) ==
    LET r == task[t].res
    IN  /\ At(t, "upload", "describe")
        /\ row' = [row EXCEPT ![r].path = TRUE]
        /\ pending' = pending \cup {r}
        /\ End(t)
        /\ UNCHANGED <<staged, provider, process, todo>>

UploadUnstaged(t) ==
    /\ At(t, "upload", "unstaged")
    /\ SetStatus(task[t].res, "error")
    /\ End(t)
    /\ UNCHANGED <<staged, provider, pending, process, todo>>

-----------------------------------------------------------------------------
(* ingest *)

StartIngest(t, r) ==
    /\ up /\ task[t].pc = "idle" /\ r \in pending
    /\ pending' = pending \ {r}
    /\ IF row[r].status = "queued" THEN Begin(t, "ingest", "claim", r)
       ELSE UNCHANGED task
    /\ UNCHANGED <<row, staged, provider, process, todo>>

IngestClaim(t) ==
    LET r == task[t].res
    IN  /\ At(t, "ingest", "claim")
        /\ IF CanTransition(r, "queued")
           THEN SetStatus(r, "processing") /\ GoTo(t, "create")
           ELSE End(t) /\ UNCHANGED row
        /\ UNCHANGED <<staged, provider, pending, process, todo>>

(* files.create.  Its failure, like that of any later call, leads to the   *)
(* except clause; with "lost" the provider keeps a file whose id never     *)
(* came back.                                                              *)
IngestCreate(t) ==
    LET r == task[t].res
    IN  /\ At(t, "ingest", "create")
        /\ \/ \E f \in Files :
                /\ task[t].path /\ r \in staged /\ origin[f] = None
                /\ stored' = stored \cup {f}
                /\ origin' = [origin EXCEPT ![f] = r]
                /\ \/ task' = [task EXCEPT ![t] = [@ EXCEPT
                                   !.pc = "record", !.file = f]]
                   \/ "lost" \in Faults /\ CleanUp(t, None, FALSE)
           \/ CleanUp(t, None, FALSE) /\ UNCHANGED <<stored, origin>>
        /\ UNCHANGED <<row, staged, attachment, pending, process, todo>>

IngestRecord(t) ==
    LET r == task[t].res
        f == task[t].file
    IN  /\ At(t, "ingest", "record")
        /\ IF CanTransition(r, "processing")
           THEN row' = [row EXCEPT ![r].file = f] /\ GoTo(t, "attach")
           ELSE CleanUp(t, f, TRUE) /\ UNCHANGED row
        /\ UNCHANGED <<staged, provider, pending, process, todo>>

IngestAttach(t) ==
    LET f == task[t].file
    IN  /\ At(t, "ingest", "attach")
        /\ \/ /\ f \in stored
              /\ attachment' = [attachment EXCEPT ![f] = "in_progress"]
              /\ GoTo(t, "poll")
           \/ CleanUp(t, f, FALSE) /\ UNCHANGED attachment
        /\ UNCHANGED <<row, staged, stored, origin, pending, process, todo>>

(* Variant: an attachment that is no longer in progress is a success. *)
PolledAnyFinal(f) == attachment[f] \notin {"none", "in_progress"}

PolledCompleted(f) == attachment[f] = "completed"

(* _poll until the attachment is final, retrieve raises or the time is up. *)
IngestPoll(t) ==
    LET f == task[t].file
    IN  /\ At(t, "ingest", "poll")
        /\ \/ PolledCompleted(f) /\ GoTo(t, "finish")
           \/ CleanUp(t, f, FALSE)
        /\ UNCHANGED <<row, staged, provider, pending, process, todo>>

IngestFinish(t) ==
    LET r == task[t].res
        f == task[t].file
    IN  /\ At(t, "ingest", "finish")
        /\ IF CanTransition(r, "processing")
           THEN /\ row' = [row EXCEPT ![r] =
                       [status |-> "ready", file |-> f, path |-> FALSE]]
                /\ GoTo(t, "sweep")
           ELSE CleanUp(t, f, TRUE) /\ UNCHANGED row
        /\ UNCHANGED <<staged, provider, pending, process, todo>>

IngestSweep(t) ==
    /\ At(t, "ingest", "sweep")
    /\ staged' = staged \ {task[t].res}
    /\ End(t)
    /\ UNCHANGED <<row, provider, pending, process, todo>>

(* Variant: the provider id is dropped whatever the clean-up reported. *)
IngestCleanedForgetting(t) ==
    LET r == task[t].res
    IN  /\ At(t, "ingest", "cleaned")
        /\ IF ~task[t].abandon /\ CanTransition(r, "processing")
           THEN row' = [row EXCEPT ![r] =
                           [@ EXCEPT !.status = "error", !.file = None]]
           ELSE UNCHANGED row
        /\ End(t)
        /\ UNCHANGED <<staged, provider, pending, process, todo>>

(* Variant: the except clause removes the staged bytes with the file. *)
IngestCleanedSweeping(t) ==
    LET r == task[t].res
        kept == IF task[t].failed THEN task[t].file ELSE None
    IN  /\ At(t, "ingest", "cleaned")
        /\ IF ~task[t].abandon /\ CanTransition(r, "processing")
           THEN row' = [row EXCEPT ![r] =
                           [@ EXCEPT !.status = "error", !.file = kept]]
           ELSE UNCHANGED row
        /\ staged' = staged \ {r}
        /\ End(t)
        /\ UNCHANGED <<provider, pending, process, todo>>

(* The except clause; an abandoned resource is left to whoever took it. *)
IngestCleaned(t) ==
    LET r == task[t].res
        kept == IF task[t].failed THEN task[t].file ELSE None
    IN  /\ At(t, "ingest", "cleaned")
        /\ IF ~task[t].abandon /\ CanTransition(r, "processing")
           THEN row' = [row EXCEPT ![r] =
                           [@ EXCEPT !.status = "error", !.file = kept]]
           ELSE UNCHANGED row
        /\ End(t)
        /\ UNCHANGED <<staged, provider, pending, process, todo>>

-----------------------------------------------------------------------------
(* _cleanup_provider: detach, then delete the file.  Each call may raise   *)
(* before or after it took effect; what is not there counts as removed.    *)

Detach(t) ==
    LET gone == [attachment EXCEPT ![task[t].file] = "none"]
    IN  /\ task[t].pc = "detach"
        /\ \/ attachment' = gone /\ GoTo(t, "remove")
           \/ /\ "cleanup" \in Faults
              /\ attachment' \in {attachment, gone}
              /\ task' = [task EXCEPT ![t] = [@ EXCEPT
                              !.pc = "remove", !.failed = TRUE]]
        /\ UNCHANGED <<row, staged, stored, origin, pending, process, todo>>

Remove(t) ==
    LET gone == stored \ {task[t].file}
    IN  /\ task[t].pc = "remove"
        /\ \/ stored' = gone /\ GoTo(t, "cleaned")
           \/ /\ "cleanup" \in Faults
              /\ stored' \in {stored, gone}
              /\ task' = [task EXCEPT ![t] = [@ EXCEPT
                              !.pc = "cleaned", !.failed = TRUE]]
        /\ UNCHANGED <<row, staged, attachment, origin, pending, process,
                       todo>>

-----------------------------------------------------------------------------
(* retry *)

Retryable(r) == row[r].status = "error" /\ row[r].file = None

Retry(t, r) ==
    /\ "retry" \in Ops /\ Serving /\ task[t].pc = "idle"
    /\ Retryable(r)
    /\ Begin(t, "retry", "requeue", r)
    /\ UNCHANGED <<row, staged, provider, pending, process, todo>>

(* The route dispatches ingest only when retry returned True. *)
RetryRequeue(t) ==
    LET r == task[t].res
    IN  /\ At(t, "retry", "requeue")
        /\ IF CanTransition(r, "error")
           THEN SetStatus(r, "queued") /\ pending' = pending \cup {r}
           ELSE UNCHANGED <<row, pending>>
        /\ End(t)
        /\ UNCHANGED <<staged, provider, process, todo>>

-----------------------------------------------------------------------------
(* delete *)

(* Variant: an interrupted upload may be deleted too. *)
AnyDeletable(r) == row[r].status \notin {"absent", "deleted"}

(* A row that is being ingested is refused, a deleted one needs nothing. *)
Deletable(r) == row[r].status \notin {"absent", "deleted", "processing"}

Delete(t, r) ==
    /\ "delete" \in Ops /\ Serving /\ task[t].pc = "idle"
    /\ Deletable(r)
    /\ IF row[r].status = "deleting"
       THEN task' = [task EXCEPT ![t] = [NoTask EXCEPT
                !.op = "delete", !.res = r, !.status = "deleting",
                !.path = row[r].path, !.file = row[r].file,
                !.pc = FirstOfCleanUp(row[r].file)]]
       ELSE Begin(t, "delete", "mark", r)
    /\ UNCHANGED <<row, staged, provider, pending, process, todo>>

DeleteMark(t) ==
    LET r == task[t].res
    IN  /\ At(t, "delete", "mark")
        /\ IF CanTransition(r, task[t].status)
           THEN SetStatus(r, "deleting") /\ GoTo(t, "reload")
           ELSE End(t) /\ UNCHANGED row
        /\ UNCHANGED <<staged, provider, pending, process, todo>>

DeleteReload(t) ==
    LET r == task[t].res
    IN  /\ At(t, "delete", "reload")
        /\ task' = [task EXCEPT ![t] = [@ EXCEPT
               !.status = row[r].status, !.path = row[r].path,
               !.file = row[r].file,
               !.pc = FirstOfCleanUp(row[r].file)]]
        /\ UNCHANGED <<row, staged, provider, pending, process, todo>>

(* rmtree and the write of force_update are one step: in between the row   *)
(* is deleting, and nothing reads the bytes of a deleting row.             *)
DeleteCleaned(t) ==
    LET r == task[t].res
    IN  /\ At(t, "delete", "cleaned")
        /\ IF task[t].failed
           THEN SetStatus(r, "deleting") /\ UNCHANGED staged
           ELSE /\ row' = [row EXCEPT ![r] = [NoRow EXCEPT
                               !.status = "deleted"]]
                /\ staged' = IF task[t].path THEN staged \ {r} ELSE staged
        /\ End(t)
        /\ UNCHANGED <<provider, pending, process, todo>>

-----------------------------------------------------------------------------
(* Crash, restart and recover_stale *)

Crash ==
    /\ up /\ crashes < MaxCrashes
    /\ up' = FALSE /\ crashes' = crashes + 1
    /\ task' = [t \in Tasks \cup {Startup} |-> NoTask]
    /\ pending' = {} /\ todo' = {}
    /\ UNCHANGED <<row, staged, provider>>

(* The rows last written five minutes ago or earlier: any set of the       *)
(* processing ones, for the restart may come sooner or later than that.    *)
StaleSets == SUBSET {r \in Resources : row[r].status = "processing"}

(* Both lists are read before anything else runs; the queued rows are      *)
(* dispatched at once, the stale ones handled one by one.                  *)
Restart ==
    /\ ~up /\ up' = TRUE
    /\ todo' \in StaleSets
    /\ pending' = {r \in Resources : row[r].status = "queued"}
    /\ task' = [task EXCEPT ![Startup] = [NoTask EXCEPT
                    !.op = "recover", !.pc = "next"]]
    /\ UNCHANGED <<row, staged, provider, crashes>>

(* A row without a provider id is queued again, and dispatched by nobody.  *)
RecoverNext(r) ==
    /\ At(Startup, "recover", "next") /\ r \in todo
    /\ IF row[r].file = None
       THEN SetStatus(r, "queued") /\ todo' = todo \ {r} /\ UNCHANGED task
       ELSE /\ task' = [task EXCEPT ![Startup] = [@ EXCEPT
                   !.pc = "retrieve", !.res = r, !.file = row[r].file,
                   !.path = row[r].path, !.failed = FALSE]]
            /\ UNCHANGED <<row, todo>>
    /\ UNCHANGED <<staged, provider, pending, process>>

(* Nothing but recover_stale writes a row in todo, so that retrieve, _poll *)
(* and force_update are one step.                                          *)
RecoverResolve ==
    LET r == task[Startup].res
        f == task[Startup].file
    IN  /\ At(Startup, "recover", "retrieve")
        /\ \/ /\ PolledCompleted(f)
              /\ row' = [row EXCEPT ![r] = [@ EXCEPT
                            !.status = "ready", !.path = FALSE]]
              /\ GoTo(Startup, "sweep")
              /\ UNCHANGED todo
           \/ /\ attachment[f] = "failed"
              /\ SetStatus(r, "error")
              /\ GoTo(Startup, "next") /\ todo' = todo \ {r}
           \/ /\ attachment[f] = "none"
              /\ CleanUp(Startup, f, FALSE)
              /\ UNCHANGED <<row, todo>>
        /\ UNCHANGED <<staged, provider, pending, process>>

RecoverSweep ==
    LET r == task[Startup].res
    IN  /\ At(Startup, "recover", "sweep")
        /\ staged' = IF task[Startup].path THEN staged \ {r} ELSE staged
        /\ GoTo(Startup, "next") /\ todo' = todo \ {r}
        /\ UNCHANGED <<row, provider, pending, process>>

RecoverCleaned ==
    LET r == task[Startup].res
    IN  /\ At(Startup, "recover", "cleaned")
        /\ IF task[Startup].failed
           THEN SetStatus(r, "error")
           ELSE row' = [row EXCEPT ![r] = [@ EXCEPT
                           !.status = "queued", !.file = None]]
        /\ GoTo(Startup, "next") /\ todo' = todo \ {r}
        /\ UNCHANGED <<staged, provider, pending, process>>

(* Nothing is left to do; or retrieve raised or the poll timed out, which  *)
(* ends the recovery of every row behind this one.                         *)
RecoverEnd ==
    /\ \/ At(Startup, "recover", "next") /\ todo = {}
       \/ At(Startup, "recover", "retrieve")
    /\ End(Startup) /\ todo' = {}
    /\ UNCHANGED <<row, staged, provider, pending, process>>

(* The provider indexes an attached file, or gives up on it. *)
Settle(f) ==
    /\ attachment[f] = "in_progress"
    /\ \E s \in {"completed", "failed"} :
           attachment' = [attachment EXCEPT ![f] = s]
    /\ UNCHANGED <<row, staged, stored, origin, task, pending, process, todo>>

-----------------------------------------------------------------------------

Ingest(t) ==
    \/ IngestClaim(t) \/ IngestCreate(t) \/ IngestRecord(t)
    \/ IngestAttach(t) \/ IngestPoll(t) \/ IngestFinish(t)
    \/ IngestSweep(t) \/ IngestCleaned(t)

(* The next step of a call in progress. *)
Progress(t) ==
    \/ UploadStage(t) \/ UploadDescribe(t) \/ UploadUnstaged(t)
    \/ Ingest(t) \/ Detach(t) \/ Remove(t) \/ RetryRequeue(t)
    \/ DeleteMark(t) \/ DeleteReload(t) \/ DeleteCleaned(t)

Recover ==
    \/ \E r \in Resources : RecoverNext(r)
    \/ RecoverResolve \/ RecoverSweep \/ RecoverCleaned \/ RecoverEnd
    \/ Detach(Startup) \/ Remove(Startup)

Request(t, r) == Upload(t, r) \/ Retry(t, r) \/ Delete(t, r)

Next ==
    \/ \E t \in Tasks :
         \/ Progress(t)
         \/ \E r \in Resources : Request(t, r) \/ StartIngest(t, r)
    \/ Recover \/ Crash \/ Restart
    \/ \E f \in Files : Settle(f)

Spec == Init /\ [][Next]_vars

(* The event loop runs every task to its next await and starts what was    *)
(* dispatched; a bound on tasks must not starve an ingest, hence SF.       *)
FairSpec ==
    /\ Spec
    /\ \A t \in Tasks : WF_vars(Progress(t))
    /\ WF_vars(Recover) /\ WF_vars(Restart)
    /\ \A r \in Resources : SF_vars(\E t \in Tasks : StartIngest(t, r))

-----------------------------------------------------------------------------
(* Properties *)

(* A resource the Knowledge page shows as ready is searchable: whatever    *)
(* crashed, raced or failed, its file is indexed in the vector store.      *)
ReadyIsSearchable ==
    \A r \in Resources : row[r].status = "ready" =>
        row[r].file # None /\ attachment[row[r].file] = "completed"

(* t is an ingest that has claimed r with its compare-and-set. *)
HasClaimed(t, r) ==
    /\ task[t].op = "ingest" /\ task[t].res = r
    /\ task[t].pc \in {"create", "record", "attach", "poll", "finish",
                       "detach", "remove", "cleaned"}

(* While an ingest is at work no one else moves its row, and no two work   *)
(* on one row: delete refuses it, retry and recovery do not see it.        *)
IngestOwnsRow ==
    \A t \in Tasks : \A r \in Resources : HasClaimed(t, r) =>
        /\ row[r].status = "processing" /\ ~task[t].abandon
        /\ \A u \in Tasks \ {t} : ~HasClaimed(u, r)

(* Persist first: a row forgets a provider file only when that file has    *)
(* been deleted at the provider.                                           *)
CleanedBeforeForgotten ==
    [][\A r \in Resources :
          row[r].file # None /\ row'[r].file # row[r].file
              => row[r].file \notin stored']_vars

(* Deleting a resource deletes the files uploaded for it, also those of    *)
(* its earlier failed attempts: as long as the process does not crash, no  *)
(* answer of files.create is lost, and either clean-ups work or no retry   *)
(* starts an ingest behind a file that could not be cleaned up.            *)
DeletedLeavesNoFile ==
    \A r \in Resources : row[r].status = "deleted" =>
        \A f \in stored : origin[f] # r

(* The staged bytes are removed in steps of their own, after the commit    *)
(* that made them needless.  None of these removals, however late, takes   *)
(* the bytes a queued, processing or retryable row still has to send.      *)
StagedForIngest ==
    \A r \in Resources :
        row[r].path /\ row[r].status \in {"queued", "processing", "error"}
            => r \in staged

(* What becomes of an upload, and whether the provider keeps a file of it. *)
Progression(r) ==
    CASE row[r].status = "absent" -> "absent"
      [] row[r].status \in {"queued", "processing"} -> "pending"
      [] row[r].status = "ready" -> "searchable"
      [] row[r].status = "error" -> "rejected"
      [] row[r].status = "deleting" -> "withdrawn"
      [] row[r].status = "deleted" -> "removed"

Kept(r) == \E f \in stored : origin[f] = r

(* As long as nothing but the provider's own answers fails, each resource  *)
(* behaves as KnowledgeContract promises, whichever requests, ingests and  *)
(* late writes overlap: no file is kept for a resource that failed or is   *)
(* deleted, and no write brings a deleted or published one back.           *)
Contract(r) == INSTANCE KnowledgeContract
    WITH state <- Progression(r), kept <- Kept(r)

ContractSpec ==
    /\ \A r \in Resources : Contract(r)!Init
    /\ [][\A r \in Resources : [Contract(r)!Next]_(Contract(r)!vars)]_vars

(* An accepted upload does not stay queued or processing forever. *)
UploadSettles ==
    \A r \in Resources :
        row[r].status \in {"queued", "processing"}
            ~> row[r].status \notin {"queued", "processing"}

(* retry requeues only a fully cleaned error resource. *)
RetryOnlyCleaned ==
    [][\A r \in Resources :
          row[r].status = "error" /\ row'[r].status = "queued"
              => row[r].file = None]_vars

(* "ready -> deleting -> deleted", "error -> deleting -> deleted": what    *)
(* fails meanwhile, nothing leads back out of a deletion but the upload of *)
(* that row, when it could not stage its bytes.                            *)
DeletionIsFinal ==
    [][\A r \in Resources :
          row[r].status \in {"deleting", "deleted"} =>
              \/ row'[r].status \in {"deleting", "deleted"}
              \/ \E t \in Tasks : UploadUnstaged(t) /\ task[t].res = r]_vars

(* Once a restart has recovered, a row is processing only while a call     *)
(* processes it; the others are queued, error or final, and recoverable.   *)
RestartLeavesRecoverable ==
    Serving => \A r \in Resources : row[r].status = "processing" =>
        \E t \in Tasks : HasClaimed(t, r)

=============================================================================
