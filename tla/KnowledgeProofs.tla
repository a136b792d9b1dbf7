---------------------------- MODULE KnowledgeProofs ----------------------------
(***************************************************************************)
(* Proofs about KnowledgeLifecycle, for any resources, provider files,     *)
(* tasks and crashes.  One resource is one world: a task touches the row   *)
(* and the files of its own resource alone.  In that world the row's       *)
(* status says who may be at work on it, and the proof is that the tasks   *)
(* which do not ask the row again rely on a status that no one else takes  *)
(* away from them.                                                         *)
(***************************************************************************)
EXTENDS KnowledgeLifecycle, TLAPS

(* The write of an upload that could not be staged asks for no status: it  *)
(* may bring a row back that is being deleted, and a retry may then hand   *)
(* it to an ingest while the deletion is still at work.  Such an ingest    *)
(* may lose its row, but its row names no staged bytes, and it never comes *)
(* further than files.create.                                              *)
Orderly == "stage" \in Faults => ~({"retry", "delete"} \subseteq Ops)

(* A row requeued by a retry that came too late has a file already.        *)
Tidy == ~("cleanup" \in Faults /\ "retry" \in Ops)

AllTasks == Tasks \cup {Startup}

(* The calls that follow each other in one operation. *)
Pcs(op) ==
    CASE op = "none" -> {"idle"}
      [] op = "upload" -> {"stage", "describe", "unstaged"}
      [] op = "ingest" -> {"claim", "create", "record", "attach", "poll",
                           "finish", "detach", "remove", "cleaned", "sweep"}
      [] op = "retry" -> {"requeue"}
      [] op = "delete" -> {"mark", "reload", "detach", "remove", "cleaned"}
      [] op = "recover" -> {"next", "retrieve", "detach", "remove", "cleaned",
                            "sweep"}

(* What a task may be, and which provider file it may name. *)
KindOf(t) ==
    LET k == task[t]
    IN  /\ k.pc \in Pcs(k.op) /\ (k.op = "none" => k = NoTask)
        /\ (k.op = "recover" => t = Startup)
        /\ (t = Startup => k.op \in {"none", "recover"})
        /\ (k.op = "retry" => "retry" \in Ops)
        /\ (k.op = "delete" => "delete" \in Ops)
        /\ (k.pc = "unstaged" => "stage" \in Faults)
        /\ (k.pc = "claim" => k.file = None /\ ~k.failed /\ ~k.abandon)
        /\ (k.failed => "cleanup" \in Faults)

FileOf(t) ==
    LET k == task[t]
    IN  /\ k.file # None => k.res \in Resources /\ origin[k.file] = k.res
        /\ k.pc \in {"record", "attach", "poll", "finish", "detach", "remove",
                     "retrieve"} => k.file # None
        /\ k.pc = "cleaned" /\ ~k.failed /\ k.file # None => k.file \notin stored

(* The statuses from which an ingest can still come about. *)
Working == {"queued", "processing", "error"}

(* An upload is alone with its row, but for its deletion. *)
UploadOf(t) ==
    LET r == task[t].res
    IN  task[t].op = "upload" =>
          /\ row[r].status \in {"queued", "deleting", "deleted"}
          /\ row[r].file = None /\ ~row[r].path /\ r \notin pending
          /\ \A u \in Tasks \ {t} : task[u].res = r =>
                task[u].op = "delete" /\ (row[r].status = "queued" => task[u].pc = "mark")

(* An ingest that has bytes to send. *)
Sound(t) == task[t].path \/ Orderly

(* It keeps the row that it has claimed to its end. *)
IngestOf(t) ==
    LET k == task[t]
        w == row[k.res]
    IN  /\ k.op = "ingest" /\ w.status \in Working => w.path = k.path
        /\ HasClaimed(t, k.res) /\ Sound(t) =>
              /\ w.status = "processing" /\ ~k.abandon
              /\ \A u \in Tasks \ {t} : ~HasClaimed(u, k.res)
              /\ k.pc \in {"attach", "poll", "finish"} => w.file = k.file
              /\ k.pc = "finish" => attachment[k.file] = "completed"
              /\ Tidy /\ k.pc \in {"create", "record"} => w.file = None
              /\ Tidy /\ k.pc \in {"detach", "remove", "cleaned"} => w.file = k.file
        /\ HasClaimed(t, k.res) /\ ~k.path =>
              /\ k.pc \in {"create", "cleaned"} /\ k.file = None /\ ~k.failed /\ ~k.abandon

(* A deletion that has marked its row. *)
Withdraws(t, r) ==
    /\ task[t].op = "delete" /\ task[t].res = r /\ task[t].pc # "mark"

(* A row that an upload without bytes has brought back. *)
Bare(r) ==
    /\ row[r].status \in Working /\ ~row[r].path /\ "stage" \in Faults
    /\ row[r].status = "error" \/ ~Orderly

DeleteOf(t) ==
    LET k == task[t]
        w == row[k.res]
    IN  /\ k.op = "delete" /\ k.pc = "mark" =>
              k.status \notin {"absent", "processing"}
        /\ Withdraws(t, k.res) =>
              /\ w.status \in {"deleting", "deleted"} \/ Bare(k.res)
              /\ k.pc # "reload" => w.file \in {k.file, None}

RetryOf(t) ==
    LET w == row[task[t].res]
    IN  task[t].op = "retry" /\ Tidy /\ w.status = "error" => w.file = None

(* A row, and who knows of it. *)
RowOf(r) ==
    LET w == row[r]
    IN  /\ w.file # None => origin[w.file] = r
        /\ w.status = "absent" =>
              w = NoRow /\ r \notin pending /\ \A t \in Tasks : task[t].res # r
        /\ w.status = "ready" => w.file # None /\ attachment[w.file] = "completed"
        /\ w.status \in Working /\ ~w.path => w.file = None
        /\ Tidy /\ w.status = "queued" => w.file = None

(* Recovery works on rows that nobody else knows of. *)
Recovery ==
    LET k == task[Startup]
    IN  /\ k.op = "none" => todo = {}
        /\ k.op = "recover" =>
              /\ up /\ pending \cap todo = {}
              /\ \A t \in Tasks : task[t].op \in {"none", "ingest"} /\ task[t].res \notin todo
              /\ \A r \in todo : \/ row[r].status = "processing"
                                 \/ k.pc = "sweep" /\ k.res = r
              /\ k.pc # "next" => k.res \in todo
              /\ k.pc \notin {"next", "sweep"} => row[k.res].file = k.file
        /\ ~up => pending = {} /\ \A t \in AllTasks : task[t] = NoTask

IInv ==
    /\ TypeOK
    /\ \A t \in AllTasks : KindOf(t) /\ FileOf(t)
    /\ \A t \in Tasks : UploadOf(t) /\ IngestOf(t) /\ DeleteOf(t) /\ RetryOf(t)
    /\ \A r \in Resources : RowOf(r)
    /\ Recovery

-----------------------------------------------------------------------------
(* What a step of one task about one resource must show *)

(* The rows and files of other resources are left alone, and the provider  *)
(* keeps a file that it did not keep only if it is a new one.              *)
Moved(r) ==
    /\ \A q \in Resources \ {r} :
          row'[q] = row[q] /\ (q \in pending' => q \in pending)
    /\ \A f \in Files :
          /\ origin[f] # None => origin'[f] = origin[f]
          /\ origin[f] \notin {None, r} => attachment'[f] = attachment[f]
          /\ f \in stored' => f \in stored \/ origin[f] = None

(* What the other tasks of the resource rely on. *)
UploadLeft(t, r) ==
    (\E u \in Tasks \ {t} : task[u].op = "upload" /\ task[u].res = r) =>
        /\ row'[r].status \in {"queued", "deleting", "deleted"}
        /\ row'[r].file = None /\ ~row'[r].path /\ r \notin pending'
        /\ row'[r].status = "queued" => row[r].status = "queued"
        /\ task'[t].res = r =>
              task'[t].op = "delete" /\ (row'[r].status = "queued" => task'[t].pc = "mark")

PathLeft(t, r) ==
    /\ \E u \in Tasks \ {t} : task[u].op = "ingest" /\ task[u].res = r
    /\ row'[r].status \in Working
    => row[r].status \in Working /\ row'[r].path = row[r].path

IngestLeft(t, r) ==
    (\E u \in Tasks \ {t} : HasClaimed(u, r) /\ Sound(u)) =>
        /\ row'[r] = row[r] /\ attachment' = attachment
        /\ ~(t \in Tasks /\ HasClaimed(t, r)')

DeleteLeft(t, r) ==
    (\E u \in Tasks \ {t} : Withdraws(u, r)) =>
        /\ row'[r].status \in {"deleting", "deleted"} \/ Bare(r)'
        /\ row'[r].file \in {row[r].file, None}

RetryLeft(t, r) ==
    /\ \E u \in Tasks \ {t} : task[u].op = "retry" /\ task[u].res = r
    /\ Tidy /\ row'[r].status = "error"
    => row'[r].file = None

OthersLeft(t, r) ==
    /\ UploadLeft(t, r) /\ PathLeft(t, r) /\ IngestLeft(t, r)
    /\ DeleteLeft(t, r) /\ RetryLeft(t, r)

OwnOf(t) == UploadOf(t) /\ IngestOf(t) /\ DeleteOf(t) /\ RetryOf(t)

StepOK(t, r) ==
    /\ TypeOK' /\ \A u \in AllTasks \ {t} : task'[u] = task[u]
    /\ (t \in Tasks => task'[t].res \in {r, None}) /\ Moved(r) /\ OthersLeft(t, r)
    /\ KindOf(t)' /\ FileOf(t)' /\ (t \in Tasks => OwnOf(t)')
    /\ RowOf(r)' /\ Recovery'

LEMMA Parts ==
    ASSUME IInv
    PROVE  /\ TypeOK /\ Recovery
           /\ \A t \in AllTasks : /\ KindOf(t) /\ FileOf(t) /\ task[t] \in TaskRecords
           /\ \A t \in Tasks : /\ UploadOf(t) /\ IngestOf(t) /\ DeleteOf(t) /\ RetryOf(t)
                               /\ t \in AllTasks /\ t # Startup
           /\ \A r \in Resources : RowOf(r) /\ row[r] \in Rows /\ r # None
           /\ \A f \in Files : f # None
           /\ Startup \in AllTasks
BY KnowledgeAssumption DEF IInv, TypeOK, AllTasks

LEMMA StepSuffices ==
    ASSUME IInv, NEW t \in AllTasks, NEW r \in Resources, StepOK(t, r)
    PROVE  IInv'
<1>0. /\ TypeOK' /\ \A u \in AllTasks \ {t} : task'[u] = task[u]
      /\ (t \in Tasks => task'[t].res \in {r, None}) /\ Moved(r)
  BY DEF StepOK
<1>1. ASSUME NEW u \in AllTasks \ {t}
      PROVE  KindOf(u)' /\ FileOf(u)'
  <2>1. task'[u] = task[u] /\ KindOf(u) /\ FileOf(u) /\ task[u] \in TaskRecords
    BY <1>0, Parts
  <2>2. KindOf(u)'
    BY <2>1 DEF KindOf
  <2>3. task[u].file # None =>
           /\ task[u].file \in Files /\ origin'[task[u].file] = task[u].res
           /\ task[u].file \in stored' => task[u].file \in stored
    <3>1. ASSUME task[u].file # None
          PROVE  /\ task[u].file \in Files /\ origin[task[u].file] # None
                 /\ origin[task[u].file] = task[u].res
      BY <2>1, <3>1, Parts DEF FileOf, TaskRecords, KindOf, NoTask
    <3> QED
      BY <1>0, <3>1 DEF Moved
  <2>4. FileOf(u)'
    BY <2>1, <2>3 DEF FileOf
  <2> QED
    BY <2>2, <2>4
<1>2. ASSUME NEW u \in Tasks \ {t}
      PROVE  OwnOf(u)'
  <2> DEFINE q == task[u].res
  <2>0. /\ task'[u] = task[u] /\ task[u] \in TaskRecords /\ OwnOf(u)
        /\ KindOf(u) /\ FileOf(u) /\ q \in Resources \cup {None}
        /\ task[u].op # "none" => q \in Resources
    <3>1. /\ u \in AllTasks /\ task[u] \in TaskRecords /\ OwnOf(u) /\ KindOf(u) /\ FileOf(u)
          /\ task[u].pc # "idle" => q \in Resources
      BY Parts DEF OwnOf, TypeOK
    <3>2. task[u].op # "none" => task[u].pc # "idle"
      BY <3>1 DEF KindOf, Pcs, TaskRecords
    <3> QED
      BY <1>0, <3>1, <3>2 DEF TaskRecords
  <2>1. CASE task[u].op = "none"
    BY <2>0, <2>1 DEF OwnOf, UploadOf, IngestOf, DeleteOf, RetryOf, HasClaimed, Withdraws
  <2>2. CASE task[u].op # "none" /\ q # r
    <3>1. /\ q \in Resources \ {r} /\ row'[q] = row[q] /\ (q \in pending' => q \in pending)
      BY <1>0, <2>0, <2>2 DEF Moved
    <3>2. t \in Tasks => task'[t].res # q
      BY <1>0, <2>2, <3>1, Parts
    <3>3. \A v \in Tasks \ {u} : task'[v].res = q => task'[v] = task[v]
      BY <1>0, <3>2 DEF AllTasks
    <3>4. UploadOf(u)'
      BY <2>0, <3>1, <3>3 DEF OwnOf, UploadOf
    <3>5. IngestOf(u)'
      <4>1. HasClaimed(u, q)' => HasClaimed(u, q)
        BY <2>0 DEF HasClaimed
      <4>2. \A v \in Tasks \ {u} : HasClaimed(v, q)' => HasClaimed(v, q)
        BY <2>0, <3>3 DEF HasClaimed
      <4>3. task[u].pc = "finish" => attachment'[task[u].file] = attachment[task[u].file]
        <5>1. task[u].pc = "finish" => task[u].file \in Files /\ origin[task[u].file] = q
          BY <2>0 DEF FileOf, TaskRecords
        <5> QED
          BY <1>0, <3>1, <5>1, Parts DEF Moved
      <4>4. row'[task'[u].res] = row[q] /\ (Sound(u)' => Sound(u)) /\ task'[u].res = q
        BY <2>0, <3>1 DEF Sound
      <4>5. task'[u].op = "ingest" /\ row'[q].status \in Working => row'[q].path = task'[u].path
        BY <2>0, <4>4 DEF OwnOf, IngestOf
      <4>6. ASSUME HasClaimed(u, q), Sound(u)
            PROVE  IngestOf(u)'
        BY <2>0, <4>2, <4>3, <4>4, <4>5, <4>6 DEF OwnOf, IngestOf
      <4>7. CASE ~(HasClaimed(u, q) /\ Sound(u))
        BY <2>0, <4>1, <4>4, <4>5, <4>7 DEF OwnOf, IngestOf
      <4> QED
        BY <4>6, <4>7
    <3>6. DeleteOf(u)' /\ RetryOf(u)'
      BY <2>0, <3>1 DEF OwnOf, DeleteOf, RetryOf, Withdraws, Bare
    <3> QED
      BY <3>4, <3>5, <3>6 DEF OwnOf
  <2>3. CASE task[u].op # "none" /\ q = r
    <3>0. OthersLeft(t, r) /\ task[u].res = r
      BY <2>3 DEF StepOK
    <3>1. UploadOf(u)'
      <4>1. ASSUME task[u].op = "upload", NEW v \in Tasks \ {u}, task'[v].res = r
            PROVE  /\ task'[v].op = "delete"
                   /\ row'[r].status = "queued" => task'[v].pc = "mark"
        <5>1. UploadLeft(t, r) /\ (row'[r].status = "queued" => row[r].status = "queued")
          BY <3>0, <4>1 DEF OthersLeft, UploadLeft
        <5>2. CASE v = t
          BY <3>0, <4>1, <5>1, <5>2 DEF UploadLeft
        <5>3. CASE v # t
          BY <1>0, <2>0, <3>0, <4>1, <5>1, <5>3 DEF OwnOf, UploadOf, AllTasks
        <5> QED
          BY <5>2, <5>3
      <4> QED
        BY <2>0, <3>0, <4>1 DEF UploadOf, OthersLeft, UploadLeft
    <3>2. IngestOf(u)'
      <4>1. task'[u].op = "ingest" /\ row'[r].status \in Working => row'[r].path = task'[u].path
        BY <2>0, <3>0 DEF OwnOf, IngestOf, OthersLeft, PathLeft
      <4>2. HasClaimed(u, r)' => HasClaimed(u, r)
        BY <2>0 DEF HasClaimed
      <4>3. ASSUME HasClaimed(u, r), Sound(u)
            PROVE  IngestOf(u)'
        <5>1. row'[r] = row[r] /\ attachment' = attachment /\ ~(t \in Tasks /\ HasClaimed(t, r)')
          BY <3>0, <4>3 DEF OthersLeft, IngestLeft
        <5>2. ASSUME NEW v \in Tasks \ {u}, v # t
              PROVE  ~HasClaimed(v, r)'
          BY <1>0, <2>0, <3>0, <4>3, <5>2 DEF OwnOf, IngestOf, HasClaimed, AllTasks
        <5>3. \A v \in Tasks \ {u} : ~HasClaimed(v, r)'
          BY <5>1, <5>2
        <5> QED
          BY <2>0, <3>0, <4>1, <4>3, <5>1, <5>3 DEF OwnOf, IngestOf
      <4>4. CASE ~(HasClaimed(u, r) /\ Sound(u))
        BY <2>0, <3>0, <4>1, <4>2, <4>4 DEF OwnOf, IngestOf, Sound
      <4> QED
        BY <4>3, <4>4
    <3>3. DeleteOf(u)'
      BY <2>0, <3>0 DEF OwnOf, DeleteOf, Withdraws, OthersLeft, DeleteLeft
    <3>4. RetryOf(u)'
      BY <2>0, <3>0 DEF OwnOf, RetryOf, OthersLeft, RetryLeft
    <3> QED
      BY <3>1, <3>2, <3>3, <3>4 DEF OwnOf
  <2> QED
    BY <2>1, <2>2, <2>3
<1>3. ASSUME NEW q \in Resources \ {r}
      PROVE  RowOf(q)'
  <2>1. row'[q] = row[q] /\ (q \in pending' => q \in pending) /\ row[q] \in Rows /\ RowOf(q)
    BY <1>0, Parts DEF Moved
  <2>2. row[q].file # None =>
           /\ origin'[row[q].file] = q /\ attachment'[row[q].file] = attachment[row[q].file]
    BY <1>0, <2>1, Parts DEF Moved, RowOf, Rows
  <2>3. ASSUME NEW u \in Tasks, task'[u].res = q
        PROVE  task[u].res = q
    BY <1>0, <2>3, Parts DEF AllTasks
  <2> QED
    BY <2>1, <2>2, <2>3 DEF RowOf
<1> QED
  BY <1>0, <1>1, <1>2, <1>3, Parts DEF IInv, StepOK, OwnOf

-----------------------------------------------------------------------------
(* How tasks move *)

LEMMA NoTaskFacts ==
    /\ NoTask \in TaskRecords /\ NoTask.op = "none" /\ NoTask.pc = "idle"
    /\ NoTask.res = None /\ NoTask.file = None /\ NoTask.failed = FALSE
    /\ NoTask.abandon = FALSE /\ NoTask.status = "absent" /\ NoTask.path = FALSE
BY DEF NoTask, TaskRecords, Statuses

LEMMA EndFrame ==
    ASSUME TypeOK, NEW t \in AllTasks, End(t)
    PROVE  /\ task' \in [AllTasks -> TaskRecords] /\ task'[t] = NoTask
           /\ \A u \in AllTasks \ {t} : task'[u] = task[u]
BY NoTaskFacts DEF TypeOK, AllTasks, End

LEMMA EndedTask ==
    ASSUME NEW t \in AllTasks, task'[t] = NoTask
    PROVE  KindOf(t)' /\ FileOf(t)' /\ OwnOf(t)' /\ task'[t].res = None
BY NoTaskFacts DEF KindOf, Pcs, FileOf, OwnOf, UploadOf, IngestOf, DeleteOf, RetryOf,
   HasClaimed, Withdraws

LEMMA GoToFrame ==
    ASSUME TypeOK, NEW t \in AllTasks,
           NEW pc \in {"describe", "unstaged", "create", "attach", "poll", "finish", "sweep",
                       "remove", "cleaned", "reload", "next"},
           GoTo(t, pc)
    PROVE  /\ task' \in [AllTasks -> TaskRecords]
           /\ \A u \in AllTasks \ {t} : task'[u] = task[u]
           /\ task'[t].pc = pc /\ task'[t].op = task[t].op /\ task'[t].res = task[t].res
           /\ task'[t].status = task[t].status /\ task'[t].file = task[t].file
           /\ task'[t].failed = task[t].failed /\ task'[t].abandon = task[t].abandon
           /\ task'[t].path = task[t].path
<1> DEFINE new == [task[t] EXCEPT !.pc = pc]
<1>1. task[t] \in TaskRecords
  BY DEF TypeOK, AllTasks
<1>2. /\ new \in TaskRecords /\ new.pc = pc /\ new.op = task[t].op /\ new.res = task[t].res
      /\ new.status = task[t].status /\ new.file = task[t].file
      /\ new.failed = task[t].failed /\ new.abandon = task[t].abandon
      /\ new.path = task[t].path
  BY <1>1 DEF TaskRecords
<1>3. task' = [task EXCEPT ![t] = new]
  BY DEF GoTo
<1> HIDE DEF new
<1> QED
  BY <1>2, <1>3 DEF TypeOK, AllTasks

LEMMA BeginFrame ==
    ASSUME TypeOK, NEW t \in AllTasks, NEW r \in Resources,
           NEW op \in {"upload", "ingest", "retry", "delete"},
           NEW pc \in {"stage", "claim", "requeue", "mark"},
           Begin(t, op, pc, r)
    PROVE  /\ task' \in [AllTasks -> TaskRecords]
           /\ \A u \in AllTasks \ {t} : task'[u] = task[u]
           /\ task'[t].pc = pc /\ task'[t].op = op /\ task'[t].res = r
           /\ task'[t].status = row[r].status /\ task'[t].file = None
           /\ task'[t].failed = FALSE /\ task'[t].abandon = FALSE
           /\ task'[t].path = row[r].path
<1> DEFINE new == [NoTask EXCEPT !.op = op, !.pc = pc, !.res = r,
                                 !.status = row[r].status, !.path = row[r].path]
<1>1. row[r].status \in Statuses /\ row[r].path \in BOOLEAN
  BY DEF TypeOK, Rows
<1>2. /\ new \in TaskRecords /\ new.pc = pc /\ new.op = op /\ new.res = r
      /\ new.status = row[r].status /\ new.file = None
      /\ new.failed = FALSE /\ new.abandon = FALSE /\ new.path = row[r].path
  BY <1>1 DEF TaskRecords, NoTask
<1>3. task' = [task EXCEPT ![t] = new]
  BY DEF Begin
<1> HIDE DEF new
<1> QED
  BY <1>2, <1>3 DEF TypeOK, AllTasks

LEMMA CleanUpFrame ==
    ASSUME TypeOK, NEW t \in AllTasks, NEW file \in Files \cup {None},
           NEW abandon \in BOOLEAN, CleanUp(t, file, abandon)
    PROVE  /\ task' \in [AllTasks -> TaskRecords]
           /\ \A u \in AllTasks \ {t} : task'[u] = task[u]
           /\ task'[t].pc \in {"cleaned", "detach"}
           /\ task'[t].pc = "cleaned" <=> file = None
           /\ task'[t].op = task[t].op /\ task'[t].res = task[t].res
           /\ task'[t].status = task[t].status /\ task'[t].file = file
           /\ task'[t].failed = task[t].failed /\ task'[t].abandon = abandon
           /\ task'[t].path = task[t].path
<1> DEFINE pc == FirstOfCleanUp(file)
           new == [task[t] EXCEPT !.pc = pc, !.file = file, !.abandon = abandon]
<1>1. task[t] \in TaskRecords
  BY DEF TypeOK, AllTasks
<1>2. pc \in {"cleaned", "detach"} /\ (pc = "cleaned" <=> file = None)
  BY DEF FirstOfCleanUp
<1> HIDE DEF pc
<1>3. /\ new \in TaskRecords /\ new.pc = pc /\ new.op = task[t].op /\ new.res = task[t].res
      /\ new.status = task[t].status /\ new.file = file
      /\ new.failed = task[t].failed /\ new.abandon = abandon
      /\ new.path = task[t].path
  BY <1>1, <1>2 DEF TaskRecords
<1>4. task' = [task EXCEPT ![t] = new]
  BY DEF CleanUp, pc
<1> HIDE DEF new
<1> QED
  BY <1>2, <1>3, <1>4 DEF TypeOK, AllTasks

(* The row is written in its status alone. *)
LEMMA SetStatusFrame ==
    ASSUME TypeOK, NEW r \in Resources, NEW status \in Statuses, SetStatus(r, status)
    PROVE  /\ row' \in [Resources -> Rows] /\ \A q \in Resources \ {r} : row'[q] = row[q]
           /\ row'[r].status = status /\ row'[r].file = row[r].file
           /\ row'[r].path = row[r].path
<1> DEFINE new == [row[r] EXCEPT !.status = status]
<1>1. new \in Rows /\ new.status = status /\ new.file = row[r].file /\ new.path = row[r].path
  BY DEF TypeOK, Rows
<1>2. row' = [row EXCEPT ![r] = new]
  BY DEF SetStatus
<1> HIDE DEF new
<1> QED
  BY <1>1, <1>2 DEF TypeOK

(* A task at work knows that the process runs, and during recovery only    *)
(* ingests of rows that are not recovered are at work.                     *)
LEMMA Active ==
    ASSUME IInv, NEW t \in Tasks, task[t].op # "none"
    PROVE  /\ up /\ task[t].res \in Resources /\ task[t].pc # "idle"
           /\ task[Startup].op = "recover" =>
                 task[t].op = "ingest" /\ task[t].res \notin todo
<1>1. /\ task[t].pc # "idle" /\ task[t].res \in Resources
  BY Parts DEF KindOf, Pcs, TaskRecords, TypeOK
<1>2. up
  BY <1>1, Parts, NoTaskFacts DEF Recovery
<1> QED
  BY <1>1, <1>2, Parts DEF Recovery

(* Recovery and a step of another task do not meet. *)
LEMMA RecoveryLeft ==
    ASSUME IInv, NEW t \in Tasks, NEW r \in Resources, up, UNCHANGED <<up, todo>>,
           \A u \in AllTasks \ {t} : task'[u] = task[u],
           task'[t].res \in {r, None}, Moved(r),
           task[Startup].op = "recover" =>
              r \notin todo /\ task'[t].op \in {"none", "ingest"}
    PROVE  Recovery'
<1> DEFINE k == task[Startup]
<1>0. Recovery /\ task'[Startup] = k /\ todo' = todo /\ up' = up /\ todo \subseteq Resources
      /\ \A q \in Resources : q # None
  BY Parts DEF TypeOK
<1>1. CASE k.op = "recover"
  <2>1. \A q \in todo : q # r /\ row'[q] = row[q] /\ (q \in pending' => q \in pending)
    BY <1>0, <1>1 DEF Moved
  <2>2. \A u \in Tasks : task'[u].op \in {"none", "ingest"} /\ task'[u].res \notin todo
    BY <1>0, <1>1 DEF Recovery, AllTasks
  <2> QED
    BY <1>0, <1>1, <2>1, <2>2 DEF Recovery
<1>2. CASE k.op # "recover"
  BY <1>0, <1>2 DEF Recovery
<1> QED
  BY <1>1, <1>2

(* A step of an operation that is at work. *)
LEMMA ProgressSuffices ==
    ASSUME IInv, NEW t \in Tasks, NEW r \in Resources, r = task[t].res, task[t].op # "none",
           UNCHANGED <<process, todo>>, TypeOK', \A u \in AllTasks \ {t} : task'[u] = task[u],
           task'[t].op \in {"none", task[t].op}, task'[t].res \in {r, None},
           Moved(r), OthersLeft(t, r),
           KindOf(t)', FileOf(t)', OwnOf(t)', RowOf(r)'
    PROVE  IInv'
<1>1. t \in AllTasks /\ UNCHANGED <<up, todo>>
  BY DEF AllTasks, process
<1>2. Recovery'
  BY <1>1, Active, RecoveryLeft
<1> QED
  BY <1>1, <1>2, StepSuffices DEF StepOK

(* An operation that begins. *)
LEMMA BeginSuffices ==
    ASSUME IInv, NEW t \in Tasks, NEW r \in Resources, up, task[t].op = "none",
           Serving \/ (r \in pending /\ task'[t].op = "ingest"),
           UNCHANGED <<process, todo>>, TypeOK', \A u \in AllTasks \ {t} : task'[u] = task[u],
           task'[t].res = r, Moved(r), OthersLeft(t, r),
           KindOf(t)', FileOf(t)', OwnOf(t)', RowOf(r)'
    PROVE  IInv'
<1>1. t \in AllTasks /\ UNCHANGED <<up, todo>>
  BY DEF AllTasks, process
<1>2. task[Startup].op = "recover" => r \notin todo /\ task'[t].op \in {"none", "ingest"}
  BY Parts DEF Serving, KindOf, Pcs, Recovery
<1>3. Recovery'
  BY <1>1, <1>2, RecoveryLeft
<1> QED
  BY <1>1, <1>3, StepSuffices DEF StepOK

-----------------------------------------------------------------------------
(* Ingests *)

(* A step that leaves the row and the files of the vector store. *)
LEMMA QuietLeft ==
    ASSUME IInv, NEW t \in Tasks, NEW r \in Resources, row'[r] = row[r],
           UNCHANGED attachment, r \in pending' => r \in pending,
           HasClaimed(t, r)' => HasClaimed(t, r),
           Withdraws(t, r)' => Withdraws(t, r) \/ row[r].status = "deleting",
           task'[t].res = r =>
              \/ task'[t].op = "delete" /\ (row[r].status # "queued" \/ task'[t].pc = "mark")
              \/ r \in pending \/ row[r].status = "error"
              \/ task[t].res = r /\ task'[t].op = task[t].op /\ task[t].op # "delete"
    PROVE  OthersLeft(t, r)
<1>1. UploadLeft(t, r)
  BY Parts DEF UploadLeft, UploadOf
<1>2. IngestLeft(t, r)
  BY Parts DEF IngestLeft, IngestOf, HasClaimed
<1>3. DeleteLeft(t, r)
  BY Parts DEF DeleteLeft, DeleteOf, Withdraws, Bare
<1>4. RetryLeft(t, r) /\ PathLeft(t, r)
  BY Parts DEF RetryLeft, RetryOf, PathLeft
<1> QED
  BY <1>1, <1>2, <1>3, <1>4 DEF OthersLeft

(* A bare row is no row of an ingest with bytes, but for a failed upload.  *)
LEMMA BareIsUnsound ==
    ASSUME IInv, NEW t \in Tasks, NEW r \in Resources, task[t].op = "ingest",
           task[t].res = r, Bare(r), row[r].status # "error"
    PROVE  ~Sound(t)
BY Parts DEF IngestOf, Bare, Sound, OwnOf

(* A row that a deletion has marked is not one that an ingest keeps.       *)
LEMMA NoSoundClaim ==
    ASSUME IInv, NEW t \in Tasks, NEW r \in Resources, Withdraws(t, r),
           NEW u \in Tasks, HasClaimed(u, r), Sound(u)
    PROVE  FALSE
<1>1. row[r].status = "processing" /\ task[u].op = "ingest" /\ task[u].res = r
  BY Parts DEF IngestOf, HasClaimed
<1>2. Bare(r)
  BY <1>1, Parts DEF DeleteOf, Withdraws
<1> QED
  BY <1>1, <1>2, BareIsUnsound

(* Nobody else relies on a row that an ingest has claimed or may claim.    *)
LEMMA IngestAlone ==
    ASSUME IInv, NEW t \in Tasks, NEW r \in Resources, task[t].res = r, task[t].op = "ingest",
           row[r].status = "queued" \/ (HasClaimed(t, r) /\ Sound(t)),
           RetryLeft(t, r), PathLeft(t, r), DeleteLeft(t, r) \/ Sound(t)
    PROVE  OthersLeft(t, r)
<1>1. UploadLeft(t, r)
  BY Parts DEF UploadLeft, UploadOf
<1>2. row[r].status \in {"processing", "queued"}
  BY Parts DEF IngestOf
<1>3. IngestLeft(t, r)
  BY <1>2, Parts DEF IngestLeft, IngestOf, HasClaimed
<1>4. DeleteLeft(t, r)
  <2>1. Bare(r) => ~Sound(t)
    BY <1>2, BareIsUnsound
  <2> QED
    BY <1>2, <2>1, Parts DEF DeleteLeft, DeleteOf, Withdraws
<1> QED
  BY <1>1, <1>3, <1>4 DEF OthersLeft

(* An operation that ends without a trace. *)
LEMMA QuietEnd ==
    ASSUME IInv, NEW t \in Tasks, task[t].op # "none", End(t),
           UNCHANGED <<row, provider, pending, process, todo>>, staged' \subseteq Resources
    PROVE  IInv'
<1>r. PICK r \in Resources : r = task[t].res
  BY Active
<1>0. TypeOK /\ t \in AllTasks /\ r # None
  BY Parts
<1>1. /\ task' \in [AllTasks -> TaskRecords] /\ task'[t] = NoTask
      /\ \A u \in AllTasks \ {t} : task'[u] = task[u]
  BY <1>0, EndFrame
<1>2. KindOf(t)' /\ FileOf(t)' /\ OwnOf(t)' /\ task'[t].res = None
  BY <1>0, <1>1, EndedTask
<1>3. TypeOK'
  BY <1>0, <1>1, NoTaskFacts DEF TypeOK, AllTasks, provider, process
<1>4. Moved(r)
  BY DEF Moved, provider
<1>5. OthersLeft(t, r)
  <2>1. ~HasClaimed(t, r)' /\ ~Withdraws(t, r)'
    BY <1>1, NoTaskFacts DEF HasClaimed, Withdraws
  <2> QED
    BY <1>0, <1>2, <2>1, QuietLeft DEF provider
<1>6. RowOf(r)'
  <2>1. \A u \in Tasks : task'[u].res = r => task[u].res = r
    BY <1>0, <1>1, <1>2 DEF AllTasks
  <2> QED
    BY <1>0, <2>1, Parts DEF RowOf, provider
<1> QED
  BY <1>r, <1>0, <1>1, <1>2, <1>3, <1>4, <1>5, <1>6, NoTaskFacts, ProgressSuffices

(* The compare-and-set that claims a row. *)
LEMMA IngestClaimStep ==
    ASSUME IInv, NEW t \in Tasks, IngestClaim(t)
    PROVE  IInv'
<1>r. PICK r \in Resources : r = task[t].res
  BY Active DEF IngestClaim, At
<1>0. /\ TypeOK /\ t \in AllTasks /\ task[t].op = "ingest" /\ task[t].pc = "claim"
      /\ task[t].res = r /\ r # None /\ task[t] \in TaskRecords /\ KindOf(t) /\ FileOf(t) /\ RowOf(r)
      /\ UNCHANGED <<staged, provider, pending, process, todo>>
  BY <1>r, Parts DEF IngestClaim, At
<1>1. CASE row[r].status = "queued" /\ SetStatus(r, "processing") /\ GoTo(t, "create")
  <2>1. /\ task' \in [AllTasks -> TaskRecords]
        /\ \A u \in AllTasks \ {t} : task'[u] = task[u]
        /\ task'[t].pc = "create" /\ task'[t].op = "ingest" /\ task'[t].res = r
        /\ task'[t].file = task[t].file /\ task'[t].failed = task[t].failed
        /\ ~task'[t].abandon /\ task'[t].path = task[t].path
    BY <1>0, <1>1, GoToFrame DEF KindOf
  <2>2. /\ row' \in [Resources -> Rows] /\ \A q \in Resources \ {r} : row'[q] = row[q]
        /\ row'[r].status = "processing" /\ row'[r].file = row[r].file
        /\ row'[r].path = row[r].path /\ task[t].path = row[r].path
    <3>1. task[t].path = row[r].path
      BY <1>0, <1>1, Parts DEF IngestOf, Working
    <3> QED
      BY <1>0, <1>1, <3>1, SetStatusFrame DEF Statuses
  <2>3. TypeOK'
    BY <1>0, <2>1, <2>2 DEF TypeOK, AllTasks, provider, process
  <2>4. Moved(r)
    BY <1>0, <2>2 DEF Moved, provider
  <2>5. OthersLeft(t, r)
    <3>1. RetryLeft(t, r) /\ PathLeft(t, r)
      BY <1>1, <2>2 DEF RetryLeft, PathLeft, Working
    <3>2. DeleteLeft(t, r)
      BY <1>1, <2>2, Parts DEF DeleteLeft, DeleteOf, Withdraws, Bare, Working
    <3> QED
      BY <1>0, <1>1, <3>1, <3>2, IngestAlone
  <2>6. KindOf(t)' /\ FileOf(t)'
    BY <1>0, <2>1 DEF KindOf, Pcs, FileOf, provider
  <2>7. IngestOf(t)'
    <3>1. ASSUME Sound(t), NEW u \in Tasks \ {t}, HasClaimed(u, r)
          PROVE  FALSE
      <4>1. task[u].op = "ingest" /\ task[u].res = r /\ task[u].path = row[r].path
        BY <1>1, <3>1, Parts DEF HasClaimed, IngestOf, Working
      <4>2. Sound(u)
        BY <2>2, <3>1, <4>1 DEF Sound
      <4> QED
        BY <1>1, <3>1, <4>1, <4>2, Parts DEF IngestOf
    <3>2. Sound(t)' => \A u \in Tasks \ {t} : ~HasClaimed(u, r)'
      BY <2>1, <3>1 DEF HasClaimed, Sound, AllTasks
    <3>3. Tidy => row'[r].file = None
      BY <1>0, <1>1, <2>2 DEF RowOf
    <3>4. ~task'[t].failed /\ task'[t].file = None
      BY <1>0, <2>1 DEF KindOf
    <3> QED
      BY <2>1, <2>2, <3>2, <3>3, <3>4 DEF IngestOf
  <2>8. OwnOf(t)'
    BY <2>1, <2>7 DEF OwnOf, UploadOf, DeleteOf, RetryOf, Withdraws
  <2>9. RowOf(r)'
    BY <1>0, <1>1, <2>2 DEF RowOf, Working, provider
  <2> QED
    BY <1>0, <2>1, <2>3, <2>4, <2>5, <2>6, <2>8, <2>9, ProgressSuffices
<1>2. CASE End(t) /\ UNCHANGED row
  BY <1>0, <1>2, QuietEnd DEF TypeOK
<1> QED
  BY <1>r, <1>1, <1>2 DEF IngestClaim, CanTransition

Claimed == {"create", "record", "attach", "poll", "finish", "detach", "remove", "cleaned"}

(* What an ingest at work knows. *)
LEMMA ClaimFacts ==
    ASSUME IInv, NEW t \in Tasks, task[t].op = "ingest", task[t].pc \in Claimed
    PROVE  /\ TypeOK /\ t \in AllTasks /\ task[t] \in TaskRecords /\ task[t].res # None
           /\ task[t].res \in Resources /\ HasClaimed(t, task[t].res)
           /\ row[task[t].res] \in Rows /\ ~task[t].abandon
           /\ KindOf(t) /\ FileOf(t) /\ IngestOf(t) /\ RowOf(task[t].res)
           /\ task[t].pc \notin {"create", "cleaned"} => task[t].path
           /\ task[t].path => Sound(t)
           /\ Sound(t) => /\ row[task[t].res].status = "processing"
                          /\ \A u \in Tasks \ {t} : ~HasClaimed(u, task[t].res)
<1>1. /\ TypeOK /\ t \in AllTasks /\ task[t] \in TaskRecords /\ task[t].res # None
      /\ task[t].res \in Resources /\ HasClaimed(t, task[t].res) /\ row[task[t].res] \in Rows
      /\ KindOf(t) /\ FileOf(t) /\ IngestOf(t) /\ RowOf(task[t].res)
  BY Active, Parts DEF HasClaimed, Claimed
<1>2. task[t].path => Sound(t)
  BY DEF Sound
<1>3. task[t].path \in BOOLEAN /\ task[t].abandon \in BOOLEAN
  BY <1>1 DEF TaskRecords
<1> QED
  BY <1>1, <1>2, <1>3 DEF IngestOf

LEMMA IngestGoes ==
    ASSUME IInv, NEW t \in Tasks, NEW r \in Resources, task[t].res = r, Sound(t),
           task[t].op = "ingest", task[t].pc \in Claimed, UNCHANGED <<process, todo>>, TypeOK',
           \A u \in AllTasks \ {t} : task'[u] = task[u],
           task'[t].op = "ingest", task'[t].res = r, task'[t].pc \in Claimed,
           task'[t].path = task[t].path, ~task'[t].abandon,
           task'[t].failed => "cleanup" \in Faults, FileOf(t)', Moved(r),
           ~task[t].path => /\ task'[t].pc \in {"create", "cleaned"}
                            /\ task'[t].file = None /\ ~task'[t].failed,
           row'[r].status = "processing", row'[r].path = row[r].path,
           row'[r].file = row[r].file \/ task[t].path,
           row'[r].file # None => origin'[row'[r].file] = r,
           task'[t].pc \in {"attach", "poll", "finish"} => row'[r].file = task'[t].file,
           task'[t].pc = "finish" => attachment'[task'[t].file] = "completed",
           Tidy /\ task'[t].pc \in {"create", "record"} => row'[r].file = None,
           Tidy /\ task'[t].pc \in {"detach", "remove", "cleaned"} => row'[r].file = task'[t].file
    PROVE  IInv'
<1>0. /\ HasClaimed(t, r) /\ \A u \in Tasks \ {t} : ~HasClaimed(u, r)
      /\ row[r].status = "processing" /\ RowOf(r)
  BY ClaimFacts
<1>p. row[r].path = task[t].path
  BY <1>0, Parts DEF IngestOf, Working
<1>1. OthersLeft(t, r)
  <2>1. RetryLeft(t, r) /\ PathLeft(t, r)
    BY <1>0 DEF RetryLeft, PathLeft, Working
  <2> QED
    BY <1>0, <2>1, IngestAlone
<1>2. KindOf(t)'
  BY Parts DEF KindOf, Pcs, Claimed
<1>3. IngestOf(t)'
  <2>1. \A u \in Tasks \ {t} : ~HasClaimed(u, r)'
    BY <1>0 DEF HasClaimed, AllTasks
  <2> QED
    BY <1>p, <2>1 DEF IngestOf
<1>4. OwnOf(t)'
  BY <1>3 DEF OwnOf, UploadOf, DeleteOf, RetryOf, Withdraws
<1>5. RowOf(r)'
  BY <1>0, <1>p DEF RowOf, Working
<1> QED
  BY <1>1, <1>2, <1>4, <1>5, ProgressSuffices

(* files.create *)
LEMMA IngestCreateStep ==
    ASSUME IInv, NEW t \in Tasks, IngestCreate(t)
    PROVE  IInv'
<1>0. /\ task[t].op = "ingest" /\ task[t].pc = "create" /\ task[t].pc \in Claimed
      /\ UNCHANGED <<row, staged, attachment, pending, process, todo>>
  BY DEF IngestCreate, At, Claimed
<1>r. PICK r \in Resources : r = task[t].res
  BY <1>0, ClaimFacts
<1>1. /\ TypeOK /\ t \in AllTasks /\ task[t] \in TaskRecords /\ r # None
      /\ row[r] \in Rows /\ ~task[t].abandon
      /\ KindOf(t) /\ FileOf(t) /\ IngestOf(t) /\ RowOf(r) /\ HasClaimed(t, r)
      /\ task[t].path => Sound(t)
      /\ Sound(t) => row[r].status = "processing"
      /\ ~task[t].path => ~task[t].failed
  BY <1>0, <1>r, ClaimFacts DEF IngestOf
<1>2. Sound(t) /\ Tidy => row[r].file = None
  BY <1>0, <1>1, <1>r DEF IngestOf
<1>3. ASSUME CleanUp(t, None, FALSE), Moved(r), stored' \subseteq Files,
             origin' \in [Files -> Resources \cup {None}]
      PROVE  IInv'
  <2>1. /\ task' \in [AllTasks -> TaskRecords]
        /\ \A u \in AllTasks \ {t} : task'[u] = task[u]
        /\ task'[t].pc = "cleaned" /\ task'[t].op = "ingest" /\ task'[t].res = r
        /\ task'[t].file = None /\ task'[t].failed = task[t].failed /\ ~task'[t].abandon
        /\ task'[t].path = task[t].path
    BY <1>0, <1>1, <1>r, <1>3, CleanUpFrame
  <2>2. TypeOK'
    BY <1>0, <1>1, <1>3, <1>r, <2>1, Parts DEF TypeOK, AllTasks, process
  <2>3. FileOf(t)'
    BY <2>1 DEF FileOf
  <2>4. row'[r].file # None => origin'[row'[r].file] = r
    BY <1>0, <1>1, <1>3 DEF RowOf, Moved, Rows
  <2>5. CASE Sound(t)
    BY <1>0, <1>1, <1>r, <1>2, <1>3, <2>1, <2>2, <2>3, <2>4, <2>5, IngestGoes
       DEF KindOf, Claimed
  <2>6. CASE ~Sound(t)
    <3>1. OthersLeft(t, r)
      <4>1. ~Withdraws(t, r)'
        BY <2>1 DEF Withdraws
      <4> QED
        BY <1>0, <1>1, <1>r, <2>1, <4>1, QuietLeft
    <3>2. KindOf(t)'
      BY <1>0, <1>1, <2>1, Parts DEF KindOf, Pcs
    <3>3. OwnOf(t)'
      <4>1. ~Sound(t)' /\ ~task[t].path
        BY <1>1, <2>1, <2>6 DEF Sound, TaskRecords
      <4> QED
        BY <1>0, <1>1, <1>r, <2>1, <4>1
           DEF OwnOf, UploadOf, IngestOf, DeleteOf, RetryOf, Withdraws
    <3>4. RowOf(r)'
      <4>1. \A u \in Tasks : task'[u].res = r => task[u].res = r
        BY <1>1, <1>r, <2>1 DEF AllTasks
      <4> QED
        BY <1>0, <1>1, <2>4, <4>1 DEF RowOf
    <3> QED
      BY <1>0, <1>1, <1>r, <1>3, <2>1, <2>2, <2>3, <3>1, <3>2, <3>3, <3>4, ProgressSuffices
  <2> QED
    BY <2>5, <2>6
<1>4. CASE CleanUp(t, None, FALSE) /\ UNCHANGED <<stored, origin>>
  <2>1. Moved(r)
    BY <1>0, <1>4 DEF Moved
  <2> QED
    BY <1>1, <1>3, <1>4, <2>1 DEF TypeOK
<1>5. ASSUME NEW f \in Files, origin[f] = None, stored' = stored \cup {f},
             origin' = [origin EXCEPT ![f] = r]
      PROVE  /\ Moved(r) /\ stored' \subseteq Files /\ origin'[f] = r
             /\ origin' \in [Files -> Resources \cup {None}]
  BY <1>0, <1>1, <1>5 DEF Moved, TypeOK
<1>6. ASSUME NEW f \in Files, origin[f] = None, stored' = stored \cup {f},
             origin' = [origin EXCEPT ![f] = r], CleanUp(t, None, FALSE)
      PROVE  IInv'
  BY <1>3, <1>5, <1>6
<1>7. ASSUME NEW f \in Files, task[t].path, origin[f] = None, stored' = stored \cup {f},
             origin' = [origin EXCEPT ![f] = r],
             task' = [task EXCEPT ![t] = [@ EXCEPT !.pc = "record", !.file = f]]
      PROVE  IInv'
  <2> DEFINE new == [task[t] EXCEPT !.pc = "record", !.file = f]
  <2>1. /\ new \in TaskRecords /\ new.pc = "record" /\ new.file = f /\ new.op = "ingest"
        /\ new.res = r /\ new.failed = task[t].failed /\ ~new.abandon
        /\ new.path = task[t].path
    BY <1>0, <1>1, <1>r DEF TaskRecords
  <2>2. task' = [task EXCEPT ![t] = new]
    BY <1>7
  <2> HIDE DEF new
  <2>3. /\ task' \in [AllTasks -> TaskRecords] /\ task'[t] = new
        /\ \A u \in AllTasks \ {t} : task'[u] = task[u]
    BY <1>1, <2>1, <2>2 DEF TypeOK, AllTasks
  <2>4. /\ Moved(r) /\ stored' \subseteq Files /\ origin'[f] = r
        /\ origin' \in [Files -> Resources \cup {None}]
    BY <1>5, <1>7
  <2>5. TypeOK'
    BY <1>0, <1>1, <1>r, <2>1, <2>3, <2>4, Parts DEF TypeOK, AllTasks, process
  <2>6. FileOf(t)'
    BY <1>r, <2>1, <2>3, <2>4, Parts DEF FileOf
  <2>7. row'[r].file # None => origin'[row'[r].file] = r
    BY <1>0, <1>1, <2>4 DEF RowOf, Moved, Rows
  <2> QED
    BY <1>0, <1>1, <1>r, <1>2, <1>7, <2>1, <2>3, <2>4, <2>5, <2>6, <2>7, IngestGoes
       DEF KindOf, Claimed
<1> QED
  BY <1>r, <1>4, <1>6, <1>7 DEF IngestCreate

(* An ingest that fails before its row is ready cleans up its file. *)
LEMMA IngestFails ==
    ASSUME IInv, NEW t \in Tasks, task[t].op = "ingest",
           task[t].pc \in {"attach", "poll"}, CleanUp(t, task[t].file, FALSE),
           UNCHANGED <<row, staged, provider, pending, process, todo>>
    PROVE  IInv'
<1>0. task[t].pc \in Claimed
  BY DEF Claimed
<1>r. PICK r \in Resources : r = task[t].res
  BY <1>0, ClaimFacts
<1>1. /\ TypeOK /\ t \in AllTasks /\ task[t] \in TaskRecords /\ r # None
      /\ row[r].status = "processing" /\ KindOf(t) /\ FileOf(t) /\ IngestOf(t)
      /\ RowOf(r) /\ HasClaimed(t, r) /\ task[t].path /\ Sound(t)
  BY <1>0, <1>r, ClaimFacts
<1>2. task[t].file \in Files /\ task[t].file # None /\ row[r].file = task[t].file
  BY <1>1, <1>r DEF FileOf, IngestOf, TaskRecords
<1>3. /\ task' \in [AllTasks -> TaskRecords]
      /\ \A u \in AllTasks \ {t} : task'[u] = task[u]
      /\ task'[t].pc = "detach" /\ task'[t].op = "ingest" /\ task'[t].res = r
      /\ task'[t].file = task[t].file /\ task'[t].failed = task[t].failed
      /\ ~task'[t].abandon /\ task'[t].path = task[t].path
  BY <1>1, <1>r, <1>2, CleanUpFrame
<1>4. TypeOK'
  BY <1>1, <1>r, <1>3, Parts DEF TypeOK, AllTasks, provider, process
<1>5. FileOf(t)' /\ Moved(r)
  BY <1>1, <1>r, <1>2, <1>3 DEF FileOf, Moved, provider
<1>6. row'[r].file # None => origin'[row'[r].file] = r
  BY <1>1 DEF RowOf, provider
<1> QED
  BY <1>0, <1>1, <1>r, <1>2, <1>3, <1>4, <1>5, <1>6, IngestGoes DEF KindOf, Claimed

(* The provider id is recorded while the row is the ingest's. *)
LEMMA IngestRecordStep ==
    ASSUME IInv, NEW t \in Tasks, IngestRecord(t)
    PROVE  IInv'
<1>0. /\ task[t].op = "ingest" /\ task[t].pc = "record" /\ task[t].pc \in Claimed
      /\ UNCHANGED <<staged, provider, pending, process, todo>>
  BY DEF IngestRecord, At, Claimed
<1>r. PICK r \in Resources : r = task[t].res
  BY <1>0, ClaimFacts
<1>1. /\ TypeOK /\ t \in AllTasks /\ task[t] \in TaskRecords /\ r # None
      /\ row[r] \in Rows /\ row[r].status = "processing" /\ ~task[t].abandon
      /\ KindOf(t) /\ FileOf(t) /\ RowOf(r) /\ task[t].path /\ Sound(t)
  BY <1>0, <1>r, ClaimFacts
<1> DEFINE f == task[t].file
           new == [row[r] EXCEPT !.file = f]
<1>2. f \in Files /\ f # None /\ origin[f] = r
  BY <1>0, <1>1, <1>r DEF FileOf, TaskRecords
<1>3. row' = [row EXCEPT ![r] = new] /\ GoTo(t, "attach")
  BY <1>1, <1>r DEF IngestRecord, CanTransition
<1>4. new \in Rows /\ new.status = "processing" /\ new.file = f /\ new.path = row[r].path
  BY <1>1, <1>2 DEF Rows
<1> HIDE DEF new
<1>5. /\ row' \in [Resources -> Rows] /\ row'[r] = new
      /\ \A q \in Resources \ {r} : row'[q] = row[q]
  BY <1>1, <1>3, <1>4 DEF TypeOK
<1>6. /\ task' \in [AllTasks -> TaskRecords]
      /\ \A u \in AllTasks \ {t} : task'[u] = task[u]
      /\ task'[t].pc = "attach" /\ task'[t].op = "ingest" /\ task'[t].res = r
      /\ task'[t].file = f /\ task'[t].failed = task[t].failed
      /\ ~task'[t].abandon /\ task'[t].path = task[t].path
  BY <1>0, <1>1, <1>r, <1>3, GoToFrame
<1>7. TypeOK'
  BY <1>0, <1>1, <1>5, <1>6, Parts DEF TypeOK, AllTasks, provider, process
<1>8. FileOf(t)' /\ Moved(r)
  BY <1>0, <1>2, <1>5, <1>6 DEF FileOf, Moved, provider
<1>9. row'[r].file # None => origin'[row'[r].file] = r
  BY <1>0, <1>2, <1>4, <1>5 DEF provider
<1> QED
  BY <1>0, <1>1, <1>r, <1>4, <1>5, <1>6, <1>7, <1>8, <1>9, IngestGoes DEF KindOf, Claimed

(* The attachment to the vector store. *)
LEMMA IngestAttachStep ==
    ASSUME IInv, NEW t \in Tasks, IngestAttach(t)
    PROVE  IInv'
<1>0. /\ task[t].op = "ingest" /\ task[t].pc = "attach" /\ task[t].pc \in Claimed
      /\ UNCHANGED <<row, staged, stored, origin, pending, process, todo>>
  BY DEF IngestAttach, At, Claimed
<1>1. CASE CleanUp(t, task[t].file, FALSE) /\ UNCHANGED attachment
  BY <1>0, <1>1, IngestFails DEF provider
<1>2. CASE /\ attachment' = [attachment EXCEPT ![task[t].file] = "in_progress"]
           /\ GoTo(t, "poll")
  <2>r. PICK r \in Resources : r = task[t].res
    BY <1>0, ClaimFacts
  <2>1. /\ TypeOK /\ t \in AllTasks /\ task[t] \in TaskRecords /\ r # None
        /\ row[r].status = "processing" /\ ~task[t].abandon /\ task[t].path /\ Sound(t)
        /\ KindOf(t) /\ FileOf(t) /\ IngestOf(t) /\ RowOf(r) /\ HasClaimed(t, r)
    BY <1>0, <2>r, ClaimFacts
  <2> DEFINE f == task[t].file
  <2>2. f \in Files /\ f # None /\ origin[f] = r /\ row[r].file = f
    BY <1>0, <2>1, <2>r DEF FileOf, TaskRecords, IngestOf
  <2>3. /\ task' \in [AllTasks -> TaskRecords]
        /\ \A u \in AllTasks \ {t} : task'[u] = task[u]
        /\ task'[t].pc = "poll" /\ task'[t].op = "ingest" /\ task'[t].res = r
        /\ task'[t].file = f /\ task'[t].failed = task[t].failed
        /\ ~task'[t].abandon /\ task'[t].path = task[t].path
    BY <1>0, <1>2, <2>1, <2>r, GoToFrame
  <2>4. TypeOK'
    BY <1>0, <1>2, <2>1, <2>2, <2>3, Parts DEF TypeOK, AllTasks, process
  <2>5. FileOf(t)' /\ Moved(r)
    BY <1>0, <1>2, <2>1, <2>2, <2>3 DEF FileOf, Moved, TypeOK
  <2> QED
    BY <1>0, <2>1, <2>r, <2>2, <2>3, <2>4, <2>5, IngestGoes DEF KindOf, Claimed
<1> QED
  BY <1>1, <1>2 DEF IngestAttach

(* The poll. *)
LEMMA IngestPollStep ==
    ASSUME IInv, NEW t \in Tasks, IngestPoll(t)
    PROVE  IInv'
<1>0. /\ task[t].op = "ingest" /\ task[t].pc = "poll" /\ task[t].pc \in Claimed
      /\ UNCHANGED <<row, staged, provider, pending, process, todo>>
  BY DEF IngestPoll, At, Claimed
<1>1. CASE CleanUp(t, task[t].file, FALSE)
  BY <1>0, <1>1, IngestFails
<1>2. CASE attachment[task[t].file] = "completed" /\ GoTo(t, "finish")
  <2>r. PICK r \in Resources : r = task[t].res
    BY <1>0, ClaimFacts
  <2>1. /\ TypeOK /\ t \in AllTasks /\ task[t] \in TaskRecords /\ r # None
        /\ row[r].status = "processing" /\ ~task[t].abandon /\ task[t].path /\ Sound(t)
        /\ KindOf(t) /\ FileOf(t) /\ IngestOf(t) /\ RowOf(r) /\ HasClaimed(t, r)
    BY <1>0, <2>r, ClaimFacts
  <2>2. row[r].file = task[t].file
    BY <1>0, <2>1, <2>r DEF IngestOf
  <2>3. /\ task' \in [AllTasks -> TaskRecords]
        /\ \A u \in AllTasks \ {t} : task'[u] = task[u]
        /\ task'[t].pc = "finish" /\ task'[t].op = "ingest" /\ task'[t].res = r
        /\ task'[t].file = task[t].file /\ task'[t].failed = task[t].failed
        /\ ~task'[t].abandon /\ task'[t].path = task[t].path
    BY <1>0, <1>2, <2>1, <2>r, GoToFrame
  <2>4. TypeOK'
    BY <1>0, <2>1, <2>3, Parts DEF TypeOK, AllTasks, provider, process
  <2>5. FileOf(t)' /\ Moved(r)
    BY <1>0, <2>r, <2>1, <2>2, <2>3 DEF FileOf, Moved, provider
  <2>6. row'[r].file # None => origin'[row'[r].file] = r
    BY <1>0, <2>1 DEF RowOf, provider
  <2> QED
    BY <1>0, <1>2, <2>1, <2>r, <2>2, <2>3, <2>4, <2>5, <2>6, IngestGoes
       DEF KindOf, Claimed, provider
<1> QED
  BY <1>1, <1>2 DEF IngestPoll, PolledCompleted

(* The end of an ingest, with its row settled. *)
LEMMA IngestSettles ==
    ASSUME IInv, NEW t \in Tasks, NEW r \in Resources, task[t].res = r,
           task[t].op = "ingest", task[t].pc \in Claimed,
           UNCHANGED <<staged, provider, pending, process, todo>>,
           NEW new \in Rows, row' = [row EXCEPT ![r] = new],
           new.status = "ready" \/ new.status = "error",
           new.file # None => origin[new.file] = r,
           new.status = "ready" => new.file # None /\ attachment[new.file] = "completed",
           new.status = "error" => /\ Tidy /\ "retry" \in Ops => new.file = None
                                   /\ new.path = row[r].path /\ (new.file # None => task[t].path),
           \/ Sound(t)
           \/ new.status = "error" /\ row[r].status = "processing" /\ new.file = None,
           task' \in [AllTasks -> TaskRecords],
           \A u \in AllTasks \ {t} : task'[u] = task[u],
           \/ task'[t] = NoTask
           \/ /\ task'[t].op = "ingest" /\ task'[t].pc = "sweep" /\ task'[t].res = r
              /\ task'[t].file = task[t].file /\ task'[t].failed = task[t].failed
              /\ new.status = "ready"
    PROVE  IInv'
<1>0. /\ TypeOK /\ t \in AllTasks /\ r # None /\ row[r].status = "processing"
      /\ KindOf(t) /\ FileOf(t) /\ HasClaimed(t, r) /\ IngestOf(t)
  BY ClaimFacts
<1>p. row[r].path = task[t].path
  BY <1>0 DEF IngestOf, Working
<1>1. /\ row' \in [Resources -> Rows] /\ row'[r] = new
      /\ \A q \in Resources \ {r} : row'[q] = row[q]
  BY <1>0 DEF TypeOK
<1>2. TypeOK'
  BY <1>0, <1>1, NoTaskFacts, Parts DEF TypeOK, AllTasks, provider, process
<1>3. KindOf(t)' /\ FileOf(t)' /\ OwnOf(t)' /\ task'[t].res \in {r, None}
      /\ task'[t].op \in {"none", "ingest"}
  <2>1. CASE task'[t] = NoTask
    BY <1>0, <2>1, EndedTask, NoTaskFacts
  <2>2. CASE task'[t] # NoTask
    <3>1. KindOf(t)' /\ FileOf(t)'
      BY <1>0, <2>2, Parts DEF KindOf, Pcs, FileOf, provider
    <3>2. OwnOf(t)'
      BY <1>1, <2>2
         DEF OwnOf, UploadOf, IngestOf, DeleteOf, RetryOf, HasClaimed, Withdraws, Working
    <3> QED
      BY <2>2, <3>1, <3>2
  <2> QED
    BY <2>1, <2>2
<1>4. Moved(r) /\ RowOf(r)'
  BY <1>1, <1>p DEF Moved, RowOf, Working, provider
<1>5. OthersLeft(t, r)
  <2>1. RetryLeft(t, r)
    BY <1>1, Parts DEF RetryLeft, KindOf
  <2>2. PathLeft(t, r)
    BY <1>0, <1>1 DEF PathLeft, Working
  <2>3. CASE Sound(t)
    BY <1>0, <2>1, <2>2, <2>3, IngestAlone
  <2>4. CASE new.status = "error" /\ row[r].status = "processing" /\ new.file = None
    <3>1. UploadLeft(t, r)
      BY <1>0, Parts DEF UploadLeft, UploadOf
    <3>2. IngestLeft(t, r)
      BY <1>0, Parts DEF IngestLeft, IngestOf, HasClaimed
    <3>3. DeleteLeft(t, r)
      BY <1>1, <2>4, Parts DEF DeleteLeft, DeleteOf, Withdraws, Bare, Working
    <3> QED
      BY <2>1, <2>2, <3>1, <3>2, <3>3 DEF OthersLeft
  <2> QED
    BY <2>3, <2>4
<1> QED
  BY <1>2, <1>3, <1>4, <1>5, ProgressSuffices

(* The row is ready. *)
LEMMA IngestFinishStep ==
    ASSUME IInv, NEW t \in Tasks, IngestFinish(t)
    PROVE  IInv'
<1>0. /\ task[t].op = "ingest" /\ task[t].pc = "finish" /\ task[t].pc \in Claimed
      /\ UNCHANGED <<staged, provider, pending, process, todo>>
  BY DEF IngestFinish, At, Claimed
<1>r. PICK r \in Resources : r = task[t].res
  BY <1>0, ClaimFacts
<1>1. /\ TypeOK /\ t \in AllTasks /\ task[t] \in TaskRecords /\ HasClaimed(t, r)
      /\ row[r].status = "processing" /\ FileOf(t) /\ IngestOf(t) /\ Sound(t)
  BY <1>0, <1>r, ClaimFacts
<1> DEFINE f == task[t].file
           new == [status |-> "ready", file |-> f, path |-> FALSE]
<1>2. f \in Files /\ f # None /\ origin[f] = r /\ attachment[f] = "completed"
  BY <1>0, <1>1, <1>r DEF FileOf, TaskRecords, IngestOf
<1>3. row' = [row EXCEPT ![r] = new] /\ GoTo(t, "sweep")
  BY <1>1, <1>r DEF IngestFinish, CanTransition
<1>4. new \in Rows /\ new.status = "ready" /\ new.file = f
  BY <1>2 DEF Rows, Statuses
<1> HIDE DEF new
<1>5. /\ task' \in [AllTasks -> TaskRecords]
      /\ \A u \in AllTasks \ {t} : task'[u] = task[u]
      /\ task'[t].op = "ingest" /\ task'[t].pc = "sweep" /\ task'[t].res = r
      /\ task'[t].file = task[t].file /\ task'[t].failed = task[t].failed
  BY <1>0, <1>1, <1>r, <1>3, GoToFrame
<1> QED
  BY <1>0, <1>1, <1>r, <1>2, <1>3, <1>4, <1>5, IngestSettles

(* The except clause: an id is dropped only when its file is cleaned up. *)
LEMMA IngestCleanedStep ==
    ASSUME IInv, NEW t \in Tasks, IngestCleaned(t)
    PROVE  IInv'
<1>0. /\ task[t].op = "ingest" /\ task[t].pc = "cleaned" /\ task[t].pc \in Claimed
      /\ UNCHANGED <<staged, provider, pending, process, todo>> /\ End(t)
  BY DEF IngestCleaned, At, Claimed
<1>r. PICK r \in Resources : r = task[t].res
  BY <1>0, ClaimFacts
<1>1. /\ TypeOK /\ t \in AllTasks /\ task[t] \in TaskRecords /\ row[r] \in Rows
      /\ FileOf(t) /\ KindOf(t) /\ IngestOf(t) /\ ~task[t].abandon /\ HasClaimed(t, r)
      /\ task[t].path => Sound(t)
  BY <1>0, <1>r, ClaimFacts
<1>2. CASE row[r].status # "processing"
  BY <1>0, <1>1, <1>r, <1>2, QuietEnd DEF IngestCleaned, CanTransition, TypeOK
<1>3. CASE row[r].status = "processing"
  <2> DEFINE kept == IF task[t].failed THEN task[t].file ELSE None
             new == [row[r] EXCEPT !.status = "error", !.file = kept]
  <2>2. /\ kept \in Files \cup {None} /\ (kept # None => origin[kept] = r)
        /\ kept # None => "cleanup" \in Faults
        /\ kept # None => task[t].path
    <3>1. task[t].failed => task[t].path
      BY <1>1, <1>r DEF IngestOf
    <3> QED
      BY <1>1, <1>r, <3>1 DEF FileOf, TaskRecords, KindOf
  <2>3. row' = [row EXCEPT ![r] = new]
    BY <1>1, <1>r, <1>3 DEF IngestCleaned, CanTransition
  <2> HIDE DEF kept
  <2>4. new \in Rows /\ new.status = "error" /\ new.file = kept /\ new.path = row[r].path
    BY <1>1, <2>2 DEF Rows, Statuses
  <2> HIDE DEF new
  <2>5. /\ task' \in [AllTasks -> TaskRecords] /\ task'[t] = NoTask
        /\ \A u \in AllTasks \ {t} : task'[u] = task[u]
    BY <1>0, <1>1, EndFrame
  <2>6. Tidy /\ "retry" \in Ops => new.file = None
    BY <2>2, <2>4 DEF Tidy
  <2>7. Sound(t) \/ new.file = None
    BY <1>1, <2>2, <2>4
  <2> QED
    BY <1>0, <1>r, <1>3, <2>2, <2>3, <2>4, <2>5, <2>6, <2>7, IngestSettles
<1> QED
  BY <1>2, <1>3

LEMMA IngestSweepStep ==
    ASSUME IInv, NEW t \in Tasks, IngestSweep(t)
    PROVE  IInv'
<1>1. staged' \subseteq Resources
  BY Parts DEF IngestSweep, TypeOK
<1> QED
  BY <1>1, QuietEnd DEF IngestSweep, At

(* A dispatched ingest starts, if its row is still queued. *)
LEMMA StartIngestStep ==
    ASSUME IInv, NEW t \in Tasks, NEW r \in Resources, StartIngest(t, r)
    PROVE  IInv'
<1>0. /\ TypeOK /\ t \in AllTasks /\ up /\ task[t] \in TaskRecords /\ KindOf(t) /\ r # None
      /\ task[t].pc = "idle" /\ r \in pending /\ pending' = pending \ {r} /\ RowOf(r)
      /\ UNCHANGED <<row, staged, provider, process, todo>>
  BY Parts DEF StartIngest
<1>1. task[t].op = "none" /\ task[t] = NoTask
  BY <1>0 DEF KindOf, Pcs, TaskRecords
<1>2. Moved(r)
  BY <1>0 DEF Moved, provider
<1>3. row[r].status # "absent"
  BY <1>0 DEF RowOf
<1>4. RowOf(r)'
  BY <1>0, <1>3 DEF RowOf, provider
<1>5. CASE row[r].status = "queued" /\ Begin(t, "ingest", "claim", r)
  <2>1. /\ task' \in [AllTasks -> TaskRecords]
        /\ \A u \in AllTasks \ {t} : task'[u] = task[u]
        /\ task'[t].pc = "claim" /\ task'[t].op = "ingest" /\ task'[t].res = r
        /\ task'[t].file = None /\ ~task'[t].failed /\ ~task'[t].abandon
        /\ task'[t].path = row[r].path
    BY <1>0, <1>5, BeginFrame
  <2>2. TypeOK'
    BY <1>0, <2>1, Parts DEF TypeOK, AllTasks, provider, process
  <2>3. KindOf(t)' /\ FileOf(t)'
    BY <2>1, Parts DEF KindOf, Pcs, FileOf
  <2>4. OwnOf(t)'
    BY <1>0, <2>1 DEF OwnOf, UploadOf, IngestOf, DeleteOf, RetryOf, HasClaimed, Withdraws
  <2>5. OthersLeft(t, r)
    <3>1. ~HasClaimed(t, r)' /\ ~Withdraws(t, r)'
      BY <2>1 DEF HasClaimed, Withdraws
    <3> QED
      BY <1>0, <3>1, QuietLeft DEF provider
  <2> QED
    BY <1>0, <1>1, <1>2, <1>4, <2>1, <2>2, <2>3, <2>4, <2>5, BeginSuffices
<1>6. CASE UNCHANGED task
  <2>1. TypeOK'
    BY <1>0, <1>6 DEF TypeOK, provider, process
  <2>2. KindOf(t)' /\ FileOf(t)' /\ OwnOf(t)' /\ task'[t].res = None /\ task'[t].op = "none"
    BY <1>0, <1>1, <1>6, EndedTask, NoTaskFacts
  <2>3. OthersLeft(t, r)
    <3>1. ~HasClaimed(t, r)' /\ ~Withdraws(t, r)'
      BY <2>2 DEF HasClaimed, Withdraws
    <3> QED
      BY <1>0, <2>2, <3>1, QuietLeft DEF provider
  <2>4. Recovery'
    <3>1. task[Startup].op = "recover" => r \notin todo
      BY <1>0, Parts DEF Recovery
    <3> QED
      BY <1>0, <1>2, <1>6, <2>2, <3>1, RecoveryLeft DEF process
  <2> QED
    BY <1>0, <1>2, <1>4, <1>6, <2>1, <2>2, <2>3, <2>4, StepSuffices DEF StepOK
<1> QED
  BY <1>5, <1>6 DEF StartIngest

-----------------------------------------------------------------------------
(* _cleanup_provider *)

(* Detaching leaves the other files in the vector store. *)
LEMMA DetachFrame ==
    ASSUME TypeOK, NEW t \in AllTasks, task[t].file \in Files, Detach(t)
    PROVE  /\ task' \in [AllTasks -> TaskRecords]
           /\ \A u \in AllTasks \ {t} : task'[u] = task[u]
           /\ task'[t].pc = "remove" /\ task'[t].op = task[t].op /\ task'[t].res = task[t].res
           /\ task'[t].file = task[t].file /\ task'[t].status = task[t].status
           /\ task'[t].abandon = task[t].abandon /\ task'[t].path = task[t].path
           /\ task'[t].failed => task[t].failed \/ "cleanup" \in Faults
           /\ attachment' \in [Files -> {"none", "in_progress", "completed", "failed"}]
           /\ \A f \in Files \ {task[t].file} : attachment'[f] = attachment[f]
<1> DEFINE gone == [attachment EXCEPT ![task[t].file] = "none"]
           new == [task[t] EXCEPT !.pc = "remove", !.failed = TRUE]
<1>1. task[t] \in TaskRecords
  BY DEF TypeOK, AllTasks
<1>2. ASSUME attachment' \in {attachment, gone}
      PROVE  /\ attachment' \in [Files -> {"none", "in_progress", "completed", "failed"}]
             /\ \A f \in Files \ {task[t].file} : attachment'[f] = attachment[f]
  BY <1>2 DEF TypeOK
<1>3. CASE attachment' = gone /\ GoTo(t, "remove")
  BY <1>2, <1>3, GoToFrame
<1>4. CASE /\ "cleanup" \in Faults /\ attachment' \in {attachment, gone}
           /\ task' = [task EXCEPT ![t] = new]
  <2>1. /\ new \in TaskRecords /\ new.pc = "remove" /\ new.op = task[t].op
        /\ new.res = task[t].res /\ new.file = task[t].file /\ new.status = task[t].status
        /\ new.abandon = task[t].abandon /\ new.path = task[t].path
    BY <1>1 DEF TaskRecords
  <2> HIDE DEF new, gone
  <2>2. /\ task' \in [AllTasks -> TaskRecords] /\ task'[t] = new
        /\ \A u \in AllTasks \ {t} : task'[u] = task[u]
    BY <1>4, <2>1 DEF TypeOK, AllTasks
  <2> QED
    BY <1>2, <1>4, <2>1, <2>2
<1> QED
  BY <1>3, <1>4 DEF Detach

(* A clean-up that has not failed has deleted the file. *)
LEMMA RemoveFrame ==
    ASSUME TypeOK, NEW t \in AllTasks, Remove(t)
    PROVE  /\ task' \in [AllTasks -> TaskRecords]
           /\ \A u \in AllTasks \ {t} : task'[u] = task[u]
           /\ task'[t].pc = "cleaned" /\ task'[t].op = task[t].op /\ task'[t].res = task[t].res
           /\ task'[t].file = task[t].file /\ task'[t].status = task[t].status
           /\ task'[t].abandon = task[t].abandon /\ task'[t].path = task[t].path
           /\ task'[t].failed => task[t].failed \/ "cleanup" \in Faults
           /\ ~task'[t].failed => task[t].file \notin stored'
           /\ stored' \subseteq stored
<1> DEFINE gone == stored \ {task[t].file}
           new == [task[t] EXCEPT !.pc = "cleaned", !.failed = TRUE]
<1>1. task[t] \in TaskRecords
  BY DEF TypeOK, AllTasks
<1>2. CASE stored' = gone /\ GoTo(t, "cleaned")
  BY <1>2, GoToFrame
<1>3. CASE /\ "cleanup" \in Faults /\ stored' \in {stored, gone}
           /\ task' = [task EXCEPT ![t] = new]
  <2>1. /\ new \in TaskRecords /\ new.pc = "cleaned" /\ new.op = task[t].op
        /\ new.res = task[t].res /\ new.file = task[t].file /\ new.status = task[t].status
        /\ new.abandon = task[t].abandon /\ new.failed = TRUE
        /\ new.path = task[t].path
    BY <1>1 DEF TaskRecords
  <2>2. stored' \subseteq stored
    BY <1>3
  <2> HIDE DEF new, gone
  <2>3. /\ task' \in [AllTasks -> TaskRecords] /\ task'[t] = new
        /\ \A u \in AllTasks \ {t} : task'[u] = task[u]
    BY <1>3, <2>1 DEF TypeOK, AllTasks
  <2> QED
    BY <1>3, <2>1, <2>2, <2>3
<1> QED
  BY <1>2, <1>3 DEF Remove

(* A deletion that goes on cleaning up. *)
LEMMA DeleteGoes ==
    ASSUME IInv, NEW t \in Tasks, NEW r \in Resources, task[t].res = r,
           task[t].op = "delete", task[t].pc # "mark",
           UNCHANGED <<row, pending, process, todo>>, TypeOK',
           \A u \in AllTasks \ {t} : task'[u] = task[u],
           task'[t].op = "delete", task'[t].res = r,
           task'[t].pc \in {"detach", "remove", "cleaned"},
           task'[t].failed => "cleanup" \in Faults, FileOf(t)', Moved(r),
           row[r].file \in {task'[t].file, None}
    PROVE  IInv'
<1>0. /\ t \in AllTasks /\ r # None /\ row[r] \in Rows /\ RowOf(r) /\ Withdraws(t, r)
      /\ row[r].status \in {"deleting", "deleted"} \/ Bare(r)
  BY Parts DEF Withdraws, DeleteOf
<1>1. OthersLeft(t, r)
  <2>1. UploadLeft(t, r)
    BY Parts DEF UploadLeft, UploadOf
  <2>2. PathLeft(t, r) /\ RetryLeft(t, r)
    BY Parts DEF PathLeft, RetryLeft, RetryOf
  <2>3. DeleteLeft(t, r)
    BY <1>0 DEF DeleteLeft, Bare
  <2>4. IngestLeft(t, r)
    BY <1>0, NoSoundClaim DEF IngestLeft
  <2> QED
    BY <2>1, <2>2, <2>3, <2>4 DEF OthersLeft
<1>2. KindOf(t)'
  BY Parts DEF KindOf, Pcs
<1>3. OwnOf(t)'
  BY <1>0 DEF OwnOf, UploadOf, IngestOf, DeleteOf, RetryOf, HasClaimed, Withdraws, Bare
<1>4. RowOf(r)'
  BY <1>0 DEF RowOf, Moved, Rows, Bare, Working
<1> QED
  BY <1>1, <1>2, <1>3, <1>4, ProgressSuffices

LEMMA DetachStep ==
    ASSUME IInv, NEW t \in Tasks, Detach(t)
    PROVE  IInv'
<1>0. /\ task[t].pc = "detach" /\ TypeOK /\ t \in AllTasks /\ task[t] \in TaskRecords
      /\ KindOf(t) /\ FileOf(t)
      /\ UNCHANGED <<row, staged, stored, origin, pending, process, todo>>
  BY Parts DEF Detach
<1>1. task[t].op \in {"ingest", "delete"} /\ task[t].file # None /\ task[t].file \in Files
  BY <1>0, Parts DEF KindOf, Pcs, FileOf, TaskRecords
<1>r. PICK r \in Resources : r = task[t].res
  BY <1>1, Active
<1> DEFINE f == task[t].file
<1>2. origin[f] = r /\ r # None /\ row[r] \in Rows /\ RowOf(r)
  BY <1>0, <1>1, <1>r, Parts DEF FileOf
<1>3. /\ task' \in [AllTasks -> TaskRecords]
      /\ \A u \in AllTasks \ {t} : task'[u] = task[u]
      /\ task'[t].pc = "remove" /\ task'[t].op = task[t].op /\ task'[t].res = r
      /\ task'[t].file = f /\ task'[t].status = task[t].status
      /\ task'[t].abandon = task[t].abandon /\ task'[t].path = task[t].path
      /\ task'[t].failed => task[t].failed \/ "cleanup" \in Faults
      /\ attachment' \in [Files -> {"none", "in_progress", "completed", "failed"}]
      /\ \A g \in Files \ {f} : attachment'[g] = attachment[g]
  BY <1>0, <1>1, <1>r, DetachFrame
<1>4. TypeOK'
  BY <1>0, <1>r, <1>3, Parts DEF TypeOK, AllTasks, process
<1>5. Moved(r)
  BY <1>0, <1>2, <1>3 DEF Moved
<1>6. FileOf(t)' /\ (task'[t].failed => "cleanup" \in Faults)
  BY <1>0, <1>r, <1>1, <1>2, <1>3 DEF FileOf, KindOf
<1>7. CASE task[t].op = "ingest"
  <2>1. /\ task[t].pc \in Claimed /\ task'[t].pc \in Claimed /\ ~task'[t].abandon
        /\ row[r].status = "processing" /\ IngestOf(t) /\ HasClaimed(t, r)
        /\ task[t].path /\ Sound(t)
    BY <1>0, <1>r, <1>3, <1>7, ClaimFacts DEF Claimed
  <2>2. Tidy => row[r].file = f
    BY <1>0, <1>r, <2>1 DEF IngestOf
  <2>3. row[r].file # None => origin'[row[r].file] = r
    BY <1>0, <1>2 DEF RowOf
  <2> QED
    BY <1>0, <1>r, <1>3, <1>4, <1>5, <1>6, <1>7, <2>1, <2>2, <2>3, IngestGoes
<1>8. CASE task[t].op = "delete"
  <2>1. row[r].file \in {f, None}
    BY <1>0, <1>r, <1>8, Parts DEF DeleteOf, Withdraws
  <2> QED
    BY <1>0, <1>r, <1>3, <1>4, <1>5, <1>6, <1>8, <2>1, DeleteGoes
<1> QED
  BY <1>1, <1>7, <1>8

LEMMA RemoveStep ==
    ASSUME IInv, NEW t \in Tasks, Remove(t)
    PROVE  IInv'
<1>0. /\ task[t].pc = "remove" /\ TypeOK /\ t \in AllTasks /\ task[t] \in TaskRecords
      /\ KindOf(t) /\ FileOf(t)
      /\ UNCHANGED <<row, staged, attachment, origin, pending, process, todo>>
  BY Parts DEF Remove
<1>1. task[t].op \in {"ingest", "delete"}
  BY <1>0, Parts DEF KindOf, Pcs, TaskRecords
<1>r. PICK r \in Resources : r = task[t].res
  BY <1>1, Active
<1> DEFINE f == task[t].file
<1>2. r # None /\ row[r] \in Rows /\ RowOf(r)
  BY Parts
<1>3. /\ task' \in [AllTasks -> TaskRecords]
      /\ \A u \in AllTasks \ {t} : task'[u] = task[u]
      /\ task'[t].pc = "cleaned" /\ task'[t].op = task[t].op /\ task'[t].res = r
      /\ task'[t].file = f /\ task'[t].status = task[t].status
      /\ task'[t].abandon = task[t].abandon /\ task'[t].path = task[t].path
      /\ task'[t].failed => task[t].failed \/ "cleanup" \in Faults
      /\ ~task'[t].failed => f \notin stored'
      /\ stored' \subseteq stored
  BY <1>0, <1>r, RemoveFrame
<1>4. TypeOK'
  BY <1>0, <1>r, <1>3, Parts DEF TypeOK, AllTasks, process
<1>5. Moved(r)
  BY <1>0, <1>3 DEF Moved
<1>6. FileOf(t)' /\ (task'[t].failed => "cleanup" \in Faults)
  BY <1>0, <1>r, <1>2, <1>3 DEF FileOf, KindOf
<1>7. CASE task[t].op = "ingest"
  <2>1. /\ task[t].pc \in Claimed /\ task'[t].pc \in Claimed /\ ~task'[t].abandon
        /\ row[r].status = "processing" /\ IngestOf(t) /\ HasClaimed(t, r)
        /\ task[t].path /\ Sound(t)
    BY <1>0, <1>r, <1>3, <1>7, ClaimFacts DEF Claimed
  <2>2. Tidy => row[r].file = f
    BY <1>0, <1>r, <2>1 DEF IngestOf
  <2>3. row[r].file # None => origin'[row[r].file] = r
    BY <1>0, <1>2 DEF RowOf
  <2> QED
    BY <1>0, <1>r, <1>3, <1>4, <1>5, <1>6, <1>7, <2>1, <2>2, <2>3, IngestGoes
<1>8. CASE task[t].op = "delete"
  <2>1. row[r].file \in {f, None}
    BY <1>0, <1>r, <1>8, Parts DEF DeleteOf, Withdraws
  <2> QED
    BY <1>0, <1>r, <1>3, <1>4, <1>5, <1>6, <1>8, <2>1, DeleteGoes
<1> QED
  BY <1>1, <1>7, <1>8

-----------------------------------------------------------------------------
(* Deletions *)

(* The deletion reads the row again, and cleans up the file it finds.      *)
LEMMA DeleteReloadStep ==
    ASSUME IInv, NEW t \in Tasks, DeleteReload(t)
    PROVE  IInv'
<1>0. /\ task[t].op = "delete" /\ task[t].pc = "reload"
      /\ UNCHANGED <<row, staged, provider, pending, process, todo>>
  BY DEF DeleteReload, At
<1>r. PICK r \in Resources : r = task[t].res
  BY <1>0, Active
<1>1. /\ TypeOK /\ t \in AllTasks /\ task[t] \in TaskRecords /\ KindOf(t)
      /\ r # None /\ row[r] \in Rows /\ RowOf(r)
  BY Parts
<1> DEFINE pc == FirstOfCleanUp(row[r].file)
           new == [task[t] EXCEPT !.status = row[r].status, !.path = row[r].path,
                                  !.file = row[r].file, !.pc = pc]
<1>2. pc \in {"cleaned", "detach"} /\ (pc = "cleaned" <=> row[r].file = None)
  BY DEF FirstOfCleanUp
<1>3. task' = [task EXCEPT ![t] = new]
  BY <1>r DEF DeleteReload
<1> HIDE DEF pc
<1>4. /\ new \in TaskRecords /\ new.op = "delete" /\ new.pc = pc /\ new.res = r
      /\ new.file = row[r].file /\ new.failed = task[t].failed
  BY <1>0, <1>r, <1>1, <1>2 DEF TaskRecords, Rows
<1> HIDE DEF new
<1>5. /\ task' \in [AllTasks -> TaskRecords] /\ task'[t] = new
      /\ \A u \in AllTasks \ {t} : task'[u] = task[u]
  BY <1>1, <1>3, <1>4 DEF TypeOK, AllTasks
<1>6. TypeOK'
  BY <1>0, <1>1, <1>4, <1>5, Parts DEF TypeOK, AllTasks, provider, process
<1>7. FileOf(t)' /\ Moved(r)
  BY <1>0, <1>1, <1>2, <1>4, <1>5 DEF FileOf, Moved, provider, RowOf
<1> QED
  BY <1>0, <1>r, <1>1, <1>2, <1>4, <1>5, <1>6, <1>7, DeleteGoes DEF KindOf

(* The compare-and-set that takes a row for deletion. *)
LEMMA DeleteMarkStep ==
    ASSUME IInv, NEW t \in Tasks, DeleteMark(t)
    PROVE  IInv'
<1>0. /\ task[t].op = "delete" /\ task[t].pc = "mark"
      /\ UNCHANGED <<staged, provider, pending, process, todo>>
  BY DEF DeleteMark, At
<1>r. PICK r \in Resources : r = task[t].res
  BY <1>0, Active
<1>1. /\ TypeOK /\ t \in AllTasks /\ task[t] \in TaskRecords /\ KindOf(t) /\ FileOf(t)
      /\ r # None /\ row[r] \in Rows /\ RowOf(r) /\ DeleteOf(t)
  BY Parts
<1>2. CASE End(t) /\ UNCHANGED row
  BY <1>0, <1>1, <1>2, QuietEnd DEF TypeOK
<1>3. CASE row[r].status = task[t].status /\ SetStatus(r, "deleting") /\ GoTo(t, "reload")
  <2>0. row[r].status \notin {"absent", "processing"}
    BY <1>0, <1>1, <1>3 DEF DeleteOf
  <2>1. /\ task' \in [AllTasks -> TaskRecords]
        /\ \A u \in AllTasks \ {t} : task'[u] = task[u]
        /\ task'[t].pc = "reload" /\ task'[t].op = "delete" /\ task'[t].res = r
        /\ task'[t].file = task[t].file /\ task'[t].failed = task[t].failed
    BY <1>0, <1>r, <1>1, <1>3, GoToFrame
  <2>2. /\ row' \in [Resources -> Rows] /\ \A q \in Resources \ {r} : row'[q] = row[q]
        /\ row'[r].status = "deleting" /\ row'[r].file = row[r].file
        /\ row'[r].path = row[r].path
    BY <1>1, <1>3, SetStatusFrame DEF Statuses
  <2>3. TypeOK'
    BY <1>0, <1>1, <2>1, <2>2, Parts DEF TypeOK, AllTasks, provider, process
  <2>4. Moved(r) /\ FileOf(t)' /\ KindOf(t)'
    BY <1>0, <1>1, <1>r, <2>1, <2>2, Parts DEF Moved, FileOf, KindOf, Pcs, provider
  <2>5. OthersLeft(t, r)
    <3>1. UploadLeft(t, r) /\ DeleteLeft(t, r) /\ RetryLeft(t, r)
      BY <1>0, <2>1, <2>2, Parts DEF UploadLeft, UploadOf, DeleteLeft, RetryLeft
    <3>2. IngestLeft(t, r)
      BY <2>0, Parts DEF IngestLeft, IngestOf, HasClaimed
    <3>3. PathLeft(t, r)
      BY <2>2 DEF PathLeft, Working
    <3> QED
      BY <3>1, <3>2, <3>3 DEF OthersLeft
  <2>6. OwnOf(t)'
    BY <2>1, <2>2 DEF OwnOf, UploadOf, IngestOf, DeleteOf, RetryOf, HasClaimed, Withdraws
  <2>7. RowOf(r)'
    BY <1>0, <1>1, <2>2 DEF RowOf, Working, provider
  <2> QED
    BY <1>0, <1>r, <2>1, <2>3, <2>4, <2>5, <2>6, <2>7, ProgressSuffices
<1> QED
  BY <1>r, <1>2, <1>3 DEF DeleteMark, CanTransition

(* The end of a deletion: the row forgets its file when it is cleaned up.  *)
LEMMA DeleteCleanedStep ==
    ASSUME IInv, NEW t \in Tasks, DeleteCleaned(t)
    PROVE  IInv'
<1>0. /\ task[t].op = "delete" /\ task[t].pc = "cleaned" /\ End(t)
      /\ UNCHANGED <<provider, pending, process, todo>>
  BY DEF DeleteCleaned, At
<1>r. PICK r \in Resources : r = task[t].res
  BY <1>0, Active
<1>1. /\ TypeOK /\ t \in AllTasks /\ task[t] \in TaskRecords /\ KindOf(t) /\ FileOf(t)
      /\ r # None /\ row[r] \in Rows /\ RowOf(r) /\ DeleteOf(t)
  BY Parts
<1>2. Withdraws(t, r) /\ row[r].status # "absent"
  BY <1>0, <1>r, <1>1 DEF DeleteOf, Withdraws, Bare, Working
<1>3. /\ row' \in [Resources -> Rows] /\ \A q \in Resources \ {r} : row'[q] = row[q]
      /\ row'[r].status \in {"deleting", "deleted"} /\ row'[r].file \in {row[r].file, None}
      /\ (row'[r].path => row[r].path) /\ staged' \subseteq Resources
  <2>1. CASE SetStatus(r, "deleting") /\ UNCHANGED staged
    <3>1. "deleting" \in Statuses
      BY DEF Statuses
    <3> QED
      BY <1>1, <2>1, <3>1, SetStatusFrame DEF TypeOK
  <2>2. CASE /\ row' = [row EXCEPT ![r] = [NoRow EXCEPT !.status = "deleted"]]
             /\ staged' \in {staged, staged \ {r}}
    <3> DEFINE new == [NoRow EXCEPT !.status = "deleted"]
    <3>1. new \in Rows /\ new.status = "deleted" /\ new.file = None /\ new.path = FALSE
      BY DEF NoRow, Rows, Statuses
    <3>2. row' = [row EXCEPT ![r] = new]
      BY <2>2
    <3> HIDE DEF new
    <3> QED
      BY <1>1, <2>2, <3>1, <3>2 DEF TypeOK
  <2> QED
    BY <1>r, <2>1, <2>2 DEF DeleteCleaned
<1>4. /\ task' \in [AllTasks -> TaskRecords] /\ task'[t] = NoTask
      /\ \A u \in AllTasks \ {t} : task'[u] = task[u]
  BY <1>0, <1>1, EndFrame
<1>5. KindOf(t)' /\ FileOf(t)' /\ OwnOf(t)' /\ task'[t].res = None /\ task'[t].op = "none"
  BY <1>1, <1>4, EndedTask, NoTaskFacts
<1>6. TypeOK'
  BY <1>0, <1>1, <1>3, <1>4, NoTaskFacts, Parts DEF TypeOK, AllTasks, provider, process
<1>7. Moved(r)
  BY <1>0, <1>3 DEF Moved, provider
<1>8. OthersLeft(t, r)
  <2>1. UploadLeft(t, r) /\ DeleteLeft(t, r) /\ RetryLeft(t, r)
    BY <1>0, <1>1, <1>3, <1>5, Parts DEF UploadLeft, UploadOf, DeleteLeft, RetryLeft
  <2>2. IngestLeft(t, r)
    BY <1>2, NoSoundClaim DEF IngestLeft
  <2>3. PathLeft(t, r)
    BY <1>3 DEF PathLeft, Working
  <2> QED
    BY <2>1, <2>2, <2>3 DEF OthersLeft
<1>9. RowOf(r)'
  BY <1>0, <1>1, <1>3 DEF RowOf, Working, provider
<1> QED
  BY <1>0, <1>r, <1>4, <1>5, <1>6, <1>7, <1>8, <1>9, ProgressSuffices

(* A deletion is requested. *)
LEMMA DeleteStep ==
    ASSUME IInv, NEW t \in Tasks, NEW r \in Resources, Delete(t, r)
    PROVE  IInv'
<1>0. /\ TypeOK /\ t \in AllTasks /\ task[t] \in TaskRecords /\ KindOf(t) /\ r # None
      /\ row[r] \in Rows /\ RowOf(r) /\ Serving /\ up /\ task[t].pc = "idle"
      /\ row[r].status \notin {"absent", "deleted", "processing"} /\ "delete" \in Ops
      /\ UNCHANGED <<row, staged, provider, pending, process, todo>>
  BY Parts DEF Delete, Deletable, Serving
<1>1. task[t].op = "none"
  BY <1>0 DEF KindOf, Pcs, TaskRecords
<1>2. Moved(r)
  BY <1>0 DEF Moved, provider
<1>3. ASSUME task' \in [AllTasks -> TaskRecords],
             \A u \in AllTasks \ {t} : task'[u] = task[u],
             task'[t].op = "delete", task'[t].res = r, ~task'[t].failed,
             \/ /\ task'[t].pc = "mark" /\ task'[t].status = row[r].status
                /\ task'[t].file = None
             \/ /\ row[r].status = "deleting" /\ task'[t].file = row[r].file
                /\ task'[t].pc \in {"cleaned", "detach"}
                /\ task'[t].pc = "cleaned" <=> row[r].file = None
      PROVE  IInv'
  <2>1. TypeOK'
    BY <1>0, <1>3, Parts DEF TypeOK, AllTasks, provider, process
  <2>2. KindOf(t)'
    BY <1>0, <1>3, Parts DEF KindOf, Pcs
  <2>3. FileOf(t)'
    BY <1>0, <1>3 DEF FileOf, RowOf, provider
  <2>4. OwnOf(t)'
    BY <1>0, <1>3 DEF OwnOf, UploadOf, IngestOf, DeleteOf, RetryOf, HasClaimed, Withdraws
  <2>5. OthersLeft(t, r)
    <3>1. /\ ~HasClaimed(t, r)'
          /\ Withdraws(t, r)' => row[r].status = "deleting"
      BY <1>3 DEF HasClaimed, Withdraws
    <3> QED
      BY <1>0, <1>3, <3>1, QuietLeft DEF provider
  <2>6. RowOf(r)'
    BY <1>0 DEF RowOf, provider
  <2> QED
    BY <1>0, <1>1, <1>2, <1>3, <2>1, <2>2, <2>3, <2>4, <2>5, <2>6, BeginSuffices
<1>4. CASE Begin(t, "delete", "mark", r)
  BY <1>0, <1>3, <1>4, BeginFrame
<1>5. ASSUME row[r].status = "deleting",
             task' = [task EXCEPT ![t] = [NoTask EXCEPT
                !.op = "delete", !.res = r, !.status = "deleting",
                !.path = row[r].path, !.file = row[r].file,
                !.pc = FirstOfCleanUp(row[r].file)]]
      PROVE  IInv'
  <2> DEFINE pc == FirstOfCleanUp(row[r].file)
             new == [NoTask EXCEPT !.op = "delete", !.res = r, !.status = "deleting",
                        !.path = row[r].path, !.file = row[r].file, !.pc = pc]
  <2>1. pc \in {"cleaned", "detach"} /\ (pc = "cleaned" <=> row[r].file = None)
    BY DEF FirstOfCleanUp
  <2>2. task' = [task EXCEPT ![t] = new]
    BY <1>5
  <2> HIDE DEF pc
  <2>3. /\ new \in TaskRecords /\ new.op = "delete" /\ new.pc = pc /\ new.res = r
        /\ new.file = row[r].file /\ new.failed = FALSE
    BY <1>0, <2>1, ZenonT(40) DEF TaskRecords, Rows, NoTask, Statuses
  <2> HIDE DEF new
  <2>4. /\ task' \in [AllTasks -> TaskRecords] /\ task'[t] = new
        /\ \A u \in AllTasks \ {t} : task'[u] = task[u]
    BY <1>0, <2>2, <2>3 DEF TypeOK, AllTasks
  <2> QED
    BY <1>3, <1>5, <2>1, <2>3, <2>4
<1> QED
  BY <1>4, <1>5 DEF Delete

-----------------------------------------------------------------------------
(* Retries *)

LEMMA RetryStep ==
    ASSUME IInv, NEW t \in Tasks, NEW r \in Resources, Retry(t, r)
    PROVE  IInv'
<1>0. /\ TypeOK /\ t \in AllTasks /\ task[t] \in TaskRecords /\ KindOf(t) /\ r # None
      /\ row[r] \in Rows /\ RowOf(r) /\ Serving /\ up /\ task[t].pc = "idle"
      /\ row[r].status = "error" /\ row[r].file = None /\ "retry" \in Ops
      /\ Begin(t, "retry", "requeue", r)
      /\ UNCHANGED <<row, staged, provider, pending, process, todo>>
  BY Parts DEF Retry, Retryable, Serving
<1>1. task[t].op = "none"
  BY <1>0 DEF KindOf, Pcs, TaskRecords
<1>2. /\ task' \in [AllTasks -> TaskRecords]
      /\ \A u \in AllTasks \ {t} : task'[u] = task[u]
      /\ task'[t].pc = "requeue" /\ task'[t].op = "retry" /\ task'[t].res = r
      /\ task'[t].file = None /\ ~task'[t].failed
  BY <1>0, BeginFrame
<1>3. TypeOK'
  BY <1>0, <1>2, Parts DEF TypeOK, AllTasks, provider, process
<1>4. KindOf(t)' /\ FileOf(t)'
  BY <1>0, <1>2, Parts DEF KindOf, Pcs, FileOf
<1>5. OwnOf(t)'
  BY <1>0, <1>2 DEF OwnOf, UploadOf, IngestOf, DeleteOf, RetryOf, HasClaimed, Withdraws
<1>6. OthersLeft(t, r)
  <2>1. ~HasClaimed(t, r)' /\ ~Withdraws(t, r)'
    BY <1>2 DEF HasClaimed, Withdraws
  <2> QED
    BY <1>0, <2>1, QuietLeft DEF provider
<1>7. Moved(r) /\ RowOf(r)'
  BY <1>0 DEF Moved, RowOf, provider
<1> QED
  BY <1>0, <1>1, <1>2, <1>3, <1>4, <1>5, <1>6, <1>7, BeginSuffices

(* The compare-and-set that queues a row again; where it meets a deletion  *)
(* at work, the row names no bytes.                                        *)
LEMMA RetryRequeueStep ==
    ASSUME IInv, NEW t \in Tasks, RetryRequeue(t)
    PROVE  IInv'
<1>0. /\ task[t].op = "retry" /\ End(t)
      /\ UNCHANGED <<staged, provider, process, todo>>
  BY DEF RetryRequeue, At
<1>r. PICK r \in Resources : r = task[t].res
  BY <1>0, Active
<1>1. /\ TypeOK /\ t \in AllTasks /\ task[t] \in TaskRecords /\ KindOf(t) /\ RetryOf(t)
      /\ r # None /\ row[r] \in Rows /\ RowOf(r)
  BY Parts
<1>2. CASE UNCHANGED <<row, pending>>
  BY <1>0, <1>1, <1>2, QuietEnd DEF TypeOK
<1>3. CASE row[r].status = "error" /\ SetStatus(r, "queued") /\ pending' = pending \cup {r}
  <2>1. /\ task' \in [AllTasks -> TaskRecords] /\ task'[t] = NoTask
        /\ \A u \in AllTasks \ {t} : task'[u] = task[u]
    BY <1>0, <1>1, EndFrame
  <2>2. /\ row' \in [Resources -> Rows] /\ \A q \in Resources \ {r} : row'[q] = row[q]
        /\ row'[r].status = "queued" /\ row'[r].file = row[r].file
        /\ row'[r].path = row[r].path
    BY <1>1, <1>3, SetStatusFrame DEF Statuses
  <2>3. KindOf(t)' /\ FileOf(t)' /\ OwnOf(t)' /\ task'[t].res = None /\ task'[t].op = "none"
    BY <1>1, <2>1, EndedTask, NoTaskFacts
  <2>4. TypeOK'
    BY <1>0, <1>1, <1>3, <2>1, <2>2, NoTaskFacts DEF TypeOK, AllTasks, provider, process
  <2>5. Moved(r)
    BY <1>0, <1>3, <2>2 DEF Moved, provider
  <2>6. OthersLeft(t, r)
    <3>1. UploadLeft(t, r)
      BY <1>0, <1>r, Parts DEF UploadLeft, UploadOf
    <3>2. IngestLeft(t, r)
      BY <1>3, Parts DEF IngestLeft, IngestOf, HasClaimed
    <3>3. DeleteLeft(t, r)
      <4>1. ASSUME NEW u \in Tasks, Withdraws(u, r)
            PROVE  Bare(r)'
        <5>1. Bare(r) /\ "delete" \in Ops
          BY <1>3, <4>1, Parts DEF DeleteOf, Withdraws, KindOf
        <5>2. "retry" \in Ops
          BY <1>0, <1>1 DEF KindOf
        <5> QED
          BY <2>2, <5>1, <5>2 DEF Orderly, Bare, Working
      <4> QED
        BY <2>2, <4>1 DEF DeleteLeft
    <3>4. RetryLeft(t, r) /\ PathLeft(t, r)
      BY <1>3, <2>2 DEF RetryLeft, PathLeft, Working
    <3> QED
      BY <3>1, <3>2, <3>3, <3>4 DEF OthersLeft
  <2>7. RowOf(r)'
    <3>1. Tidy => row[r].file = None
      BY <1>0, <1>r, <1>1, <1>3 DEF RetryOf
    <3> QED
      BY <1>0, <1>1, <1>3, <2>2, <3>1 DEF RowOf, Working, provider
  <2> QED
    BY <1>0, <1>r, <2>1, <2>3, <2>4, <2>5, <2>6, <2>7, ProgressSuffices
<1> QED
  BY <1>r, <1>2, <1>3 DEF RetryRequeue, CanTransition

-----------------------------------------------------------------------------
(* Uploads *)

LEMMA UploadStep ==
    ASSUME IInv, NEW t \in Tasks, NEW r \in Resources, Upload(t, r)
    PROVE  IInv'
<1>0. /\ TypeOK /\ t \in AllTasks /\ task[t] \in TaskRecords /\ KindOf(t) /\ r # None
      /\ row[r] \in Rows /\ RowOf(r) /\ Serving /\ up /\ task[t].pc = "idle"
      /\ row[r].status = "absent" /\ Begin(t, "upload", "stage", r)
      /\ row' = [row EXCEPT ![r] = [NoRow EXCEPT !.status = "queued"]]
      /\ UNCHANGED <<staged, provider, pending, process, todo>>
  BY Parts DEF Upload, Serving
<1>1. task[t].op = "none"
  BY <1>0 DEF KindOf, Pcs, TaskRecords
<1>2. /\ task' \in [AllTasks -> TaskRecords]
      /\ \A u \in AllTasks \ {t} : task'[u] = task[u]
      /\ task'[t].pc = "stage" /\ task'[t].op = "upload" /\ task'[t].res = r
      /\ task'[t].file = None /\ ~task'[t].failed
  BY <1>0, BeginFrame
<1>3. /\ row' \in [Resources -> Rows] /\ \A q \in Resources \ {r} : row'[q] = row[q]
      /\ row'[r].status = "queued" /\ row'[r].file = None /\ ~row'[r].path
  <2> DEFINE new == [NoRow EXCEPT !.status = "queued"]
  <2>1. new \in Rows /\ new.status = "queued" /\ new.file = None /\ ~new.path
    BY DEF NoRow, Rows, Statuses
  <2>2. row' = [row EXCEPT ![r] = new]
    BY <1>0
  <2> HIDE DEF new
  <2> QED
    BY <1>0, <2>1, <2>2, ZenonT(40) DEF TypeOK
<1>4. TypeOK'
  BY <1>0, <1>2, <1>3, Parts DEF TypeOK, AllTasks, provider, process
<1>5. KindOf(t)' /\ FileOf(t)'
  BY <1>0, <1>2, Parts DEF KindOf, Pcs, FileOf
<1>6. r \notin pending /\ \A u \in Tasks : task[u].res # r
  BY <1>0 DEF RowOf
<1>7. OwnOf(t)'
  <2>1. UploadOf(t)'
    BY <1>0, <1>2, <1>3, <1>6 DEF UploadOf, AllTasks
  <2> QED
    BY <1>2, <2>1 DEF OwnOf, IngestOf, DeleteOf, RetryOf, HasClaimed, Withdraws
<1>8. OthersLeft(t, r)
  BY <1>6 DEF OthersLeft, UploadLeft, PathLeft, IngestLeft, DeleteLeft, RetryLeft,
     HasClaimed, Withdraws
<1>9. Moved(r) /\ RowOf(r)'
  BY <1>0, <1>3 DEF Moved, RowOf, provider
<1> QED
  BY <1>0, <1>1, <1>2, <1>4, <1>5, <1>7, <1>8, <1>9, BeginSuffices

(* The bytes are staged, or cleared away again. *)
LEMMA UploadStageStep ==
    ASSUME IInv, NEW t \in Tasks, UploadStage(t)
    PROVE  IInv'
<1>0. /\ task[t].op = "upload" /\ task[t].pc = "stage"
      /\ UNCHANGED <<row, provider, pending, process, todo>>
  BY DEF UploadStage, At
<1>r. PICK r \in Resources : r = task[t].res
  BY <1>0, Active
<1>1. /\ TypeOK /\ t \in AllTasks /\ task[t] \in TaskRecords /\ KindOf(t) /\ FileOf(t)
      /\ r # None /\ row[r] \in Rows /\ RowOf(r) /\ UploadOf(t)
  BY Parts
<1>2. PICK pc \in {"describe", "unstaged"} :
         GoTo(t, pc) /\ (pc = "unstaged" => "stage" \in Faults)
  BY DEF UploadStage
<1>3. staged' \subseteq Resources
  BY <1>1, <1>r DEF UploadStage, TypeOK
<1>4. /\ task' \in [AllTasks -> TaskRecords]
      /\ \A u \in AllTasks \ {t} : task'[u] = task[u]
      /\ task'[t].pc = pc /\ task'[t].op = "upload" /\ task'[t].res = r
      /\ task'[t].file = task[t].file /\ task'[t].failed = task[t].failed
  BY <1>0, <1>r, <1>1, <1>2, GoToFrame
<1>5. TypeOK'
  BY <1>0, <1>1, <1>3, <1>4, Parts DEF TypeOK, AllTasks, provider, process
<1>6. KindOf(t)' /\ FileOf(t)'
  BY <1>0, <1>1, <1>r, <1>2, <1>4, Parts DEF KindOf, Pcs, FileOf, provider
<1>7. OwnOf(t)'
  <2>1. UploadOf(t)'
    BY <1>0, <1>1, <1>r, <1>4 DEF UploadOf, AllTasks
  <2> QED
    BY <1>4, <2>1 DEF OwnOf, IngestOf, DeleteOf, RetryOf, HasClaimed, Withdraws
<1>8. OthersLeft(t, r)
  <2>1. ~HasClaimed(t, r)' /\ ~Withdraws(t, r)'
    BY <1>4 DEF HasClaimed, Withdraws
  <2> QED
    BY <1>0, <1>r, <1>4, <2>1, QuietLeft DEF provider
<1>9. Moved(r) /\ RowOf(r)'
  BY <1>0, <1>1, <1>r DEF Moved, RowOf, UploadOf, provider
<1> QED
  BY <1>0, <1>r, <1>4, <1>5, <1>6, <1>7, <1>8, <1>9, ProgressSuffices

(* The last write of an upload, that of the path or that of the error, is  *)
(* met by deletions alone.                                                 *)
LEMMA UploadEnds ==
    ASSUME IInv, NEW t \in Tasks, NEW r \in Resources, r = task[t].res,
           task[t].op = "upload", End(t), UNCHANGED <<staged, provider, process, todo>>,
           pending' \in {pending, pending \cup {r}},
           row' \in [Resources -> Rows], \A q \in Resources \ {r} : row'[q] = row[q],
           row'[r].file = row[r].file,
           \/ row'[r].status = row[r].status
           \/ row'[r].status = "error" /\ ~row'[r].path /\ "stage" \in Faults
    PROVE  IInv'
<1>1. /\ TypeOK /\ t \in AllTasks /\ r # None /\ row[r] \in Rows /\ RowOf(r) /\ UploadOf(t)
  BY Parts
<1>2. /\ row[r].status \in {"queued", "deleting", "deleted"} /\ row[r].file = None
      /\ \A u \in Tasks \ {t} : task[u].res = r =>
            task[u].op = "delete" /\ (row[r].status = "queued" => task[u].pc = "mark")
  BY <1>1 DEF UploadOf
<1>3. /\ task' \in [AllTasks -> TaskRecords] /\ task'[t] = NoTask
      /\ \A u \in AllTasks \ {t} : task'[u] = task[u]
  BY <1>1, EndFrame
<1>4. KindOf(t)' /\ FileOf(t)' /\ OwnOf(t)' /\ task'[t].res = None /\ task'[t].op = "none"
  BY <1>1, <1>3, EndedTask, NoTaskFacts
<1>5. TypeOK'
  BY <1>1, <1>3, NoTaskFacts DEF TypeOK, AllTasks, provider, process
<1>6. Moved(r)
  BY DEF Moved, provider
<1>7. OthersLeft(t, r)
  <2>1. UploadLeft(t, r) /\ PathLeft(t, r) /\ IngestLeft(t, r) /\ RetryLeft(t, r)
    BY <1>2 DEF UploadLeft, PathLeft, IngestLeft, RetryLeft, HasClaimed
  <2>2. DeleteLeft(t, r)
    BY <1>2 DEF DeleteLeft, Withdraws, Bare, Working
  <2> QED
    BY <2>1, <2>2 DEF OthersLeft
<1>8. RowOf(r)'
  BY <1>2 DEF RowOf
<1> QED
  BY <1>3, <1>4, <1>5, <1>6, <1>7, <1>8, ProgressSuffices

LEMMA UploadDescribeStep ==
    ASSUME IInv, NEW t \in Tasks, UploadDescribe(t)
    PROVE  IInv'
<1>0. task[t].op = "upload" /\ End(t) /\ UNCHANGED <<staged, provider, process, todo>>
  BY DEF UploadDescribe, At
<1>r. PICK r \in Resources : r = task[t].res
  BY <1>0, Active
<1> DEFINE new == [row[r] EXCEPT !.path = TRUE]
<1>1. row' = [row EXCEPT ![r] = new] /\ pending' = pending \cup {r}
  BY <1>r DEF UploadDescribe
<1>2. new \in Rows /\ new.status = row[r].status /\ new.file = row[r].file
  BY Parts DEF Rows
<1> HIDE DEF new
<1>3. /\ row' \in [Resources -> Rows] /\ row'[r] = new
      /\ \A q \in Resources \ {r} : row'[q] = row[q]
  BY <1>1, <1>2, Parts DEF TypeOK
<1> QED
  BY <1>0, <1>r, <1>1, <1>2, <1>3, UploadEnds

LEMMA UploadUnstagedStep ==
    ASSUME IInv, NEW t \in Tasks, UploadUnstaged(t)
    PROVE  IInv'
<1>0. /\ task[t].op = "upload" /\ task[t].pc = "unstaged" /\ End(t)
      /\ UNCHANGED <<staged, provider, pending, process, todo>>
  BY DEF UploadUnstaged, At
<1>r. PICK r \in Resources : r = task[t].res
  BY <1>0, Active
<1>1. "stage" \in Faults /\ "error" \in Statuses
  BY <1>0, Parts DEF KindOf, Statuses
<1>2. /\ row' \in [Resources -> Rows] /\ \A q \in Resources \ {r} : row'[q] = row[q]
      /\ row'[r].status = "error" /\ row'[r].file = row[r].file /\ ~row'[r].path
  BY <1>0, <1>r, <1>1, SetStatusFrame, Parts DEF UploadUnstaged, UploadOf
<1> QED
  BY <1>0, <1>r, <1>1, <1>2, UploadEnds

-----------------------------------------------------------------------------
(* recover_stale *)

(* What is known of a row that is recovered: no other task knows of it.    *)
LEMMA RecoverFacts ==
    ASSUME IInv, task[Startup].op = "recover"
    PROVE  /\ TypeOK /\ up /\ todo \subseteq Resources /\ task[Startup] \in TaskRecords
           /\ KindOf(Startup) /\ FileOf(Startup) /\ Startup \in AllTasks
           /\ \A r \in todo : /\ r # None /\ row[r] \in Rows /\ RowOf(r) /\ r \notin pending
                              /\ \A t \in Tasks : task[t].res # r
                              /\ \/ row[r].status = "processing"
                                 \/ task[Startup].pc = "sweep" /\ task[Startup].res = r
           /\ task[Startup].pc # "next" => task[Startup].res \in todo
           /\ task[Startup].pc \notin {"next", "sweep"} =>
                 row[task[Startup].res].file = task[Startup].file
BY Parts DEF Recovery, TypeOK

(* A step of the recovery of one row. *)
LEMMA RecoverSuffices ==
    ASSUME IInv, task[Startup].op = "recover", NEW r \in todo,
           task[Startup].pc # "next" => r = task[Startup].res,
           UNCHANGED <<process, pending>>, TypeOK', \A u \in Tasks : task'[u] = task[u],
           todo' \in {todo, todo \ {r}}, task'[Startup].op = "recover", KindOf(Startup)',
           FileOf(Startup)', Moved(r), RowOf(r)',
           r \in todo' => row'[r].status = "processing" \/ task'[Startup].pc = "sweep",
           task'[Startup].pc # "next" => task'[Startup].res = r /\ r \in todo',
           task'[Startup].pc \notin {"next", "sweep"} => row'[r].file = task'[Startup].file
    PROVE  IInv'
<1>0. /\ todo \subseteq Resources /\ Startup \in AllTasks /\ up
      /\ \A u \in Tasks : task[u].res # r
  BY RecoverFacts
<1>1. OthersLeft(Startup, r)
  BY <1>0 DEF OthersLeft, UploadLeft, PathLeft, IngestLeft, DeleteLeft, RetryLeft,
     HasClaimed, Withdraws
<1>2. Recovery'
  <2>1. ASSUME NEW q \in todo', q # r
        PROVE  row'[q].status = "processing"
    <3>1. q \in todo /\ row'[q] = row[q]
      BY <1>0, <2>1 DEF Moved
    <3> QED
      BY <2>1, <3>1, RecoverFacts
  <2>2. /\ \A t \in Tasks : task[t].op \in {"none", "ingest"} /\ task[t].res \notin todo
        /\ pending \cap todo = {}
    BY Parts DEF Recovery
  <2>3. todo' \subseteq todo /\ up'
    BY <1>0 DEF process
  <2>4. \A t \in Tasks : task'[t].op \in {"none", "ingest"} /\ task'[t].res \notin todo'
    BY <2>2, <2>3
  <2>5. \A q \in todo' : \/ row'[q].status = "processing"
                         \/ task'[Startup].pc = "sweep" /\ task'[Startup].res = q
    BY <2>1
  <2> QED
    BY <2>2, <2>3, <2>4, <2>5 DEF Recovery
<1>3. StepOK(Startup, r)
  BY <1>0, <1>1, <1>2, Parts DEF StepOK, AllTasks
<1> QED
  BY <1>0, <1>3, StepSuffices

(* A stale row: queued again, or its provider file is looked up. *)
LEMMA RecoverNextStep ==
    ASSUME IInv, NEW r \in Resources, RecoverNext(r)
    PROVE  IInv'
<1>0. /\ task[Startup].op = "recover" /\ task[Startup].pc = "next" /\ r \in todo
      /\ UNCHANGED <<staged, provider, pending, process>>
  BY DEF RecoverNext, At
<1>1. /\ TypeOK /\ task[Startup] \in TaskRecords /\ KindOf(Startup) /\ FileOf(Startup)
      /\ Startup \in AllTasks /\ r # None /\ row[r] \in Rows /\ RowOf(r)
      /\ r \notin pending /\ (\A t \in Tasks : task[t].res # r) /\ Startup \notin Tasks
      /\ row[r].status = "processing"
  BY <1>0, RecoverFacts, KnowledgeAssumption
<1>2. CASE /\ row[r].file = None /\ SetStatus(r, "queued") /\ todo' = todo \ {r}
           /\ UNCHANGED task
  <2>1. /\ row' \in [Resources -> Rows] /\ \A q \in Resources \ {r} : row'[q] = row[q]
        /\ row'[r].status = "queued" /\ row'[r].file = row[r].file
    BY <1>1, <1>2, SetStatusFrame DEF Statuses
  <2>2. TypeOK'
    BY <1>0, <1>1, <1>2, <2>1 DEF TypeOK, provider, process
  <2>3. KindOf(Startup)' /\ FileOf(Startup)'
    BY <1>0, <1>1, <1>2 DEF KindOf, FileOf, provider
  <2>4. Moved(r) /\ RowOf(r)'
    BY <1>0, <1>1, <1>2, <2>1 DEF Moved, RowOf, Working, provider
  <2> QED
    BY <1>0, <1>2, <2>2, <2>3, <2>4, RecoverSuffices
<1>3. ASSUME row[r].file # None, UNCHANGED <<row, todo>>,
             task' = [task EXCEPT ![Startup] = [@ EXCEPT
                   !.pc = "retrieve", !.res = r, !.file = row[r].file,
                   !.path = row[r].path, !.failed = FALSE]]
      PROVE  IInv'
  <2> DEFINE new == [task[Startup] EXCEPT !.pc = "retrieve", !.res = r, !.file = row[r].file,
                                          !.path = row[r].path, !.failed = FALSE]
  <2>1. /\ new \in TaskRecords /\ new.pc = "retrieve" /\ new.op = "recover" /\ new.res = r
        /\ new.file = row[r].file /\ new.failed = FALSE
    BY <1>0, <1>1 DEF TaskRecords, Rows
  <2>2. task' = [task EXCEPT ![Startup] = new]
    BY <1>3
  <2> HIDE DEF new
  <2>3. /\ task' \in [AllTasks -> TaskRecords] /\ task'[Startup] = new
        /\ \A u \in Tasks : task'[u] = task[u]
    BY <1>1, <2>1, <2>2 DEF TypeOK, AllTasks
  <2>4. TypeOK'
    BY <1>0, <1>1, <1>3, <2>3 DEF TypeOK, AllTasks, provider, process
  <2>5. KindOf(Startup)' /\ FileOf(Startup)'
    BY <1>0, <1>1, <1>3, <2>1, <2>3 DEF KindOf, Pcs, FileOf, RowOf, provider
  <2>6. Moved(r) /\ RowOf(r)'
    BY <1>0, <1>1, <1>3, <2>3 DEF Moved, RowOf, provider
  <2> QED
    BY <1>0, <1>1, <1>3, <2>1, <2>3, <2>4, <2>5, <2>6, RecoverSuffices
<1> QED
  BY <1>2, <1>3 DEF RecoverNext

(* A row whose file the provider knows the end of, or has not attached.    *)
LEMMA RecoverResolveStep ==
    ASSUME IInv, RecoverResolve
    PROVE  IInv'
<1>0. /\ task[Startup].op = "recover" /\ task[Startup].pc = "retrieve"
      /\ UNCHANGED <<staged, provider, pending, process>>
  BY DEF RecoverResolve, At
<1>r. PICK r \in todo : r = task[Startup].res
  BY <1>0, RecoverFacts
<1> DEFINE f == task[Startup].file
<1>1. /\ TypeOK /\ task[Startup] \in TaskRecords /\ KindOf(Startup) /\ FileOf(Startup)
      /\ Startup \in AllTasks /\ r # None /\ row[r] \in Rows /\ RowOf(r)
      /\ r \in Resources /\ r \notin pending /\ \A t \in Tasks : task[t].res # r
      /\ row[r].status = "processing" /\ row[r].file = f /\ Startup \notin Tasks
  BY <1>0, <1>r, RecoverFacts, KnowledgeAssumption
<1>2. f # None /\ f \in Files /\ origin[f] = r
  BY <1>0, <1>1, <1>r DEF FileOf, TaskRecords
<1>3. ASSUME NEW pc \in {"next", "sweep"}, GoTo(Startup, pc)
      PROVE  /\ task' \in [AllTasks -> TaskRecords] /\ \A u \in Tasks : task'[u] = task[u]
             /\ task'[Startup].pc = pc /\ task'[Startup].op = "recover"
             /\ task'[Startup].res = r /\ KindOf(Startup)' /\ FileOf(Startup)'
  <2>1. /\ task' \in [AllTasks -> TaskRecords]
        /\ \A u \in AllTasks \ {Startup} : task'[u] = task[u]
        /\ task'[Startup].pc = pc /\ task'[Startup].op = "recover"
        /\ task'[Startup].res = r /\ task'[Startup].file = f
        /\ task'[Startup].failed = task[Startup].failed
    BY <1>0, <1>1, <1>r, <1>3, GoToFrame
  <2>2. KindOf(Startup)' /\ FileOf(Startup)'
    BY <1>0, <1>1, <1>2, <1>3, <2>1 DEF KindOf, Pcs, FileOf, provider
  <2> QED
    BY <1>1, <2>1, <2>2 DEF AllTasks
<1>4. CASE /\ PolledCompleted(f)
           /\ row' = [row EXCEPT ![r] = [@ EXCEPT !.status = "ready", !.path = FALSE]]
           /\ GoTo(Startup, "sweep") /\ UNCHANGED todo
  <2> DEFINE new == [row[r] EXCEPT !.status = "ready", !.path = FALSE]
  <2>1. new \in Rows /\ new.status = "ready" /\ new.file = f
    BY <1>1 DEF Rows, Statuses
  <2>2. row' = [row EXCEPT ![r] = new]
    BY <1>4
  <2> HIDE DEF new
  <2>3. /\ row' \in [Resources -> Rows] /\ row'[r] = new
        /\ \A q \in Resources \ {r} : row'[q] = row[q]
    BY <1>1, <2>1, <2>2 DEF TypeOK
  <2>4. TypeOK'
    BY <1>0, <1>1, <1>3, <1>4, <2>3 DEF TypeOK, AllTasks, provider, process
  <2>5. Moved(r) /\ RowOf(r)'
    BY <1>0, <1>2, <1>4, <2>1, <2>3 DEF Moved, RowOf, Working, PolledCompleted, provider
  <2> QED
    BY <1>0, <1>r, <1>3, <1>4, <2>4, <2>5, RecoverSuffices
<1>5. CASE SetStatus(r, "error") /\ GoTo(Startup, "next") /\ todo' = todo \ {r}
  <2>1. /\ row' \in [Resources -> Rows] /\ \A q \in Resources \ {r} : row'[q] = row[q]
        /\ row'[r].status = "error" /\ row'[r].file = row[r].file
        /\ row'[r].path = row[r].path
    BY <1>1, <1>5, SetStatusFrame DEF Statuses
  <2>2. TypeOK'
    BY <1>0, <1>1, <1>3, <1>5, <2>1 DEF TypeOK, AllTasks, provider, process
  <2>3. Moved(r) /\ RowOf(r)'
    BY <1>0, <1>1, <2>1 DEF Moved, RowOf, Working, provider
  <2> QED
    BY <1>0, <1>r, <1>3, <1>5, <2>2, <2>3, RecoverSuffices
<1>6. CASE CleanUp(Startup, f, FALSE) /\ UNCHANGED <<row, todo>>
  <2>1. /\ task' \in [AllTasks -> TaskRecords]
        /\ \A u \in AllTasks \ {Startup} : task'[u] = task[u]
        /\ task'[Startup].pc = "detach" /\ task'[Startup].op = "recover"
        /\ task'[Startup].res = r /\ task'[Startup].file = f
        /\ task'[Startup].failed = task[Startup].failed
    BY <1>0, <1>1, <1>r, <1>2, <1>6, CleanUpFrame
  <2>2. \A u \in Tasks : task'[u] = task[u]
    BY <1>1, <2>1 DEF AllTasks
  <2>3. TypeOK'
    BY <1>0, <1>1, <1>6, <2>1, <2>2 DEF TypeOK, AllTasks, provider, process
  <2>4. KindOf(Startup)' /\ FileOf(Startup)'
    BY <1>0, <1>1, <1>2, <2>1 DEF KindOf, Pcs, FileOf, provider
  <2>5. Moved(r) /\ RowOf(r)'
    BY <1>0, <1>1, <1>6, <2>2 DEF Moved, RowOf, provider
  <2> QED
    BY <1>0, <1>r, <1>1, <1>6, <2>1, <2>2, <2>3, <2>4, <2>5, RecoverSuffices
<1> QED
  BY <1>r, <1>4, <1>5, <1>6 DEF RecoverResolve

(* The bytes of a row that recovery has made ready. *)
LEMMA RecoverSweepStep ==
    ASSUME IInv, RecoverSweep
    PROVE  IInv'
<1>0. /\ task[Startup].op = "recover" /\ task[Startup].pc = "sweep"
      /\ UNCHANGED <<row, provider, pending, process>> /\ GoTo(Startup, "next")
  BY DEF RecoverSweep, At
<1>r. PICK r \in todo : r = task[Startup].res
  BY <1>0, RecoverFacts
<1>1. /\ TypeOK /\ task[Startup] \in TaskRecords /\ KindOf(Startup) /\ FileOf(Startup)
      /\ Startup \in AllTasks /\ r # None /\ row[r] \in Rows /\ RowOf(r)
      /\ r \in Resources /\ (\A t \in Tasks : task[t].res # r) /\ Startup \notin Tasks
  BY <1>0, <1>r, RecoverFacts, KnowledgeAssumption
<1>2. todo' = todo \ {r} /\ staged' \subseteq Resources
  BY <1>r, <1>1 DEF RecoverSweep, TypeOK
<1>3. /\ task' \in [AllTasks -> TaskRecords]
      /\ \A u \in AllTasks \ {Startup} : task'[u] = task[u]
      /\ task'[Startup].pc = "next" /\ task'[Startup].op = "recover"
      /\ task'[Startup].res = r /\ task'[Startup].file = task[Startup].file
      /\ task'[Startup].failed = task[Startup].failed
  BY <1>0, <1>1, <1>r, GoToFrame
<1>4. \A u \in Tasks : task'[u] = task[u]
  BY <1>1, <1>3 DEF AllTasks
<1>5. TypeOK'
  BY <1>0, <1>1, <1>2, <1>3, <1>4 DEF TypeOK, AllTasks, provider, process
<1>6. KindOf(Startup)' /\ FileOf(Startup)'
  BY <1>0, <1>1, <1>r, <1>3 DEF KindOf, Pcs, FileOf, provider
<1>7. Moved(r) /\ RowOf(r)'
  BY <1>0, <1>1, <1>4 DEF Moved, RowOf, provider
<1> QED
  BY <1>0, <1>r, <1>2, <1>3, <1>4, <1>5, <1>6, <1>7, RecoverSuffices

(* A row whose file is cleaned up starts again, the others wait for their  *)
(* deletion.                                                               *)
LEMMA RecoverCleanedStep ==
    ASSUME IInv, RecoverCleaned
    PROVE  IInv'
<1>0. /\ task[Startup].op = "recover" /\ task[Startup].pc = "cleaned"
      /\ UNCHANGED <<staged, provider, pending, process>> /\ GoTo(Startup, "next")
  BY DEF RecoverCleaned, At
<1>r. PICK r \in todo : r = task[Startup].res
  BY <1>0, RecoverFacts
<1>1. /\ TypeOK /\ task[Startup] \in TaskRecords /\ KindOf(Startup) /\ FileOf(Startup)
      /\ Startup \in AllTasks /\ r # None /\ row[r] \in Rows /\ RowOf(r)
      /\ r \in Resources /\ (\A t \in Tasks : task[t].res # r) /\ Startup \notin Tasks
      /\ row[r].status = "processing"
  BY <1>0, <1>r, RecoverFacts, KnowledgeAssumption
<1>2. todo' = todo \ {r}
  BY <1>r DEF RecoverCleaned
<1>3. /\ task' \in [AllTasks -> TaskRecords]
      /\ \A u \in AllTasks \ {Startup} : task'[u] = task[u]
      /\ task'[Startup].pc = "next" /\ task'[Startup].op = "recover"
      /\ task'[Startup].res = r /\ task'[Startup].file = task[Startup].file
      /\ task'[Startup].failed = task[Startup].failed
  BY <1>0, <1>1, <1>r, GoToFrame
<1>4. /\ row' \in [Resources -> Rows] /\ \A q \in Resources \ {r} : row'[q] = row[q]
      /\ \/ /\ row'[r].status = "error" /\ row'[r].file = row[r].file
            /\ row'[r].path = row[r].path
         \/ row'[r].status = "queued" /\ row'[r].file = None
  <2>1. CASE SetStatus(r, "error")
    <3>1. "error" \in Statuses
      BY DEF Statuses
    <3> QED
      BY <1>1, <2>1, <3>1, SetStatusFrame
  <2>2. CASE row' = [row EXCEPT ![r] = [@ EXCEPT !.status = "queued", !.file = None]]
    <3> DEFINE new == [row[r] EXCEPT !.status = "queued", !.file = None]
    <3>1. new \in Rows /\ new.status = "queued" /\ new.file = None
      BY <1>1 DEF Rows, Statuses
    <3>2. row' = [row EXCEPT ![r] = new]
      BY <2>2
    <3> HIDE DEF new
    <3> QED
      BY <1>1, <3>1, <3>2 DEF TypeOK
  <2> QED
    BY <1>r, <2>1, <2>2 DEF RecoverCleaned
<1>5. \A u \in Tasks : task'[u] = task[u]
  BY <1>1, <1>3 DEF AllTasks
<1>6. TypeOK'
  BY <1>0, <1>1, <1>2, <1>3, <1>4, <1>5 DEF TypeOK, AllTasks, provider, process
<1>7. KindOf(Startup)' /\ FileOf(Startup)'
  BY <1>0, <1>1, <1>r, <1>3 DEF KindOf, Pcs, FileOf, provider
<1>8. Moved(r) /\ RowOf(r)'
  BY <1>0, <1>1, <1>4 DEF Moved, RowOf, Working, provider
<1> QED
  BY <1>0, <1>r, <1>2, <1>3, <1>5, <1>6, <1>7, <1>8, RecoverSuffices

LEMMA RecoverDetachStep ==
    ASSUME IInv, Detach(Startup)
    PROVE  IInv'
<1>0. /\ task[Startup].pc = "detach"
      /\ UNCHANGED <<row, staged, stored, origin, pending, process, todo>>
  BY DEF Detach
<1>a. task[Startup].op = "recover"
  BY <1>0, Parts DEF KindOf, Pcs
<1>r. PICK r \in todo : r = task[Startup].res
  BY <1>0, <1>a, RecoverFacts
<1> DEFINE f == task[Startup].file
<1>1. /\ TypeOK /\ task[Startup] \in TaskRecords /\ KindOf(Startup) /\ FileOf(Startup)
      /\ Startup \in AllTasks /\ r # None /\ row[r] \in Rows /\ RowOf(r)
      /\ r \in Resources /\ (\A t \in Tasks : task[t].res # r) /\ Startup \notin Tasks
      /\ row[r].status = "processing" /\ row[r].file = f
  BY <1>0, <1>a, <1>r, RecoverFacts, KnowledgeAssumption
<1>2. f # None /\ f \in Files /\ origin[f] = r
  BY <1>0, <1>1, <1>r DEF FileOf, TaskRecords
<1>3. /\ task' \in [AllTasks -> TaskRecords]
      /\ \A u \in AllTasks \ {Startup} : task'[u] = task[u]
      /\ task'[Startup].pc = "remove" /\ task'[Startup].op = "recover"
      /\ task'[Startup].res = r /\ task'[Startup].file = f
      /\ task'[Startup].failed => task[Startup].failed \/ "cleanup" \in Faults
      /\ attachment' \in [Files -> {"none", "in_progress", "completed", "failed"}]
      /\ \A g \in Files \ {f} : attachment'[g] = attachment[g]
  BY <1>a, <1>1, <1>r, <1>2, DetachFrame
<1>4. \A u \in Tasks : task'[u] = task[u]
  BY <1>1, <1>3 DEF AllTasks
<1>5. TypeOK'
  BY <1>0, <1>1, <1>3, <1>4 DEF TypeOK, AllTasks, process
<1>6. KindOf(Startup)' /\ FileOf(Startup)'
  BY <1>0, <1>1, <1>2, <1>3 DEF KindOf, Pcs, FileOf
<1>7. Moved(r) /\ RowOf(r)'
  BY <1>0, <1>1, <1>2, <1>3 DEF Moved, RowOf
<1> QED
  BY <1>0, <1>a, <1>r, <1>1, <1>3, <1>4, <1>5, <1>6, <1>7, RecoverSuffices

LEMMA RecoverRemoveStep ==
    ASSUME IInv, Remove(Startup)
    PROVE  IInv'
<1>0. /\ task[Startup].pc = "remove"
      /\ UNCHANGED <<row, staged, attachment, origin, pending, process, todo>>
  BY DEF Remove
<1>a. task[Startup].op = "recover"
  BY <1>0, Parts DEF KindOf, Pcs
<1>r. PICK r \in todo : r = task[Startup].res
  BY <1>0, <1>a, RecoverFacts
<1> DEFINE f == task[Startup].file
<1>1. /\ TypeOK /\ task[Startup] \in TaskRecords /\ KindOf(Startup) /\ FileOf(Startup)
      /\ Startup \in AllTasks /\ r # None /\ row[r] \in Rows /\ RowOf(r)
      /\ r \in Resources /\ (\A t \in Tasks : task[t].res # r) /\ Startup \notin Tasks
      /\ row[r].status = "processing" /\ row[r].file = f
  BY <1>0, <1>a, <1>r, RecoverFacts, KnowledgeAssumption
<1>3. /\ task' \in [AllTasks -> TaskRecords]
      /\ \A u \in AllTasks \ {Startup} : task'[u] = task[u]
      /\ task'[Startup].pc = "cleaned" /\ task'[Startup].op = "recover"
      /\ task'[Startup].res = r /\ task'[Startup].file = f
      /\ task'[Startup].failed => task[Startup].failed \/ "cleanup" \in Faults
      /\ ~task'[Startup].failed => f \notin stored'
      /\ stored' \subseteq stored
  BY <1>a, <1>1, <1>r, RemoveFrame
<1>4. \A u \in Tasks : task'[u] = task[u]
  BY <1>1, <1>3 DEF AllTasks
<1>5. TypeOK'
  BY <1>0, <1>1, <1>3, <1>4 DEF TypeOK, AllTasks, process
<1>6. KindOf(Startup)' /\ FileOf(Startup)'
  BY <1>0, <1>1, <1>r, <1>3 DEF KindOf, Pcs, FileOf
<1>7. Moved(r) /\ RowOf(r)'
  BY <1>0, <1>1, <1>3, <1>4 DEF Moved, RowOf
<1> QED
  BY <1>0, <1>a, <1>r, <1>1, <1>3, <1>4, <1>5, <1>6, <1>7, RecoverSuffices

-----------------------------------------------------------------------------
(* Steps of no task: the rows are as they were, and a task is as it was or *)
(* gone.                                                                   *)

LEMMA StoresSuffice ==
    ASSUME IInv, UNCHANGED <<row, stored, origin>>, TypeOK',
           \A f \in Files : attachment[f] = "completed" => attachment'[f] = "completed",
           \A t \in Tasks : task'[t] \in {task[t], NoTask},
           \A r \in pending' \ pending :
              row[r].status # "absent" /\ \A t \in Tasks : task'[t] = NoTask,
           KindOf(Startup)', FileOf(Startup)', Recovery'
    PROVE  IInv'
<1>0. pending' \subseteq Resources
  BY DEF TypeOK
<1>1. ASSUME NEW t \in Tasks
      PROVE  KindOf(t)' /\ FileOf(t)' /\ OwnOf(t)'
  <2>0. /\ t \in AllTasks /\ task[t] \in TaskRecords /\ KindOf(t) /\ FileOf(t)
        /\ UploadOf(t) /\ IngestOf(t) /\ DeleteOf(t) /\ RetryOf(t)
    BY Parts
  <2>1. CASE task'[t] = NoTask
    BY <2>0, <2>1, EndedTask
  <2>2. CASE task'[t] # NoTask
    <3>1. task'[t] = task[t]
      BY <1>1, <2>2
    <3>2. ASSUME NEW u \in Tasks \ {t}, task[t].res # None, task'[u].res = task[t].res
          PROVE  task'[u] = task[u]
      BY <3>2, NoTaskFacts
    <3>3. KindOf(t)' /\ FileOf(t)'
      BY <2>0, <3>1 DEF KindOf, FileOf
    <3>4. UploadOf(t)'
      <4>1. SUFFICES ASSUME task[t].op = "upload"
                     PROVE  UploadOf(t)'
        BY <3>1 DEF UploadOf
      <4>2. task[t].res \in Resources /\ task[t].res # None
        BY <4>1, Active, Parts
      <4>3. task[t].res \notin pending'
        BY <2>0, <2>2, <4>1 DEF UploadOf
      <4> QED
        BY <2>0, <3>1, <3>2, <4>1, <4>2, <4>3 DEF UploadOf
    <3>5. IngestOf(t)'
      <4>1. SUFFICES ASSUME task[t].op = "ingest"
                     PROVE  IngestOf(t)'
        BY <3>1 DEF IngestOf, HasClaimed
      <4>2. /\ task[t].op = "ingest" /\ (Sound(t)' => Sound(t))
            /\ HasClaimed(t, task[t].res)' => HasClaimed(t, task[t].res)
        BY <3>1, <4>1 DEF HasClaimed, Sound
      <4>3. task[t].res \in Resources /\ task[t].res # None
        BY <4>2, Active, Parts
      <4>4. task[t].pc = "finish" => task[t].file \in Files
        BY <2>0, <4>3 DEF FileOf, TaskRecords
      <4>5. \A u \in Tasks \ {t} : HasClaimed(u, task[t].res)' => HasClaimed(u, task[t].res)
        BY <3>1, <3>2, <4>3 DEF HasClaimed
      <4> QED
        BY <2>0, <3>1, <4>2, <4>4, <4>5 DEF IngestOf
    <3>6. DeleteOf(t)' /\ RetryOf(t)'
      BY <2>0, <3>1 DEF DeleteOf, RetryOf, Withdraws, Bare
    <3> QED
      BY <3>3, <3>4, <3>5, <3>6 DEF OwnOf
  <2> QED
    BY <2>1, <2>2
<1>2. ASSUME NEW r \in Resources
      PROVE  RowOf(r)'
  <2>1. row[r] \in Rows /\ RowOf(r) /\ r # None
    BY Parts
  <2>2. \A t \in Tasks : task'[t].res = r => task[t].res = r
    BY <2>1, NoTaskFacts
  <2>3. row[r].status = "ready" => row[r].file \in Files
    BY <2>1 DEF RowOf, Rows
  <2> QED
    BY <2>1, <2>2, <2>3 DEF RowOf
<1> QED
  BY <1>1, <1>2 DEF IInv, OwnOf, AllTasks

(* The recovery is over, whatever is left of it. *)
LEMMA RecoverEndStep ==
    ASSUME IInv, RecoverEnd
    PROVE  IInv'
<1>0. /\ task[Startup].op = "recover" /\ End(Startup) /\ todo' = {}
      /\ UNCHANGED <<row, staged, provider, pending, process>>
  BY DEF RecoverEnd, At
<1>1. /\ TypeOK /\ Startup \in AllTasks /\ Startup \notin Tasks /\ up
  BY <1>0, RecoverFacts, KnowledgeAssumption
<1>2. /\ task' \in [AllTasks -> TaskRecords] /\ task'[Startup] = NoTask
      /\ \A u \in Tasks : task'[u] = task[u]
  BY <1>0, <1>1, EndFrame DEF AllTasks
<1>3. KindOf(Startup)' /\ FileOf(Startup)'
  BY <1>1, <1>2, EndedTask
<1>4. TypeOK'
  BY <1>0, <1>1, <1>2 DEF TypeOK, AllTasks, provider, process
<1>5. Recovery'
  BY <1>0, <1>1, <1>2, NoTaskFacts DEF Recovery, process
<1> QED
  BY <1>0, <1>2, <1>3, <1>4, <1>5, StoresSuffice DEF provider

LEMMA SettleStep ==
    ASSUME IInv, NEW f \in Files, Settle(f)
    PROVE  IInv'
<1>0. /\ TypeOK /\ KindOf(Startup) /\ FileOf(Startup) /\ Recovery
      /\ UNCHANGED <<row, staged, stored, origin, task, pending, process, todo>>
  BY Parts DEF Settle
<1>1. /\ attachment' \in [Files -> {"none", "in_progress", "completed", "failed"}]
      /\ \A g \in Files : attachment[g] = "completed" => attachment'[g] = "completed"
  BY <1>0 DEF Settle, TypeOK
<1>2. TypeOK' /\ KindOf(Startup)' /\ FileOf(Startup)' /\ Recovery'
  BY <1>0, <1>1 DEF TypeOK, KindOf, FileOf, Recovery, process
<1> QED
  BY <1>0, <1>1, <1>2, StoresSuffice

(* A crash leaves nothing but the three stores. *)
LEMMA CrashStep ==
    ASSUME IInv, Crash
    PROVE  IInv'
<1>0. /\ TypeOK /\ Startup \in AllTasks /\ Startup \notin Tasks
      /\ up' = FALSE /\ crashes' = crashes + 1 /\ crashes < MaxCrashes
      /\ task' = [t \in AllTasks |-> NoTask] /\ pending' = {} /\ todo' = {}
      /\ UNCHANGED <<row, staged, provider>>
  BY Parts, KnowledgeAssumption DEF Crash, AllTasks
<1>1. \A t \in AllTasks : task'[t] = NoTask
  BY <1>0
<1>2. KindOf(Startup)' /\ FileOf(Startup)'
  BY <1>0, <1>1, EndedTask
<1>3. crashes' \in 0..MaxCrashes
  BY <1>0, KnowledgeAssumption DEF TypeOK
<1>4. task' \in [AllTasks -> TaskRecords] /\ \A t \in Tasks : task'[t].pc = "idle"
  BY <1>0, NoTaskFacts DEF AllTasks
<1>5. TypeOK'
  BY <1>0, <1>3, <1>4 DEF TypeOK, provider, AllTasks
<1>6. Recovery'
  BY <1>0, <1>1, NoTaskFacts DEF Recovery
<1> QED
  BY <1>0, <1>1, <1>2, <1>5, <1>6, StoresSuffice DEF provider, AllTasks

(* A restart finds the rows and no task. *)
LEMMA RestartStep ==
    ASSUME IInv, Restart
    PROVE  IInv'
<1> DEFINE new == [NoTask EXCEPT !.op = "recover", !.pc = "next"]
<1>0. /\ TypeOK /\ Recovery /\ Startup \in AllTasks /\ Startup \notin Tasks
      /\ ~up /\ up' = TRUE
      /\ todo' \subseteq {r \in Resources : row[r].status = "processing"}
      /\ pending' = {r \in Resources : row[r].status = "queued"}
      /\ task' = [task EXCEPT ![Startup] = new]
      /\ UNCHANGED <<row, staged, provider, crashes>>
  BY Parts, KnowledgeAssumption DEF Restart, StaleSets
<1>1. /\ new \in TaskRecords /\ new.op = "recover" /\ new.pc = "next" /\ new.file = None
      /\ new.failed = FALSE
  BY DEF NoTask, TaskRecords, Statuses
<1> HIDE DEF new
<1>2. \A t \in Tasks : task[t] = NoTask /\ task'[t] = NoTask
  BY <1>0 DEF Recovery, AllTasks, TypeOK
<1>3. task' \in [AllTasks -> TaskRecords] /\ task'[Startup] = new
  BY <1>0, <1>1 DEF TypeOK, AllTasks
<1>4. KindOf(Startup)' /\ FileOf(Startup)'
  BY <1>1, <1>3 DEF KindOf, Pcs, FileOf
<1>5. TypeOK'
  BY <1>0, <1>2, <1>3, NoTaskFacts DEF TypeOK, provider, AllTasks
<1>6. Recovery'
  <2>1. pending' \cap todo' = {}
    BY <1>0
  <2>2. \A t \in Tasks : task'[t].op = "none" /\ task'[t].res \notin todo'
    BY <1>0, <1>2, NoTaskFacts, Parts
  <2> QED
    BY <1>0, <1>1, <1>3, <2>1, <2>2 DEF Recovery
<1> QED
  BY <1>0, <1>2, <1>4, <1>5, <1>6, StoresSuffice DEF provider

LEMMA StutterStep ==
    ASSUME IInv, UNCHANGED vars
    PROVE  IInv'
<1>0. /\ TypeOK /\ KindOf(Startup) /\ FileOf(Startup) /\ Recovery
      /\ UNCHANGED <<row, staged, stored, attachment, origin, task, pending, up, crashes, todo>>
  BY Parts DEF vars, provider, process
<1>1. TypeOK' /\ KindOf(Startup)' /\ FileOf(Startup)' /\ Recovery'
  BY <1>0 DEF TypeOK, KindOf, FileOf, Recovery, AllTasks
<1> QED
  BY <1>0, <1>1, StoresSuffice

-----------------------------------------------------------------------------
(* The invariant *)

LEMMA InitIInv == Init => IInv
<1> SUFFICES ASSUME Init
             PROVE  IInv
  OBVIOUS
<1>0. /\ \A t \in AllTasks : task[t] = NoTask
      /\ \A r \in Resources : row[r] = NoRow /\ r # None
      /\ pending = {} /\ todo = {} /\ staged = {} /\ stored = {} /\ up = TRUE /\ crashes = 0
  BY KnowledgeAssumption DEF Init, AllTasks
<1>1. NoRow \in Rows /\ NoRow.status = "absent" /\ NoRow.file = None
  BY DEF NoRow, Rows, Statuses
<1>2. TypeOK
  <2>1. row \in [Resources -> Rows]
    BY <1>1 DEF Init
  <2>2. task \in [AllTasks -> TaskRecords]
    BY NoTaskFacts DEF Init, AllTasks
  <2>3. attachment \in [Files -> {"none", "in_progress", "completed", "failed"}]
    BY DEF Init
  <2>4. origin \in [Files -> Resources \cup {None}]
    BY DEF Init
  <2>5. crashes \in 0..MaxCrashes
    BY <1>0, KnowledgeAssumption
  <2>6. \A t \in Tasks : task[t].pc = "idle"
    BY <1>0, NoTaskFacts DEF AllTasks
  <2> QED
    BY <1>0, <2>1, <2>2, <2>3, <2>4, <2>5, <2>6 DEF TypeOK, AllTasks
<1>3. \A t \in AllTasks : KindOf(t) /\ FileOf(t)
  BY <1>0, NoTaskFacts DEF KindOf, Pcs, FileOf
<1>4. \A t \in Tasks : UploadOf(t) /\ IngestOf(t) /\ DeleteOf(t) /\ RetryOf(t)
  BY <1>0, NoTaskFacts DEF UploadOf, IngestOf, DeleteOf, RetryOf, HasClaimed, Withdraws, AllTasks
<1>5. \A r \in Resources : RowOf(r)
  BY <1>0, <1>1, NoTaskFacts DEF RowOf, AllTasks
<1>6. Recovery
  BY <1>0, NoTaskFacts DEF Recovery, AllTasks
<1> QED
  BY <1>2, <1>3, <1>4, <1>5, <1>6 DEF IInv

LEMMA NextIInv ==
    ASSUME IInv, [Next]_vars
    PROVE  IInv'
<1>1. ASSUME NEW t \in Tasks, Progress(t)
      PROVE  IInv'
  <2>1. CASE Ingest(t)
    BY <2>1, IngestClaimStep, IngestCreateStep, IngestRecordStep, IngestAttachStep,
       IngestPollStep, IngestFinishStep, IngestSweepStep, IngestCleanedStep DEF Ingest
  <2>2. CASE UploadStage(t) \/ UploadDescribe(t) \/ UploadUnstaged(t)
    BY <2>2, UploadStageStep, UploadDescribeStep, UploadUnstagedStep
  <2>3. CASE Detach(t) \/ Remove(t) \/ RetryRequeue(t)
    BY <2>3, DetachStep, RemoveStep, RetryRequeueStep
  <2>4. CASE DeleteMark(t) \/ DeleteReload(t) \/ DeleteCleaned(t)
    BY <2>4, DeleteMarkStep, DeleteReloadStep, DeleteCleanedStep
  <2> QED
    BY <1>1, <2>1, <2>2, <2>3, <2>4 DEF Progress
<1>2. ASSUME NEW t \in Tasks, NEW r \in Resources, Request(t, r) \/ StartIngest(t, r)
      PROVE  IInv'
  BY <1>2, UploadStep, RetryStep, DeleteStep, StartIngestStep DEF Request
<1>3. CASE Recover
  BY <1>3, RecoverNextStep, RecoverResolveStep, RecoverSweepStep, RecoverCleanedStep,
     RecoverEndStep, RecoverDetachStep, RecoverRemoveStep DEF Recover
<1>4. CASE Crash \/ Restart \/ (\E f \in Files : Settle(f)) \/ UNCHANGED vars
  BY <1>4, CrashStep, RestartStep, SettleStep, StutterStep
<1> QED
  BY <1>1, <1>2, <1>3, <1>4 DEF Next

LEMMA Inductive == Spec => []IInv
<1>1. IInv /\ [Next]_vars => IInv'
  BY NextIInv
<1> QED
  BY <1>1, InitIInv, PTL DEF Spec

(* Rows, tasks and provider objects are well formed, for every instance. *)
THEOREM KnowledgeTyped == Spec => []TypeOK
<1>1. IInv => TypeOK
  BY DEF IInv
<1> QED
  BY <1>1, Inductive, PTL

(* A resource that is shown as ready is indexed in the vector store,       *)
(* however uploads, ingests, deletions, crashes and recoveries overlap:    *)
(* nothing detaches the file of a ready row, and recovery publishes a row  *)
(* only when the provider says that its file is indexed.                   *)
THEOREM ReadyStaysSearchable == Spec => []ReadyIsSearchable
<1>1. IInv => ReadyIsSearchable
  BY DEF IInv, RowOf, ReadyIsSearchable
<1> QED
  BY <1>1, Inductive, PTL

(* An ingest that has claimed its row keeps it to its end.  The hypothesis *)
(* is needed: see Orderly.                                                 *)
THEOREM IngestKeepsRow ==
    ASSUME Orderly
    PROVE  Spec => []IngestOwnsRow
<1>1. IInv => IngestOwnsRow
  <2>1. SUFFICES ASSUME IInv, NEW t \in Tasks, NEW r \in Resources, HasClaimed(t, r)
                 PROVE  /\ row[r].status = "processing" /\ ~task[t].abandon
                        /\ \A u \in Tasks \ {t} : ~HasClaimed(u, r)
    BY DEF IngestOwnsRow
  <2>2. task[t].res = r /\ Sound(t)
    BY <2>1 DEF HasClaimed, Sound
  <2> QED
    BY <2>1, <2>2, Parts DEF IngestOf
<1> QED
  BY <1>1, Inductive, PTL

-----------------------------------------------------------------------------
(* Persist first *)

ForgetsCleaned ==
    \A r \in Resources :
        row[r].file # None /\ row'[r].file # row[r].file => row[r].file \notin stored'

(* A step that writes one row, with what it may do to that row's file. *)
LEMMA OneRowForgets ==
    ASSUME TypeOK, NEW r \in Resources, NEW new, row' = [row EXCEPT ![r] = new],
           row[r].file # None /\ new.file # row[r].file => row[r].file \notin stored'
    PROVE  ForgetsCleaned
<1>1. row'[r] = new /\ \A q \in Resources \ {r} : row'[q] = row[q]
  BY DEF TypeOK
<1> QED
  BY <1>1 DEF ForgetsCleaned

LEMMA StatusForgets ==
    ASSUME TypeOK, NEW r \in Resources, NEW status, SetStatus(r, status)
    PROVE  ForgetsCleaned
<1> DEFINE new == [row[r] EXCEPT !.status = status]
<1>1. row' = [row EXCEPT ![r] = new]
  BY DEF SetStatus
<1>2. new.file = row[r].file
  BY DEF TypeOK, Rows
<1> HIDE DEF new
<1> QED
  BY <1>1, <1>2, OneRowForgets

LEMMA IngestForgets ==
    ASSUME Tidy, IInv, NEW t \in Tasks, Ingest(t)
    PROVE  ForgetsCleaned
<1>0. task[t].op = "ingest" /\ TypeOK
  BY Parts DEF Ingest, IngestClaim, IngestCreate, IngestRecord, IngestAttach, IngestPoll,
     IngestFinish, IngestSweep, IngestCleaned, At
<1>r. PICK r \in Resources : r = task[t].res
  BY <1>0, Active
<1>1. CASE UNCHANGED row
  BY <1>1 DEF ForgetsCleaned
<1>2. CASE SetStatus(r, "processing")
  BY <1>0, <1>2, StatusForgets
<1>3. CASE IngestRecord(t) /\ row[r].status = "processing"
  <2>0. task[t].pc = "record" /\ task[t].pc \in Claimed
    BY <1>3 DEF IngestRecord, At, Claimed
  <2>1. HasClaimed(t, r) /\ Sound(t)
    BY <1>0, <1>r, <2>0, ClaimFacts
  <2>2. row[r].file = None
    BY <1>r, <2>0, <2>1, Parts DEF IngestOf
  <2>3. row' = [row EXCEPT ![r] = [row[r] EXCEPT !.file = task[t].file]]
    BY <1>3, <1>r DEF IngestRecord, CanTransition
  <2> QED
    BY <1>0, <2>2, <2>3, OneRowForgets
<1>4. CASE IngestFinish(t) /\ row[r].status = "processing"
  <2>0. task[t].pc = "finish" /\ task[t].pc \in Claimed
    BY <1>4 DEF IngestFinish, At, Claimed
  <2>1. HasClaimed(t, r) /\ Sound(t)
    BY <1>0, <1>r, <2>0, ClaimFacts
  <2>2. row[r].file = task[t].file
    BY <1>r, <2>0, <2>1, Parts DEF IngestOf
  <2>3. row' = [row EXCEPT ![r] = [status |-> "ready", file |-> task[t].file, path |-> FALSE]]
    BY <1>4, <1>r DEF IngestFinish, CanTransition
  <2> QED
    BY <1>0, <2>2, <2>3, OneRowForgets
<1>5. CASE IngestCleaned(t) /\ row[r].status = "processing" /\ ~task[t].abandon
  <2> DEFINE kept == IF task[t].failed THEN task[t].file ELSE None
             new == [row[r] EXCEPT !.status = "error", !.file = kept]
  <2>0. task[t].pc = "cleaned" /\ task[t].pc \in Claimed /\ UNCHANGED stored
    BY <1>5 DEF IngestCleaned, At, Claimed, provider
  <2>1. HasClaimed(t, r) /\ (task[t].path => Sound(t)) /\ IngestOf(t) /\ RowOf(r)
    BY <1>0, <1>r, <2>0, ClaimFacts
  <2>2. row[r].file = task[t].file
    <3>1. row[r].path = task[t].path /\ row[r] \in Rows
      BY <1>0, <1>5, <1>r, <2>1, Parts DEF IngestOf, Working
    <3> QED
      BY <1>5, <1>r, <2>0, <2>1, <3>1 DEF IngestOf, RowOf, Working, Rows
  <2>3. row' = [row EXCEPT ![r] = new]
    BY <1>5, <1>r DEF IngestCleaned, CanTransition
  <2>4. new.file = kept
    BY <1>0 DEF TypeOK, Rows
  <2>5. row[r].file # None /\ kept # row[r].file => row[r].file \notin stored'
    BY <2>0, <2>2, Parts DEF FileOf
  <2> HIDE DEF new, kept
  <2> QED
    BY <1>0, <2>3, <2>4, <2>5, OneRowForgets
<1> QED
  BY <1>r, <1>1, <1>2, <1>3, <1>4, <1>5 DEF Ingest, IngestClaim, IngestCreate, IngestRecord,
     IngestAttach, IngestPoll, IngestFinish, IngestSweep, IngestCleaned, CanTransition

LEMMA UploadForgets ==
    ASSUME IInv, NEW t \in Tasks, UploadStage(t) \/ UploadDescribe(t) \/ UploadUnstaged(t)
    PROVE  ForgetsCleaned
<1>0. task[t].op = "upload" /\ TypeOK
  BY Parts DEF UploadStage, UploadDescribe, UploadUnstaged, At
<1>r. PICK r \in Resources : r = task[t].res
  BY <1>0, Active
<1>1. CASE UNCHANGED row
  BY <1>1 DEF ForgetsCleaned
<1>2. CASE SetStatus(r, "error")
  BY <1>0, <1>2, StatusForgets
<1>3. CASE row' = [row EXCEPT ![r].path = TRUE]
  <2> DEFINE new == [row[r] EXCEPT !.path = TRUE]
  <2>1. row' = [row EXCEPT ![r] = new] /\ new.file = row[r].file
    BY <1>0, <1>3 DEF TypeOK, Rows
  <2> HIDE DEF new
  <2> QED
    BY <1>0, <2>1, OneRowForgets
<1> QED
  BY <1>r, <1>1, <1>2, <1>3 DEF UploadStage, UploadDescribe, UploadUnstaged

LEMMA DeleteForgets ==
    ASSUME IInv, NEW t \in Tasks, DeleteMark(t) \/ DeleteReload(t) \/ DeleteCleaned(t)
    PROVE  ForgetsCleaned
<1>0. task[t].op = "delete" /\ TypeOK
  BY Parts DEF DeleteMark, DeleteReload, DeleteCleaned, At
<1>r. PICK r \in Resources : r = task[t].res
  BY <1>0, Active
<1>1. CASE UNCHANGED row
  BY <1>1 DEF ForgetsCleaned
<1>2. CASE SetStatus(r, "deleting")
  BY <1>0, <1>2, StatusForgets
<1>3. CASE DeleteCleaned(t) /\ ~task[t].failed
  <2>1. /\ task[t].pc = "cleaned" /\ UNCHANGED stored
        /\ row' = [row EXCEPT ![r] = [NoRow EXCEPT !.status = "deleted"]]
    BY <1>3, <1>r DEF DeleteCleaned, At, provider
  <2>2. row[r].file \in {task[t].file, None}
    BY <1>0, <1>r, <2>1, Parts DEF DeleteOf, Withdraws
  <2>3. row[r].file # None => row[r].file \notin stored'
    BY <1>3, <2>1, <2>2, Parts DEF FileOf
  <2> QED
    BY <1>0, <2>1, <2>3, OneRowForgets
<1> QED
  BY <1>r, <1>1, <1>2, <1>3 DEF DeleteMark, DeleteReload, DeleteCleaned

LEMMA RecoverForgets ==
    ASSUME IInv, Recover
    PROVE  ForgetsCleaned
<1>0. TypeOK
  BY Parts
<1>1. CASE UNCHANGED row
  BY <1>1 DEF ForgetsCleaned
<1>2. ASSUME NEW r \in Resources, SetStatus(r, "queued") \/ SetStatus(r, "error")
      PROVE  ForgetsCleaned
  BY <1>0, <1>2, StatusForgets
<1>3. CASE RecoverCleaned \/ RecoverResolve
  <2>0. task[Startup].op = "recover" /\ task[Startup].pc \in {"cleaned", "retrieve"}
    BY <1>3 DEF RecoverCleaned, RecoverResolve, At
  <2>r. PICK r \in Resources : r = task[Startup].res
    BY <2>0, RecoverFacts
  <2>1. row[r].file = task[Startup].file /\ FileOf(Startup) /\ row[r] \in Rows
    BY <2>0, <2>r, RecoverFacts, Parts
  <2>2. CASE row' = [row EXCEPT ![r] = [@ EXCEPT !.status = "ready", !.path = FALSE]]
    <3> DEFINE new == [row[r] EXCEPT !.status = "ready", !.path = FALSE]
    <3>1. row' = [row EXCEPT ![r] = new] /\ new.file = row[r].file
      BY <2>1, <2>2 DEF Rows
    <3> HIDE DEF new
    <3> QED
      BY <1>0, <3>1, OneRowForgets
  <2>3. CASE RecoverCleaned /\ ~task[Startup].failed
    <3>1. /\ row' = [row EXCEPT ![r] = [row[r] EXCEPT !.status = "queued", !.file = None]]
          /\ task[Startup].pc = "cleaned" /\ UNCHANGED stored
      BY <2>r, <2>3 DEF RecoverCleaned, At, provider
    <3>2. row[r].file # None => row[r].file \notin stored'
      BY <2>1, <2>3, <3>1 DEF FileOf
    <3> QED
      BY <1>0, <3>1, <3>2, OneRowForgets
  <2> QED
    BY <1>1, <1>2, <1>3, <2>r, <2>2, <2>3 DEF RecoverCleaned, RecoverResolve
<1> QED
  BY <1>1, <1>2, <1>3 DEF Recover, RecoverNext, RecoverSweep, RecoverEnd, Detach, Remove

(* Persist first: a row forgets a provider file only when the provider has *)
(* deleted it, so that one that could not be cleaned up can be tried       *)
(* again.  Tidy is needed: a late retry queues a row that still has a      *)
(* file, and the next ingest records its own over it.                      *)
THEOREM FilesCleanedFirst ==
    ASSUME Tidy
    PROVE  Spec => CleanedBeforeForgotten
<1>1. ASSUME IInv, [Next]_vars
      PROVE  ForgetsCleaned
  <2>0. TypeOK
    BY <1>1, Parts
  <2>1. CASE UNCHANGED row
    BY <2>1 DEF ForgetsCleaned
  <2>2. ASSUME NEW t \in Tasks, Progress(t)
        PROVE  ForgetsCleaned
    <3>1. CASE RetryRequeue(t)
      <4>1. task[t].op = "retry"
        BY <3>1 DEF RetryRequeue, At
      <4>2. PICK r \in Resources : r = task[t].res
        BY <1>1, <4>1, Active
      <4> QED
        BY <2>0, <2>1, <3>1, <4>2, StatusForgets DEF RetryRequeue
    <3> QED
      BY <1>1, <2>1, <2>2, <3>1, IngestForgets, UploadForgets, DeleteForgets
         DEF Progress, Detach, Remove
  <2>3. ASSUME NEW t \in Tasks, NEW r \in Resources, Request(t, r) \/ StartIngest(t, r)
        PROVE  ForgetsCleaned
    <3>1. CASE Upload(t, r)
      <4>1. /\ row' = [row EXCEPT ![r] = [NoRow EXCEPT !.status = "queued"]]
            /\ row[r].status = "absent"
        BY <3>1 DEF Upload
      <4>2. row[r].file = None
        BY <1>1, <4>1, Parts DEF RowOf, NoRow
      <4> QED
        BY <2>0, <4>1, <4>2, OneRowForgets
    <3> QED
      BY <2>1, <2>3, <3>1 DEF Request, StartIngest, Retry, Delete
  <2> QED
    BY <1>1, <2>1, <2>2, <2>3, RecoverForgets DEF Next, Crash, Restart, Settle, vars
<1>2. ForgetsCleaned => [ForgetsCleaned]_vars
  OBVIOUS
<1>3. IInv /\ [Next]_vars => [ForgetsCleaned]_vars
  BY <1>1
<1>4. Spec => [][ForgetsCleaned]_vars
  BY <1>3, Inductive, PTL DEF Spec
<1> QED
  BY <1>4 DEF CleanedBeforeForgotten, ForgetsCleaned

-----------------------------------------------------------------------------
(* No way back from a deletion *)

StaysWithdrawn ==
    \A r \in Resources :
        row[r].status \in {"deleting", "deleted"} =>
            \/ row'[r].status \in {"deleting", "deleted"}
            \/ \E t \in Tasks : UploadUnstaged(t) /\ task[t].res = r

(* A step that writes the status of one row. *)
LEMMA OneRowWithdrawn ==
    ASSUME TypeOK, NEW r \in Resources, NEW new, row' = [row EXCEPT ![r] = new],
           row[r].status \in {"deleting", "deleted"}
               => new.status \in {"deleting", "deleted"}
    PROVE  StaysWithdrawn
<1>1. row'[r] = new /\ \A q \in Resources \ {r} : row'[q] = row[q]
  BY DEF TypeOK
<1> QED
  BY <1>1 DEF StaysWithdrawn

LEMMA StatusWithdrawn ==
    ASSUME TypeOK, NEW r \in Resources, NEW status, SetStatus(r, status),
           row[r].status \in {"deleting", "deleted"} => status \in {"deleting", "deleted"}
    PROVE  StaysWithdrawn
<1> DEFINE new == [row[r] EXCEPT !.status = status]
<1>1. row' = [row EXCEPT ![r] = new]
  BY DEF SetStatus
<1>2. new.status = status
  BY DEF TypeOK, Rows
<1> HIDE DEF new
<1> QED
  BY <1>1, <1>2, OneRowWithdrawn

(* What an ingest writes, it writes over queued or processing. *)
LEMMA IngestWithdraws ==
    ASSUME IInv, NEW t \in Tasks, Ingest(t)
    PROVE  StaysWithdrawn
<1>0. task[t].op = "ingest" /\ TypeOK
  BY Parts DEF Ingest, IngestClaim, IngestCreate, IngestRecord, IngestAttach, IngestPoll,
     IngestFinish, IngestSweep, IngestCleaned, At
<1>r. PICK r \in Resources : r = task[t].res
  BY <1>0, Active
<1>1. CASE UNCHANGED row
  BY <1>1 DEF StaysWithdrawn
<1>2. CASE row[r].status \in {"queued", "processing"} /\ \E new : row' = [row EXCEPT ![r] = new]
  BY <1>0, <1>2, OneRowWithdrawn
<1> QED
  BY <1>r, <1>1, <1>2 DEF Ingest, IngestClaim, IngestCreate, IngestRecord, IngestAttach,
     IngestPoll, IngestFinish, IngestSweep, IngestCleaned, CanTransition, SetStatus

(* What recovery writes, it writes over processing. *)
LEMMA RecoverWithdraws ==
    ASSUME IInv, Recover
    PROVE  StaysWithdrawn
<1>0. TypeOK
  BY Parts
<1>1. CASE UNCHANGED row
  BY <1>1 DEF StaysWithdrawn
<1>2. ASSUME NEW r \in Resources, row[r].status = "processing",
             NEW new, row' = [row EXCEPT ![r] = new]
      PROVE  StaysWithdrawn
  BY <1>0, <1>2, OneRowWithdrawn
<1>3. ASSUME NEW r \in Resources, RecoverNext(r)
      PROVE  StaysWithdrawn
  <2>1. row[r].status = "processing"
    BY <1>3, RecoverFacts DEF RecoverNext, At
  <2> QED
    BY <1>1, <1>2, <1>3, <2>1 DEF RecoverNext, SetStatus
<1>4. CASE RecoverCleaned \/ RecoverResolve
  <2>0. task[Startup].op = "recover" /\ task[Startup].pc \in {"cleaned", "retrieve"}
    BY <1>4 DEF RecoverCleaned, RecoverResolve, At
  <2>r. PICK r \in Resources : r = task[Startup].res
    BY <2>0, RecoverFacts
  <2>1. row[r].status = "processing"
    BY <2>0, <2>r, RecoverFacts
  <2> QED
    BY <1>1, <1>2, <1>4, <2>r, <2>1 DEF RecoverCleaned, RecoverResolve, SetStatus
<1> QED
  BY <1>1, <1>3, <1>4 DEF Recover, RecoverSweep, RecoverEnd, Detach, Remove

(* A step of an upload or of a deletion. *)
LEMMA CallWithdraws ==
    ASSUME IInv, NEW t \in Tasks,
           \/ UploadStage(t) \/ UploadDescribe(t) \/ UploadUnstaged(t)
           \/ DeleteMark(t) \/ DeleteReload(t) \/ DeleteCleaned(t)
    PROVE  StaysWithdrawn
<1>0. task[t].op \in {"upload", "delete"} /\ TypeOK
  BY Parts DEF UploadStage, UploadDescribe, UploadUnstaged, DeleteMark, DeleteReload,
     DeleteCleaned, At
<1>r. PICK r \in Resources : r = task[t].res
  BY <1>0, Active
<1>1. CASE UNCHANGED row
  BY <1>1 DEF StaysWithdrawn
<1>2. CASE UploadDescribe(t)
  <2> DEFINE new == [row[r] EXCEPT !.path = TRUE]
  <2>1. row' = [row EXCEPT ![r] = new] /\ new.status = row[r].status
    BY <1>0, <1>2, <1>r DEF UploadDescribe, TypeOK, Rows
  <2> HIDE DEF new
  <2> QED
    BY <1>0, <2>1, OneRowWithdrawn
<1>3. CASE UploadUnstaged(t)
  <2> DEFINE new == [row[r] EXCEPT !.status = "error"]
  <2>1. row' = [row EXCEPT ![r] = new]
    BY <1>3, <1>r DEF UploadUnstaged, SetStatus
  <2> HIDE DEF new
  <2>2. \A q \in Resources \ {r} : row'[q] = row[q]
    BY <1>0, <2>1 DEF TypeOK
  <2> QED
    BY <1>3, <1>r, <2>2 DEF StaysWithdrawn
<1>4. CASE SetStatus(r, "deleting")
  BY <1>0, <1>4, StatusWithdrawn
<1>5. CASE row' = [row EXCEPT ![r] = [NoRow EXCEPT !.status = "deleted"]]
  <2>1. [NoRow EXCEPT !.status = "deleted"].status = "deleted"
    BY DEF NoRow
  <2> QED
    BY <1>0, <1>5, <2>1, OneRowWithdrawn
<1> QED
  BY <1>r, <1>1, <1>2, <1>3, <1>4, <1>5 DEF UploadStage, DeleteMark, DeleteReload,
     DeleteCleaned

(* Nothing leads back out of a deletion, with crashes, retries and failing *)
(* clean-ups at any point, but the upload of the row, when it has failed   *)
(* to stage its bytes: its except clause writes error over any status.     *)
THEOREM DeletionsStand == Spec => DeletionIsFinal
<1>1. ASSUME IInv, [Next]_vars
      PROVE  StaysWithdrawn
  <2>0. TypeOK
    BY <1>1, Parts
  <2>1. CASE UNCHANGED row
    BY <2>1 DEF StaysWithdrawn
  <2>2. ASSUME NEW t \in Tasks, Progress(t)
        PROVE  StaysWithdrawn
    <3>1. CASE RetryRequeue(t)
      <4>1. task[t].op = "retry"
        BY <3>1 DEF RetryRequeue, At
      <4>2. PICK r \in Resources : r = task[t].res
        BY <1>1, <4>1, Active
      <4> QED
        BY <2>0, <2>1, <3>1, <4>2, StatusWithdrawn DEF RetryRequeue, CanTransition
    <3> QED
      BY <1>1, <2>1, <2>2, <3>1, IngestWithdraws, CallWithdraws DEF Progress, Detach, Remove
  <2>3. ASSUME NEW t \in Tasks, NEW r \in Resources, Request(t, r) \/ StartIngest(t, r)
        PROVE  StaysWithdrawn
    <3>1. CASE Upload(t, r)
      BY <2>0, <3>1, OneRowWithdrawn DEF Upload
    <3> QED
      BY <2>1, <2>3, <3>1 DEF Request, StartIngest, Retry, Delete
  <2> QED
    BY <1>1, <2>1, <2>2, <2>3, RecoverWithdraws DEF Next, Crash, Restart, Settle, vars
<1>2. IInv /\ [Next]_vars => [StaysWithdrawn]_vars
  BY <1>1
<1>3. Spec => [][StaysWithdrawn]_vars
  BY <1>2, Inductive, PTL DEF Spec
<1> QED
  BY <1>3 DEF DeletionIsFinal, StaysWithdrawn

-----------------------------------------------------------------------------
(* The staged bytes *)

(* A row that no ingest will read the bytes of. *)
Spent(r) == row[r].status \notin Working \/ ~row[r].path

(* A task that is about to remove bytes, or to say where they are. *)
BytesOf(t) ==
    /\ task[t].pc = "sweep" => Spent(task[t].res)
    /\ At(t, "upload", "describe") /\ row[task[t].res].status = "queued"
          => task[t].res \in staged

Bytes == StagedForIngest /\ \A t \in AllTasks : BytesOf(t)

LEMMA BytesParts ==
    ASSUME Bytes
    PROVE  /\ \A r \in Resources : Spent(r) \/ r \in staged
           /\ \A t \in AllTasks : BytesOf(t)
BY DEF Bytes, StagedForIngest, Spent, Working

(* A step about one resource, and what it must show to the other tasks. *)
LEMMA BytesSuffice ==
    ASSUME IInv, Bytes, NEW t \in AllTasks, NEW r \in Resources,
           \A u \in AllTasks \ {t} : task'[u] = task[u],
           \A q \in Resources \ {r} : row'[q] = row[q] /\ (q \in staged => q \in staged'),
           \A u \in AllTasks \ {t} : task[u].res = r => BytesOf(u)',
           BytesOf(t)', Spent(r)' \/ r \in staged'
    PROVE  Bytes'
<1>1. ASSUME NEW q \in Resources
      PROVE  Spent(q)' \/ q \in staged'
  BY BytesParts DEF Spent
<1>2. ASSUME NEW u \in AllTasks \ {t}, task[u].res # r
      PROVE  BytesOf(u)'
  <2>1. /\ task'[u] = task[u] /\ BytesOf(u) /\ task[u] \in TaskRecords
        /\ KindOf(u)
    BY Parts, BytesParts
  <2>2. task[u].pc = "sweep" \/ At(u, "upload", "describe") => task[u].res \in Resources \ {r}
    <3>1. CASE u = Startup
      BY <1>2, <2>1, <3>1, Parts DEF Recovery, KindOf, Pcs, At, TypeOK, TaskRecords
    <3>2. CASE u # Startup
      BY <1>2, <3>2, Parts DEF TypeOK, AllTasks, At
    <3> QED
      BY <3>1, <3>2
  <2> QED
    BY <2>1, <2>2 DEF BytesOf, At, Spent
<1>3. \A u \in AllTasks : BytesOf(u)'
  BY <1>2
<1> QED
  BY <1>1, <1>3 DEF Bytes, StagedForIngest, Spent, Working

(* The row of r moves, or nothing does; the bytes stay. *)
LEMMA BytesStay ==
    ASSUME IInv, Bytes, NEW t \in AllTasks, NEW r \in Resources, UNCHANGED staged,
           \A u \in AllTasks \ {t} : task'[u] = task[u],
           \A q \in Resources \ {r} : row'[q] = row[q],
           Spent(r) => Spent(r)',
           row'[r].status = "queued" =>
              \/ row[r].status = "queued"
              \/ \A u \in AllTasks \ {t} : task[u].res = r => task[u].op # "upload",
           BytesOf(t)'
    PROVE  Bytes'
<1>1. ASSUME NEW u \in AllTasks \ {t}, task[u].res = r
      PROVE  BytesOf(u)'
  BY <1>1, BytesParts DEF BytesOf, At
<1>2. Spent(r)' \/ r \in staged'
  BY BytesParts
<1> QED
  BY <1>1, <1>2, BytesSuffice

LEMMA BytesUntouched ==
    ASSUME IInv, Bytes, NEW t \in AllTasks, UNCHANGED <<row, staged>>,
           \A u \in AllTasks \ {t} : task'[u] = task[u],
           task'[t].pc \notin {"sweep", "describe"}
    PROVE  Bytes'
<1>1. \A u \in AllTasks : BytesOf(u)'
  BY BytesParts DEF BytesOf, At, Spent
<1> QED
  BY <1>1 DEF Bytes, StagedForIngest

(* A write of one row that keeps or drops the path. *)
LEMMA RowBytes ==
    ASSUME TypeOK, NEW r \in Resources, NEW new, row' = [row EXCEPT ![r] = new],
           new.path \in {row[r].path, FALSE},
           row[r].status \in Working \/ new.status \notin Working \/ ~new.path
    PROVE  /\ \A q \in Resources \ {r} : row'[q] = row[q]
           /\ row'[r] = new /\ (Spent(r) => Spent(r)')
<1>1. row'[r] = new /\ \A q \in Resources \ {r} : row'[q] = row[q]
  BY DEF TypeOK
<1> QED
  BY <1>1 DEF Spent

(* The steps of an ingest move no other task, and sweep at the end only. *)
LEMMA IngestMoves ==
    ASSUME IInv, NEW t \in Tasks, Ingest(t)
    PROVE  /\ \A u \in AllTasks \ {t} : task'[u] = task[u]
           /\ task'[t].pc # "describe"
           /\ task'[t].pc = "sweep" =>
                 IngestFinish(t) /\ row[task[t].res].status = "processing"
                 /\ task'[t].res = task[t].res
<1> DEFINE Quiet == /\ \A u \in AllTasks \ {t} : task'[u] = task[u]
                    /\ task'[t].pc \notin {"describe", "sweep"}
<1>0. /\ TypeOK /\ t \in AllTasks /\ task[t] \in TaskRecords
  BY Parts
<1>1. CASE End(t)
  BY <1>0, <1>1, EndFrame, NoTaskFacts
<1>2. CASE \E pc \in {"create", "attach", "poll", "finish"} : GoTo(t, pc)
  BY <1>0, <1>2, GoToFrame
<1>3. CASE \E file \in Files \cup {None}, abandon \in BOOLEAN : CleanUp(t, file, abandon)
  BY <1>0, <1>3, CleanUpFrame
<1>4. ASSUME NEW f, task' = [task EXCEPT ![t] = [@ EXCEPT !.pc = "record", !.file = f]]
      PROVE  Quiet
  <2> DEFINE new == [task[t] EXCEPT !.pc = "record", !.file = f]
  <2>1. task' = [task EXCEPT ![t] = new] /\ new.pc = "record"
    BY <1>0, <1>4 DEF TaskRecords
  <2> HIDE DEF new
  <2> QED
    BY <1>0, <2>1 DEF TypeOK, AllTasks
<1>5. task[t].file \in Files \cup {None} /\ None \in Files \cup {None}
  BY <1>0 DEF TaskRecords
<1>6. CASE IngestFinish(t) /\ row[task[t].res].status = "processing"
  <2>1. GoTo(t, "sweep")
    BY <1>6 DEF IngestFinish, CanTransition
  <2> QED
    BY <1>0, <1>6, <2>1, GoToFrame
<1>7. CASE IngestClaim(t) \/ IngestCleaned(t) \/ IngestSweep(t) \/ IngestRecord(t)
  BY <1>1, <1>2, <1>3, <1>5, <1>7
     DEF IngestClaim, IngestCleaned, IngestSweep, IngestRecord
<1>8. CASE IngestCreate(t)
  BY <1>3, <1>4, <1>5, <1>8 DEF IngestCreate
<1>9. CASE IngestAttach(t) \/ IngestPoll(t) \/ IngestFinish(t)
  BY <1>2, <1>3, <1>5, <1>6, <1>9 DEF IngestAttach, IngestPoll, IngestFinish, CanTransition
<1> QED
  BY <1>7, <1>8, <1>9 DEF Ingest

LEMMA IngestBytes ==
    ASSUME IInv, Bytes, NEW t \in Tasks, Ingest(t)
    PROVE  Bytes'
<1>0. task[t].op = "ingest" /\ TypeOK /\ t \in AllTasks
  BY Parts DEF Ingest, IngestClaim, IngestCreate, IngestRecord, IngestAttach, IngestPoll,
     IngestFinish, IngestSweep, IngestCleaned, At
<1>r. PICK r \in Resources : r = task[t].res /\ row[r] \in Rows
  BY <1>0, Active, Parts
<1>1. ASSUME NEW u \in AllTasks \ {t}, task[u].res = r
      PROVE  task[u].op # "upload"
  <2>1. CASE u = Startup
    BY <2>1, Parts DEF KindOf
  <2>2. CASE u # Startup
    BY <1>0, <1>r, <1>1, <2>2, Parts DEF UploadOf, AllTasks
  <2> QED
    BY <2>1, <2>2
<1>2. CASE UNCHANGED <<row, staged>> /\ task'[t].pc # "sweep"
  BY <1>0, <1>2, IngestMoves, BytesUntouched
<1>3. ASSUME NEW new, row' = [row EXCEPT ![r] = new], UNCHANGED staged,
             row[r].status \in Working, new.path \in {row[r].path, FALSE},
             task'[t].pc = "sweep" => ~new.path
      PROVE  Bytes'
  <2>1. /\ \A q \in Resources \ {r} : row'[q] = row[q]
        /\ row'[r] = new /\ (Spent(r) => Spent(r)')
    BY <1>0, <1>3, RowBytes
  <2>2. BytesOf(t)'
    BY <1>r, <1>3, <2>1, IngestMoves DEF BytesOf, At, Spent
  <2> QED
    BY <1>0, <1>1, <1>3, <2>1, <2>2, IngestMoves, BytesStay
<1>4. CASE IngestClaim(t) /\ row[r].status = "queued"
  <2>1. row' = [row EXCEPT ![r] = [row[r] EXCEPT !.status = "processing"]]
    BY <1>4, <1>r DEF IngestClaim, CanTransition, SetStatus
  <2>2. [row[r] EXCEPT !.status = "processing"].path = row[r].path
    BY <1>r DEF Rows
  <2>3. UNCHANGED staged /\ task'[t].pc # "sweep"
    BY <1>4, <1>r, IngestMoves DEF IngestClaim, IngestFinish, At
  <2> QED
    BY <1>3, <1>4, <2>1, <2>2, <2>3 DEF Working
<1>5. CASE IngestRecord(t) /\ row[r].status = "processing"
  <2>1. row' = [row EXCEPT ![r] = [row[r] EXCEPT !.file = task[t].file]]
    BY <1>5, <1>r DEF IngestRecord, CanTransition
  <2>2. [row[r] EXCEPT !.file = task[t].file].path = row[r].path
    BY <1>r DEF Rows
  <2>3. UNCHANGED staged /\ task'[t].pc # "sweep"
    BY <1>5, <1>r, IngestMoves DEF IngestRecord, IngestFinish, At
  <2> QED
    BY <1>3, <1>5, <2>1, <2>2, <2>3 DEF Working
<1>6. CASE IngestFinish(t) /\ row[r].status = "processing"
  <2>1. row' = [row EXCEPT ![r] = [status |-> "ready", file |-> task[t].file, path |-> FALSE]]
    BY <1>6, <1>r DEF IngestFinish, CanTransition
  <2>2. UNCHANGED staged
    BY <1>6 DEF IngestFinish
  <2> QED
    BY <1>3, <1>6, <2>1, <2>2 DEF Working
<1>7. CASE IngestCleaned(t) /\ row[r].status = "processing" /\ ~task[t].abandon
  <2> DEFINE kept == IF task[t].failed THEN task[t].file ELSE None
  <2>1. row' = [row EXCEPT ![r] = [row[r] EXCEPT !.status = "error", !.file = kept]]
    BY <1>7, <1>r DEF IngestCleaned, CanTransition
  <2> HIDE DEF kept
  <2>2. [row[r] EXCEPT !.status = "error", !.file = kept].path = row[r].path
    BY <1>r DEF Rows
  <2>3. UNCHANGED staged /\ task'[t].pc # "sweep"
    BY <1>7, <1>r, IngestMoves DEF IngestCleaned, IngestFinish, At
  <2> QED
    BY <1>3, <1>7, <2>1, <2>2, <2>3 DEF Working
<1>8. CASE IngestSweep(t)
  <2>1. /\ task[t].pc = "sweep" /\ staged' = staged \ {r} /\ UNCHANGED row /\ End(t)
    BY <1>8, <1>r DEF IngestSweep, At
  <2>2. Spent(r)'
    BY <1>0, <1>r, <2>1, BytesParts DEF BytesOf, Spent
  <2>3. BytesOf(t)'
    BY <1>0, <2>1, EndFrame, NoTaskFacts DEF BytesOf, At
  <2>4. ASSUME NEW u \in AllTasks \ {t}, task[u].res = r
        PROVE  BytesOf(u)'
    BY <1>1, <2>1, <2>2, <2>4, IngestMoves DEF BytesOf, At
  <2> QED
    BY <1>0, <2>1, <2>2, <2>3, <2>4, IngestMoves, BytesSuffice
<1>9. CASE ~IngestSweep(t) /\ UNCHANGED row
  <2>1. task'[t].pc # "sweep"
    <3>1. CASE task'[t].pc = "sweep"
      <4> DEFINE new == [status |-> "ready", file |-> task[t].file, path |-> FALSE]
      <4>1. IngestFinish(t) /\ row[r].status = "processing"
        BY <1>r, <3>1, IngestMoves
      <4>2. row' = [row EXCEPT ![r] = new]
        BY <1>r, <4>1 DEF IngestFinish, CanTransition
      <4>3. new.status = "ready"
        OBVIOUS
      <4> HIDE DEF new
      <4>4. row'[r] = new
        BY <1>0, <4>2 DEF TypeOK
      <4> QED
        BY <1>9, <4>1, <4>3, <4>4
    <3> QED
      BY <3>1
  <2> QED
    BY <1>2, <1>9, <2>1 DEF Ingest, IngestClaim, IngestCreate, IngestRecord, IngestAttach,
       IngestPoll, IngestFinish, IngestCleaned
<1> QED
  BY <1>r, <1>4, <1>5, <1>6, <1>7, <1>8, <1>9 DEF Ingest, IngestClaim, IngestCreate,
     IngestRecord, IngestAttach, IngestPoll, IngestFinish, IngestCleaned, CanTransition

(* An upload stages the bytes and then names them. *)
LEMMA UploadBytes ==
    ASSUME IInv, Bytes, NEW t \in Tasks,
           UploadStage(t) \/ UploadDescribe(t) \/ UploadUnstaged(t)
    PROVE  Bytes'
<1>0. /\ task[t].op = "upload" /\ TypeOK /\ t \in AllTasks /\ UploadOf(t)
      /\ task[t] \in TaskRecords
  BY Parts DEF UploadStage, UploadDescribe, UploadUnstaged, At
<1>r. PICK r \in Resources : r = task[t].res /\ row[r] \in Rows
  BY <1>0, Active, Parts
<1>1. ASSUME NEW u \in AllTasks \ {t}, task[u].res = r
      PROVE  task[u].op # "upload" /\ task[u].pc # "sweep"
  <2>1. CASE u = Startup
    BY <1>0, <1>r, <1>1, <2>1, Active, Parts DEF Recovery, KindOf, Pcs
  <2>2. CASE u # Startup
    <3>1. task[u].op = "delete" /\ KindOf(u)
      BY <1>0, <1>r, <1>1, <2>2, Parts DEF UploadOf, AllTasks
    <3> QED
      BY <3>1 DEF KindOf, Pcs
  <2> QED
    BY <2>1, <2>2
<1>2. ~row[r].path /\ Spent(r)
  BY <1>0, <1>r DEF UploadOf, Spent
<1>3. ASSUME \A u \in AllTasks \ {t} : task'[u] = task[u],
             NEW u \in AllTasks \ {t}, task[u].res = r
      PROVE  BytesOf(u)'
  BY <1>1, <1>3 DEF BytesOf, At
<1>4. CASE UploadStage(t)
  <2>1. /\ UNCHANGED row /\ \A q \in Resources \ {r} : q \in staged => q \in staged'
        /\ \/ r \in staged' /\ GoTo(t, "describe")
           \/ GoTo(t, "unstaged")
    BY <1>4, <1>r DEF UploadStage
  <2>2. /\ \A u \in AllTasks \ {t} : task'[u] = task[u]
        /\ task'[t].res = r /\ task'[t].pc \in {"describe", "unstaged"}
        /\ task'[t].pc = "describe" => r \in staged'
    BY <1>0, <1>r, <2>1, GoToFrame
  <2>3. BytesOf(t)' /\ Spent(r)'
    BY <1>2, <2>1, <2>2 DEF BytesOf, At, Spent
  <2> QED
    BY <1>0, <1>3, <2>1, <2>2, <2>3, BytesSuffice
<1>5. CASE UploadDescribe(t)
  <2> DEFINE new == [row[r] EXCEPT !.path = TRUE]
  <2>1. row' = [row EXCEPT ![r] = new] /\ End(t) /\ UNCHANGED staged
    BY <1>5, <1>r DEF UploadDescribe
  <2>2. new.status = row[r].status
    BY <1>r DEF Rows
  <2> HIDE DEF new
  <2>3. row'[r] = new /\ \A q \in Resources \ {r} : row'[q] = row[q]
    BY <1>0, <2>1 DEF TypeOK
  <2>4. /\ \A u \in AllTasks \ {t} : task'[u] = task[u]
        /\ BytesOf(t)'
    BY <1>0, <2>1, EndFrame, NoTaskFacts DEF BytesOf, At
  <2>5. Spent(r)' \/ r \in staged'
    <3>1. row[r].status = "queued" => r \in staged
      BY <1>0, <1>5, <1>r, BytesParts DEF BytesOf, UploadDescribe
    <3> QED
      BY <1>0, <1>r, <2>1, <2>2, <2>3, <3>1 DEF UploadOf, Spent, Working
  <2> QED
    BY <1>0, <1>3, <2>1, <2>3, <2>4, <2>5, BytesSuffice
<1>6. CASE UploadUnstaged(t)
  <2>1. SetStatus(r, "error") /\ End(t) /\ UNCHANGED staged
    BY <1>6, <1>r DEF UploadUnstaged
  <2>2. /\ \A q \in Resources \ {r} : row'[q] = row[q]
        /\ row'[r].path = row[r].path
    BY <1>0, <2>1, SetStatusFrame DEF Statuses
  <2>3. /\ \A u \in AllTasks \ {t} : task'[u] = task[u]
        /\ BytesOf(t)'
    BY <1>0, <2>1, EndFrame, NoTaskFacts DEF BytesOf, At
  <2>4. Spent(r)'
    BY <1>2, <2>2 DEF Spent
  <2> QED
    BY <1>0, <1>3, <2>1, <2>2, <2>3, <2>4, BytesSuffice
<1> QED
  BY <1>4, <1>5, <1>6

(* Clean-ups, deletions and retries. *)
LEMMA CallBytes ==
    ASSUME IInv, Bytes, NEW t \in Tasks,
           \/ Detach(t) \/ Remove(t) \/ RetryRequeue(t)
           \/ DeleteMark(t) \/ DeleteReload(t) \/ DeleteCleaned(t)
    PROVE  Bytes'
<1>0. /\ task[t].op # "none" /\ TypeOK /\ t \in AllTasks /\ task[t] \in TaskRecords
      /\ DeleteOf(t)
  BY Parts DEF Detach, Remove, RetryRequeue, DeleteMark, DeleteReload, DeleteCleaned, At,
     KindOf, NoTask
<1>r. PICK r \in Resources : r = task[t].res /\ row[r] \in Rows
  BY <1>0, Active, Parts
<1>1. CASE Detach(t) \/ Remove(t)
  <2>1. /\ UNCHANGED <<row, staged>>
        /\ \/ \E pc \in {"remove", "cleaned"} : GoTo(t, pc)
           \/ \E pc \in {"remove", "cleaned"} :
                 task' = [task EXCEPT ![t] = [@ EXCEPT !.pc = pc, !.failed = TRUE]]
    BY <1>1 DEF Detach, Remove
  <2>2. /\ \A u \in AllTasks \ {t} : task'[u] = task[u]
        /\ task'[t].pc \notin {"sweep", "describe"}
    <3>1. CASE \E pc \in {"remove", "cleaned"} : GoTo(t, pc)
      BY <1>0, <3>1, GoToFrame
    <3>2. ASSUME NEW pc \in {"remove", "cleaned"},
                 task' = [task EXCEPT ![t] = [@ EXCEPT !.pc = pc, !.failed = TRUE]]
          PROVE  /\ \A u \in AllTasks \ {t} : task'[u] = task[u]
                 /\ task'[t].pc \notin {"sweep", "describe"}
      <4> DEFINE new == [task[t] EXCEPT !.pc = pc, !.failed = TRUE]
      <4>1. task' = [task EXCEPT ![t] = new] /\ new.pc = pc
        BY <1>0, <3>2 DEF TaskRecords
      <4> HIDE DEF new
      <4> QED
        BY <1>0, <4>1 DEF TypeOK, AllTasks
    <3> QED
      BY <2>1, <3>1, <3>2
  <2> QED
    BY <1>0, <2>1, <2>2, BytesUntouched
<1>2. CASE DeleteReload(t)
  <2> DEFINE pc == FirstOfCleanUp(row[r].file)
             new == [task[t] EXCEPT !.status = row[r].status, !.path = row[r].path,
                                    !.file = row[r].file, !.pc = pc]
  <2>1. task' = [task EXCEPT ![t] = new] /\ UNCHANGED <<row, staged>>
    BY <1>2, <1>r DEF DeleteReload
  <2>2. new.pc = pc /\ pc \notin {"sweep", "describe"}
    BY <1>0 DEF TaskRecords, FirstOfCleanUp
  <2> HIDE DEF new, pc
  <2>3. task'[t] = new /\ \A u \in AllTasks \ {t} : task'[u] = task[u]
    BY <1>0, <2>1 DEF TypeOK, AllTasks
  <2> QED
    BY <1>0, <2>1, <2>2, <2>3, BytesUntouched
<1>3. CASE RetryRequeue(t) \/ DeleteMark(t) \/ DeleteCleaned(t)
  <2>1. End(t) \/ GoTo(t, "reload")
    BY <1>3 DEF RetryRequeue, DeleteMark, DeleteCleaned
  <2>2. /\ \A u \in AllTasks \ {t} : task'[u] = task[u]
        /\ task'[t].pc \notin {"sweep", "describe"}
    BY <1>0, <2>1, EndFrame, GoToFrame, NoTaskFacts
  <2>3. BytesOf(t)'
    BY <2>2 DEF BytesOf, At
  <2>4. CASE UNCHANGED <<row, staged>>
    BY <1>0, <2>2, <2>4, BytesUntouched
  <2>5. CASE RetryRequeue(t) /\ row[r].status = "error" /\ SetStatus(r, "queued")
    <3>1. /\ \A q \in Resources \ {r} : row'[q] = row[q]
          /\ row'[r].path = row[r].path /\ UNCHANGED staged
      BY <1>0, <2>5, SetStatusFrame DEF Statuses, RetryRequeue
    <3>2. Spent(r) => Spent(r)'
      BY <2>5, <3>1 DEF Spent, Working
    <3>3. ASSUME NEW u \in AllTasks \ {t}, task[u].res = r
          PROVE  task[u].op # "upload"
      <4>1. task[t].op = "retry"
        BY <2>5 DEF RetryRequeue, At
      <4>2. CASE u = Startup
        BY <4>2, Parts DEF KindOf
      <4>3. CASE u # Startup
        BY <1>0, <1>r, <3>3, <4>1, <4>3, Parts DEF UploadOf, AllTasks
      <4> QED
        BY <4>2, <4>3
    <3> QED
      BY <1>0, <2>2, <2>3, <3>1, <3>2, <3>3, BytesStay
  <2>6. CASE SetStatus(r, "deleting") /\ UNCHANGED staged
    <3>1. /\ \A q \in Resources \ {r} : row'[q] = row[q]
          /\ row'[r].status = "deleting"
      BY <1>0, <2>6, SetStatusFrame DEF Statuses
    <3> QED
      BY <1>0, <2>2, <2>3, <2>6, <3>1, BytesStay DEF Spent, Working
  <2>7. CASE /\ DeleteCleaned(t)
             /\ row' = [row EXCEPT ![r] = [NoRow EXCEPT !.status = "deleted"]]
    <3> DEFINE new == [NoRow EXCEPT !.status = "deleted"]
    <3>1. row' = [row EXCEPT ![r] = new] /\ new.status = "deleted" /\ new.path = FALSE
      BY <2>7 DEF NoRow
    <3> HIDE DEF new
    <3>2. /\ row'[r] = new /\ \A q \in Resources \ {r} : row'[q] = row[q]
      BY <1>0, <3>1 DEF TypeOK
    <3>3. Spent(r)'
      BY <3>1, <3>2 DEF Spent
    <3>4. \A q \in Resources \ {r} : q \in staged => q \in staged'
      BY <1>r, <2>7 DEF DeleteCleaned
    <3>5. ASSUME NEW u \in AllTasks \ {t}, task[u].res = r
          PROVE  BytesOf(u)'
      BY <2>2, <3>1, <3>2, <3>3, <3>5 DEF BytesOf, At
    <3> QED
      BY <1>0, <2>2, <2>3, <3>2, <3>3, <3>4, <3>5, BytesSuffice
  <2> QED
    BY <1>r, <1>3, <2>4, <2>5, <2>6, <2>7 DEF RetryRequeue, DeleteMark, DeleteCleaned,
       CanTransition
<1> QED
  BY <1>1, <1>2, <1>3

LEMMA RequestBytes ==
    ASSUME IInv, Bytes, NEW t \in Tasks, NEW r \in Resources,
           Request(t, r) \/ StartIngest(t, r)
    PROVE  Bytes'
<1>0. TypeOK /\ t \in AllTasks /\ RowOf(r) /\ KindOf(Startup)
  BY Parts
<1>1. CASE Upload(t, r)
  <2> DEFINE new == [NoRow EXCEPT !.status = "queued"]
  <2>1. /\ row' = [row EXCEPT ![r] = new] /\ new.path = FALSE /\ UNCHANGED staged
        /\ row[r].status = "absent" /\ Begin(t, "upload", "stage", r)
    BY <1>1 DEF Upload, NoRow
  <2> HIDE DEF new
  <2>2. /\ \A q \in Resources \ {r} : row'[q] = row[q]
        /\ row'[r] = new /\ (Spent(r) => Spent(r)')
    BY <1>0, <2>1, RowBytes
  <2>3. /\ \A u \in AllTasks \ {t} : task'[u] = task[u]
        /\ task'[t].pc = "stage"
    BY <1>0, <2>1, BeginFrame
  <2>4. \A u \in AllTasks \ {t} : task[u].res = r => task[u].op # "upload"
    BY <1>0, <2>1 DEF RowOf, KindOf, AllTasks
  <2>5. BytesOf(t)'
    BY <2>3 DEF BytesOf, At
  <2> QED
    BY <1>0, <2>1, <2>2, <2>3, <2>4, <2>5, BytesStay
<1>2. CASE UNCHANGED task /\ StartIngest(t, r)
  <2>1. UNCHANGED <<row, staged, task>>
    BY <1>2 DEF StartIngest
  <2>2. \A u \in AllTasks : BytesOf(u)'
    BY <2>1, BytesParts DEF BytesOf, At, Spent
  <2> QED
    BY <2>1, <2>2 DEF Bytes, StagedForIngest
<1>3. CASE /\ UNCHANGED <<row, staged>>
           /\ \/ Begin(t, "retry", "requeue", r) \/ Begin(t, "ingest", "claim", r)
              \/ Begin(t, "delete", "mark", r)
  <2>1. /\ \A u \in AllTasks \ {t} : task'[u] = task[u]
        /\ task'[t].pc \in {"requeue", "claim", "mark"}
    BY <1>0, <1>3, BeginFrame
  <2> QED
    BY <1>0, <1>3, <2>1, BytesUntouched
<1>4. CASE Delete(t, r) /\ row[r].status = "deleting"
  <2> DEFINE new == [NoTask EXCEPT !.op = "delete", !.res = r, !.status = "deleting",
                        !.path = row[r].path, !.file = row[r].file,
                        !.pc = FirstOfCleanUp(row[r].file)]
  <2>1. task' = [task EXCEPT ![t] = new] /\ UNCHANGED <<row, staged>>
    BY <1>4 DEF Delete
  <2>2. new.pc \in {"cleaned", "detach"}
    BY DEF NoTask, FirstOfCleanUp
  <2> HIDE DEF new
  <2>3. task'[t] = new /\ \A u \in AllTasks \ {t} : task'[u] = task[u]
    BY <1>0, <2>1 DEF TypeOK, AllTasks
  <2> QED
    BY <1>0, <2>1, <2>2, <2>3, BytesUntouched
<1> QED
  BY <1>1, <1>2, <1>3, <1>4 DEF Request, Retry, Delete, StartIngest

(* Recovery sweeps the bytes of a row that it has made ready. *)
LEMMA RecoverBytes ==
    ASSUME IInv, Bytes, Recover
    PROVE  Bytes'
<1>0. task[Startup].op = "recover"
  <2>1. task[Startup].op # "none"
    BY Parts, NoTaskFacts DEF Recover, RecoverNext, RecoverResolve, RecoverSweep,
       RecoverCleaned, RecoverEnd, Detach, Remove, At, KindOf
  <2> QED
    BY <2>1, Parts DEF KindOf
<1>1. TypeOK /\ Startup \in AllTasks /\ task[Startup] \in TaskRecords
  BY <1>0, RecoverFacts
<1>2. ASSUME UNCHANGED <<row, staged>>,
             \E new : task' = [task EXCEPT ![Startup] = new]
                      /\ new.pc \notin {"sweep", "describe"}
      PROVE  Bytes'
  <2>1. /\ \A u \in AllTasks \ {Startup} : task'[u] = task[u]
        /\ task'[Startup].pc \notin {"sweep", "describe"}
    BY <1>1, <1>2 DEF TypeOK, AllTasks
  <2> QED
    BY <1>1, <1>2, <2>1, BytesUntouched
<1>3. ASSUME NEW r \in todo, NEW new, row' = [row EXCEPT ![r] = new], UNCHANGED staged,
             row[r].status \in Working, new.path \in {row[r].path, FALSE},
             \A u \in Tasks : task'[u] = task[u],
             task'[Startup].pc # "describe",
             task'[Startup].pc = "sweep" => task'[Startup].res = r /\ ~new.path
      PROVE  Bytes'
  <2>1. r \in Resources /\ \A u \in Tasks : task[u].res # r
    BY <1>0, RecoverFacts
  <2>2. /\ \A q \in Resources \ {r} : row'[q] = row[q]
        /\ row'[r] = new /\ (Spent(r) => Spent(r)')
    BY <1>1, <1>3, <2>1, RowBytes
  <2>3. BytesOf(Startup)'
    BY <1>3, <2>2 DEF BytesOf, At, Spent
  <2>4. /\ \A u \in AllTasks \ {Startup} : task'[u] = task[u]
        /\ \A u \in AllTasks \ {Startup} : task[u].res # r
    BY <1>3, <2>1 DEF AllTasks
  <2> QED
    BY <1>1, <1>3, <2>1, <2>2, <2>3, <2>4, BytesStay
<1>4. ASSUME NEW r \in Resources, RecoverNext(r)
      PROVE  Bytes'
  <2>0. r \in todo /\ row[r] \in Rows /\ row[r].status = "processing"
    BY <1>0, <1>4, RecoverFacts DEF RecoverNext, At
  <2>1. CASE row[r].file = None
    <3>1. /\ row' = [row EXCEPT ![r] = [row[r] EXCEPT !.status = "queued"]]
          /\ UNCHANGED <<staged, task>> /\ task[Startup].pc = "next"
      BY <1>4, <2>1 DEF RecoverNext, SetStatus, At
    <3>2. [row[r] EXCEPT !.status = "queued"].path = row[r].path
      BY <2>0 DEF Rows
    <3> QED
      BY <1>3, <2>0, <3>1, <3>2 DEF Working
  <2>2. CASE row[r].file # None
    <3> DEFINE new == [task[Startup] EXCEPT !.pc = "retrieve", !.res = r,
                          !.file = row[r].file, !.path = row[r].path, !.failed = FALSE]
    <3>1. UNCHANGED <<row, staged>> /\ task' = [task EXCEPT ![Startup] = new]
      BY <1>4, <2>2 DEF RecoverNext
    <3>2. new.pc = "retrieve"
      BY <1>1 DEF TaskRecords
    <3> QED
      BY <1>2, <3>1, <3>2
  <2> QED
    BY <2>1, <2>2
<1>5. CASE RecoverEnd
  <2>1. UNCHANGED <<row, staged>> /\ task' = [task EXCEPT ![Startup] = NoTask]
    BY <1>5 DEF RecoverEnd, End
  <2> QED
    BY <1>2, <2>1, NoTaskFacts
<1>6. CASE Detach(Startup) \/ Remove(Startup)
  <2>1. /\ UNCHANGED <<row, staged>>
        /\ \E pc \in {"remove", "cleaned"} :
              \/ task' = [task EXCEPT ![Startup] = [task[Startup] EXCEPT !.pc = pc]]
              \/ task' = [task EXCEPT ![Startup] =
                             [task[Startup] EXCEPT !.pc = pc, !.failed = TRUE]]
    BY <1>6 DEF Detach, Remove, GoTo
  <2>2. \A pc \in {"remove", "cleaned"} :
           /\ [task[Startup] EXCEPT !.pc = pc].pc = pc
           /\ [task[Startup] EXCEPT !.pc = pc, !.failed = TRUE].pc = pc
    BY <1>1 DEF TaskRecords
  <2> QED
    BY <1>2, <2>1, <2>2
<1>7. CASE RecoverResolve \/ RecoverSweep \/ RecoverCleaned
  <2>0. task[Startup].pc \in {"retrieve", "sweep", "cleaned"}
    BY <1>7 DEF RecoverResolve, RecoverSweep, RecoverCleaned, At
  <2>r. PICK r \in todo : r = task[Startup].res
    BY <1>0, <2>0, RecoverFacts
  <2>1. /\ r \in Resources /\ row[r] \in Rows /\ \A u \in Tasks : task[u].res # r
        /\ task[Startup].pc # "sweep" => row[r].status = "processing"
    BY <1>0, <2>r, RecoverFacts
  <2>2. ASSUME NEW pc \in {"next", "sweep"}, GoTo(Startup, pc)
        PROVE  /\ \A u \in AllTasks \ {Startup} : task'[u] = task[u]
               /\ \A u \in Tasks : task'[u] = task[u]
               /\ task'[Startup].pc = pc /\ task'[Startup].res = r
    <3>1. /\ \A u \in AllTasks \ {Startup} : task'[u] = task[u]
          /\ task'[Startup].pc = pc /\ task'[Startup].res = r
      BY <1>1, <2>r, <2>2, GoToFrame
    <3> QED
      BY <3>1, KnowledgeAssumption DEF AllTasks
  <2>3. CASE RecoverSweep
    <3>1. /\ UNCHANGED row /\ GoTo(Startup, "next") /\ task[Startup].pc = "sweep"
          /\ \A q \in Resources \ {r} : q \in staged => q \in staged'
      BY <2>3, <2>r DEF RecoverSweep, At
    <3>2. Spent(r)'
      BY <1>1, <2>r, <3>1, BytesParts DEF BytesOf, Spent
    <3>3. BytesOf(Startup)'
      BY <2>2, <3>1 DEF BytesOf, At
    <3>4. \A u \in AllTasks \ {Startup} : task[u].res # r
      BY <2>1 DEF AllTasks
    <3> QED
      BY <1>1, <2>1, <2>2, <3>1, <3>2, <3>3, <3>4, BytesSuffice
  <2>4. CASE RecoverCleaned
    <3>1. /\ GoTo(Startup, "next") /\ UNCHANGED staged /\ row[r].status = "processing"
          /\ \/ row' = [row EXCEPT ![r] = [row[r] EXCEPT !.status = "error"]]
             \/ row' = [row EXCEPT ![r] = [row[r] EXCEPT !.status = "queued", !.file = None]]
      BY <2>1, <2>4, <2>r DEF RecoverCleaned, SetStatus, At
    <3>2. /\ [row[r] EXCEPT !.status = "error"].path = row[r].path
          /\ [row[r] EXCEPT !.status = "queued", !.file = None].path = row[r].path
      BY <2>1 DEF Rows
    <3> QED
      BY <1>3, <2>2, <3>1, <3>2 DEF Working
  <2>5. CASE RecoverResolve
    <3>0. row[r].status = "processing" /\ UNCHANGED staged
      BY <2>1, <2>5 DEF RecoverResolve, At
    <3>1. CASE /\ row' = [row EXCEPT ![r] = [row[r] EXCEPT !.status = "ready", !.path = FALSE]]
               /\ GoTo(Startup, "sweep")
      <4>1. [row[r] EXCEPT !.status = "ready", !.path = FALSE].path = FALSE
        BY <2>1 DEF Rows
      <4> QED
        BY <1>3, <2>2, <3>0, <3>1, <4>1 DEF Working
    <3>2. CASE SetStatus(r, "error") /\ GoTo(Startup, "next")
      <4>1. row' = [row EXCEPT ![r] = [row[r] EXCEPT !.status = "error"]]
        BY <3>2 DEF SetStatus
      <4>2. [row[r] EXCEPT !.status = "error"].path = row[r].path
        BY <2>1 DEF Rows
      <4> QED
        BY <1>3, <2>2, <3>0, <3>2, <4>1, <4>2 DEF Working
    <3>3. CASE CleanUp(Startup, task[Startup].file, FALSE) /\ UNCHANGED row
      <4>1. /\ \A u \in AllTasks \ {Startup} : task'[u] = task[u]
            /\ task'[Startup].pc \notin {"sweep", "describe"}
        <5>1. task[Startup].file \in Files \cup {None}
          BY <1>1 DEF TaskRecords
        <5> QED
          BY <1>1, <3>3, <5>1, CleanUpFrame
      <4> QED
        BY <1>1, <3>0, <3>3, <4>1, BytesUntouched
    <3> QED
      BY <2>5, <2>r, <3>1, <3>2, <3>3 DEF RecoverResolve
  <2> QED
    BY <1>7, <2>3, <2>4, <2>5
<1> QED
  BY <1>4, <1>5, <1>6, <1>7 DEF Recover

LEMMA NextBytes ==
    ASSUME IInv, Bytes, [Next]_vars
    PROVE  Bytes'
<1>1. ASSUME NEW t \in Tasks, Progress(t)
      PROVE  Bytes'
  BY <1>1, IngestBytes, UploadBytes, CallBytes DEF Progress
<1>2. ASSUME NEW t \in Tasks, NEW r \in Resources, Request(t, r) \/ StartIngest(t, r)
      PROVE  Bytes'
  BY <1>2, RequestBytes
<1>3. CASE Crash
  <2>1. UNCHANGED <<row, staged>> /\ \A u \in AllTasks : task'[u] = NoTask
    BY <1>3 DEF Crash, AllTasks
  <2> QED
    BY <2>1, NoTaskFacts DEF Bytes, BytesOf, At, StagedForIngest
<1>4. CASE Restart
  <2> DEFINE new == [NoTask EXCEPT !.op = "recover", !.pc = "next"]
  <2>1. UNCHANGED <<row, staged>> /\ task' = [task EXCEPT ![Startup] = new]
    BY <1>4 DEF Restart
  <2>2. new.pc = "next"
    BY DEF NoTask
  <2> HIDE DEF new
  <2>3. /\ \A u \in AllTasks \ {Startup} : task'[u] = task[u]
        /\ task'[Startup] = new /\ Startup \in AllTasks
    BY <2>1, Parts DEF TypeOK, AllTasks
  <2> QED
    BY <2>1, <2>2, <2>3, BytesUntouched
<1>5. CASE UNCHANGED vars \/ \E f \in Files : Settle(f)
  <2>1. UNCHANGED <<row, staged, task>>
    BY <1>5 DEF vars, Settle
  <2>2. \A u \in AllTasks : BytesOf(u)'
    BY <2>1, BytesParts DEF BytesOf, At, Spent
  <2> QED
    BY <2>1, <2>2 DEF Bytes, StagedForIngest
<1> QED
  BY <1>1, <1>2, <1>3, <1>4, <1>5, RecoverBytes DEF Next

(* A row that can still be ingested, queued, interrupted or retryable, has *)
(* its bytes as long as it names them, whatever crashes, retries and       *)
(* deletions overlap with the removals.                                    *)
THEOREM BytesKept == Spec => []StagedForIngest
<1>1. Init => Bytes
  <2>1. SUFFICES ASSUME Init
                 PROVE  Bytes
    OBVIOUS
  <2>2. /\ \A t \in AllTasks : task[t] = NoTask
        /\ \A r \in Resources : row[r] = NoRow
    BY <2>1 DEF Init, AllTasks
  <2> QED
    BY <2>2, NoTaskFacts DEF Bytes, BytesOf, At, StagedForIngest, NoRow
<1>2. IInv /\ Bytes /\ [Next]_vars => Bytes'
  BY NextBytes
<1>3. Bytes => StagedForIngest
  BY DEF Bytes
<1> QED
  BY <1>1, <1>2, <1>3, Inductive, PTL DEF Spec

-----------------------------------------------------------------------------
(* While the process runs and the provider's ids arrive *)

(* A crash or a lost answer before the record of its id leaves a provider  *)
(* file that nothing knows, and so does a retry that came too late.        *)
Whole == MaxCrashes = 0 /\ "lost" \notin Faults /\ Tidy

Holding == {"record", "attach", "poll", "finish", "detach", "remove"}

(* t is the ingest that has brought f to the provider. *)
Holds(t, r, f) ==
    /\ HasClaimed(t, r) /\ task[t].file = f
    /\ task[t].pc \in Holding \/ (task[t].pc = "cleaned" /\ task[t].failed)

(* Each file the provider keeps is known to its ingest or to its row. *)
FilesOf(r) ==
    \A f \in stored : origin[f] = r =>
        \/ row[r].status = "processing" /\ \E t \in Tasks : Holds(t, r, f)
        \/ row[r].status \in {"ready", "deleting"} /\ row[r].file = f
        \/ row[r].status = "error" /\ row[r].file = f /\ "cleanup" \in Faults

StoredOf(t) ==
    HasClaimed(t, task[t].res) /\ task[t].pc \in {"record", "attach", "poll", "finish"}
        => task[t].file \in stored

MarkOf(t) == task[t].op = "delete" /\ task[t].pc = "mark" => task[t].status # "deleted"

Served ==
    /\ IInv
    /\ up /\ todo = {} /\ task[Startup] = NoTask
    /\ \A t \in Tasks : StoredOf(t) /\ MarkOf(t)
    /\ \A r \in Resources : FilesOf(r)

(* Nothing but the provider's answers fails. *)
Calm == Faults = {} /\ MaxCrashes = 0

Pledge(r) == [Contract(r)!Next]_(Contract(r)!vars)

(* The moves of the contract. *)
LEMMA Pledges ==
    ASSUME NEW r \in Resources,
           NEW old, old = Progression(r), NEW new, new = Progression(r)',
           \/ /\ Kept(r)' <=> Kept(r)
              /\ \/ new = old
                 \/ old = "absent" /\ new = "pending"
                 \/ old = "searchable" /\ new = "withdrawn"
           \/ /\ ~Kept(r) /\ ~Kept(r)'
              /\ \/ old = "pending" /\ new \in {"rejected", "withdrawn"}
                 \/ old = "rejected" /\ new \in {"pending", "withdrawn"}
                 \/ old = "withdrawn" /\ new = "removed"
           \/ Kept(r) /\ Kept(r)' /\ old = "pending" /\ new = "searchable"
           \/ new = old /\ old = "pending" /\ ~Kept(r) /\ Kept(r)'
           \/ new = old /\ old \in {"pending", "withdrawn"} /\ Kept(r) /\ ~Kept(r)'
    PROVE  Pledge(r)
<1>0. Kept(r) \in BOOLEAN /\ Kept(r)' \in BOOLEAN
  BY DEF Kept
<1>1. ASSUME NEW from, NEW to, old = from, new = to, Kept(r)' <=> Kept(r)
      PROVE  Contract(r)!Moves(from, to)
  BY <1>0, <1>1 DEF Contract!Moves
<1>2. CASE new = old /\ (Kept(r)' <=> Kept(r))
  BY <1>0, <1>2 DEF Pledge, Contract!vars
<1>3. CASE new = old /\ old = "pending" /\ ~Kept(r) /\ Kept(r)'
  BY <1>0, <1>3 DEF Pledge, Contract!Next, Contract!Keep
<1>4. CASE new = old /\ old \in {"pending", "withdrawn"} /\ Kept(r) /\ ~Kept(r)'
  BY <1>0, <1>4 DEF Pledge, Contract!Next, Contract!Drop
<1>5. CASE \/ old = "absent" /\ new = "pending" /\ (Kept(r)' <=> Kept(r))
           \/ old = "searchable" /\ new = "withdrawn" /\ (Kept(r)' <=> Kept(r))
  BY <1>1, <1>5 DEF Pledge, Contract!Next, Contract!Accept, Contract!Withdraw
<1>6. CASE ~Kept(r) /\ ~Kept(r)' /\ old = "pending" /\ new \in {"rejected", "withdrawn"}
  BY <1>1, <1>6 DEF Pledge, Contract!Next, Contract!Reject, Contract!Withdraw
<1>7. CASE ~Kept(r) /\ ~Kept(r)' /\ old = "rejected" /\ new \in {"pending", "withdrawn"}
  BY <1>1, <1>7 DEF Pledge, Contract!Next, Contract!TryAgain, Contract!Withdraw
<1>8. CASE ~Kept(r) /\ ~Kept(r)' /\ old = "withdrawn" /\ new = "removed"
  BY <1>1, <1>8 DEF Pledge, Contract!Next, Contract!Remove
<1>9. CASE Kept(r) /\ Kept(r)' /\ old = "pending" /\ new = "searchable"
  BY <1>1, <1>9 DEF Pledge, Contract!Next, Contract!Publish
<1> QED
  BY <1>2, <1>3, <1>4, <1>5, <1>6, <1>7, <1>8, <1>9

Fulfilled == Served' /\ (Calm => \A r \in Resources : Pledge(r))

LEMMA ServedParts ==
    ASSUME Whole, Served
    PROVE  /\ IInv /\ up /\ todo = {} /\ task[Startup] = NoTask
           /\ \A t \in Tasks : StoredOf(t) /\ MarkOf(t) /\ t \in AllTasks
           /\ \A r \in Resources : FilesOf(r) /\ r # None
           /\ Calm => \A t \in AllTasks : ~task[t].failed
           /\ crashes = 0
BY Parts DEF Served, Whole, Calm, TypeOK, KindOf

(* The ingest that holds a file of its row is the only one. *)
LEMMA HolderAlone ==
    ASSUME IInv, NEW t \in Tasks, NEW r \in Resources, HasClaimed(t, r),
           NEW u \in Tasks, NEW f, Holds(u, r, f)
    PROVE  u = t
<1>1. task[t].res = r /\ HasClaimed(u, r) /\ task[u].res = r
  BY DEF HasClaimed, Holds
<1>2. Sound(u)
  BY <1>1, Parts DEF IngestOf, Holds, Holding, Sound
<1> QED
  BY <1>1, <1>2, Parts DEF IngestOf

(* The provider keeps nothing for a row without bytes. *)
LEMMA BareHasNoFile ==
    ASSUME Whole, Served, NEW r \in Resources, Bare(r), NEW f \in stored
    PROVE  origin[f] # r
<1>0. IInv /\ row[r] \in Rows /\ RowOf(r) /\ FilesOf(r) /\ f # None
  BY ServedParts, Parts DEF TypeOK
<1>1. row[r].file = None
  BY <1>0 DEF RowOf, Bare
<1>2. ASSUME NEW u \in Tasks, Holds(u, r, f), row[r].status = "processing"
      PROVE  FALSE
  BY <1>0, <1>2, Parts DEF Holds, HasClaimed, Holding, IngestOf, Bare, Working
<1> QED
  BY <1>0, <1>1, <1>2 DEF FilesOf, Bare, Working

(* A step of one call about one resource. *)
LEMMA ServedSuffices ==
    ASSUME Whole, Served, IInv', NEW t \in Tasks, NEW r \in Resources,
           task[t].res \in {r, None}, task'[t].res \in {r, None},
           \A u \in AllTasks \ {t} : task'[u] = task[u], UNCHANGED <<process, todo>>,
           \A q \in Resources \ {r} : row'[q] = row[q],
           \A f \in stored' : f \in stored \/ origin'[f] = r,
           \A f \in stored : f \in stored' \/ (task[t].pc = "remove" /\ f = task[t].file),
           \A f \in Files : origin'[f] = origin[f] \/ (origin[f] = None /\ origin'[f] = r),
           StoredOf(t)', MarkOf(t)', FilesOf(r)', Calm => Pledge(r)
    PROVE  Fulfilled
<1>0. /\ IInv /\ up /\ todo = {} /\ task[Startup] = NoTask /\ TypeOK /\ TypeOK'
      /\ t # Startup /\ t \in AllTasks /\ Startup \in AllTasks /\ r # None
  BY ServedParts, Parts DEF IInv
<1>1. up' /\ todo' = {} /\ task'[Startup] = NoTask
  BY <1>0 DEF process
<1>2. ASSUME NEW q \in Resources \ {r}
      PROVE  /\ \A f \in stored' : origin'[f] = q => f \in stored /\ origin[f] = q
             /\ \A f \in stored : origin[f] = q => f \in stored' /\ origin'[f] = q
  <2>1. \A f \in stored' : origin'[f] = q => f \in stored /\ origin[f] = q
    BY <1>0, <1>2 DEF TypeOK
  <2>2. ASSUME NEW f \in stored, origin[f] = q
        PROVE  f \in stored' /\ origin'[f] = q
    <3>1. f \in Files /\ q # None
      BY <1>0, <1>2, Parts DEF TypeOK
    <3>2. f # task[t].file
      BY <1>0, <1>2, <2>2, <3>1, Parts DEF FileOf
    <3> QED
      BY <2>2, <3>1, <3>2
  <2> QED
    BY <2>1, <2>2
<1>3. ASSUME NEW q \in Resources \ {r}
      PROVE  FilesOf(q)'
  <2>1. ASSUME NEW u \in Tasks, NEW f, Holds(u, q, f)
        PROVE  Holds(u, q, f)'
    <3>1. task[u].res = q /\ q # None
      BY <1>0, <1>3, <2>1, Parts DEF Holds, HasClaimed
    <3>2. task'[u] = task[u]
      BY <1>3, <3>1 DEF AllTasks
    <3> QED
      BY <2>1, <3>2 DEF Holds, HasClaimed
  <2> QED
    BY <1>2, <1>3, <2>1, ServedParts DEF FilesOf
<1>4. ASSUME NEW u \in Tasks \ {t}
      PROVE  StoredOf(u)' /\ MarkOf(u)'
  <2>0. task'[u] = task[u] /\ StoredOf(u) /\ MarkOf(u) /\ u \in AllTasks
    BY <1>4, ServedParts DEF AllTasks
  <2>1. ASSUME HasClaimed(u, task[u].res), task[u].file \in stored, task[t].pc = "remove",
               task[t].file = task[u].file
        PROVE  FALSE
    <3>0. task[t].op \in {"ingest", "delete"}
      <4>1. KindOf(t) /\ task[t] \in TaskRecords
        BY <1>0, Parts
      <4> QED
        BY <1>0, <2>1, <4>1 DEF KindOf, Pcs, TaskRecords
    <3>1. task[t].res = r /\ task[u].op = "ingest" /\ task[t].file # None
      <4>1. task[t].res \in Resources
        BY <1>0, <3>0, Active
      <4>2. task[t].file # None
        BY <1>0, <2>1, Parts DEF FileOf
      <4> QED
        BY <1>0, <2>1, <4>1, <4>2, Parts DEF HasClaimed
    <3>2. task[u].res = r
      BY <1>0, <2>0, <2>1, <3>1, Parts DEF FileOf
    <3>3. HasClaimed(t, r) \/ Withdraws(t, r)
      BY <2>1, <3>0, <3>1 DEF HasClaimed, Withdraws
    <3>4. Sound(u)
      BY <1>0, <2>1, <3>1, Parts DEF IngestOf, Sound
    <3>5. ~HasClaimed(t, r)
      BY <1>0, <2>1, <3>2, <3>4, Parts DEF IngestOf
    <3> QED
      BY <1>0, <2>1, <3>2, <3>3, <3>4, <3>5, NoSoundClaim
  <2> QED
    BY <2>0, <2>1 DEF StoredOf, MarkOf, HasClaimed
<1>5. ASSUME NEW q \in Resources \ {r}
      PROVE  Pledge(q)
  <2>1. Progression(q)' = Progression(q)
    BY <1>5 DEF Progression
  <2>2. Kept(q)' <=> Kept(q)
    BY <1>2, <1>5 DEF Kept
  <2> QED
    BY <2>1, <2>2, Pledges
<1> QED
  BY <1>1, <1>3, <1>4, <1>5 DEF Fulfilled, Served

(* A step that leaves the provider's files and the row's status. *)
LEMMA ServedQuietly ==
    ASSUME Whole, Served, IInv', NEW t \in Tasks, NEW r \in Resources,
           task[t].res \in {r, None}, task'[t].res \in {r, None},
           \A u \in AllTasks \ {t} : task'[u] = task[u],
           UNCHANGED <<stored, origin, process, todo>>,
           \A q \in Resources \ {r} : row'[q] = row[q],
           row'[r].status = row[r].status,
           row'[r].file = row[r].file \/ row[r].status = "processing",
           \A f \in Files : Holds(t, r, f) => Holds(t, r, f)',
           StoredOf(t)', MarkOf(t)'
    PROVE  Fulfilled
<1>1. FilesOf(r)'
  <2>1. ASSUME NEW u \in Tasks, NEW f \in Files, Holds(u, r, f)
        PROVE  Holds(u, r, f)'
    BY <2>1 DEF Holds, HasClaimed, AllTasks
  <2>2. stored \subseteq Files
    BY ServedParts, Parts DEF TypeOK
  <2> QED
    BY <2>1, <2>2, ServedParts DEF FilesOf
<1>2. Pledge(r)
  <2>1. Progression(r)' = Progression(r) /\ (Kept(r)' <=> Kept(r))
    BY DEF Progression, Kept
  <2> QED
    BY <2>1, Pledges
<1> QED
  BY <1>1, <1>2, ServedSuffices

(* A step that leaves the provider's files and moves the row. *)
LEMMA ServedMoving ==
    ASSUME Whole, Served, IInv', NEW t \in Tasks, NEW r \in Resources,
           task[t].res \in {r, None}, task'[t].res \in {r, None},
           \A u \in AllTasks \ {t} : task'[u] = task[u],
           UNCHANGED <<stored, origin, process, todo>>,
           \A q \in Resources \ {r} : row'[q] = row[q],
           StoredOf(t)', MarkOf(t)', FilesOf(r)',
           Calm =>
              \/ Progression(r)' = Progression(r)
              \/ Progression(r) = "absent" /\ Progression(r)' = "pending"
              \/ Progression(r) = "searchable" /\ Progression(r)' = "withdrawn"
              \/ /\ ~Kept(r)
                 /\ \/ Progression(r) = "pending" /\ Progression(r)' \in {"rejected", "withdrawn"}
                    \/ Progression(r) = "rejected" /\ Progression(r)' \in {"pending", "withdrawn"}
                    \/ Progression(r) = "withdrawn" /\ Progression(r)' = "removed"
              \/ Kept(r) /\ Progression(r) = "pending" /\ Progression(r)' = "searchable"
    PROVE  Fulfilled
<1>1. Kept(r)' <=> Kept(r)
  BY DEF Kept
<1>2. Calm => Pledge(r)
  BY <1>1, Pledges
<1> QED
  BY <1>2, ServedSuffices

(* A call that ends without a file and leaves its row. *)
LEMMA ServedEnds ==
    ASSUME Whole, Served, IInv', NEW t \in Tasks, NEW r \in Resources, task[t].res = r,
           End(t), \A f \in Files : ~Holds(t, r, f), UNCHANGED <<stored, origin, process, todo>>,
           \A q \in Resources \ {r} : row'[q] = row[q],
           row'[r].status = row[r].status, row'[r].file = row[r].file
    PROVE  Fulfilled
<1>1. /\ task'[t] = NoTask /\ \A u \in AllTasks \ {t} : task'[u] = task[u]
  BY ServedParts, Parts, EndFrame
<1>2. StoredOf(t)' /\ MarkOf(t)' /\ task'[t].res = None
  BY <1>1, NoTaskFacts DEF StoredOf, MarkOf, HasClaimed
<1> QED
  BY <1>1, <1>2, ServedQuietly

LEMMA UploadServed ==
    ASSUME Whole, Served, IInv', NEW t \in Tasks,
           UploadStage(t) \/ UploadDescribe(t) \/ UploadUnstaged(t)
    PROVE  Fulfilled
<1>0. task[t].op = "upload" /\ IInv /\ TypeOK /\ t \in AllTasks
  BY ServedParts, Parts DEF UploadStage, UploadDescribe, UploadUnstaged, At
<1>r. PICK r \in Resources : r = task[t].res
  BY <1>0, Active
<1>1. CASE UploadStage(t)
  <2>1. PICK pc \in {"describe", "unstaged"} : GoTo(t, pc)
    BY <1>1 DEF UploadStage
  <2>2. /\ \A u \in AllTasks \ {t} : task'[u] = task[u]
        /\ task'[t].op = "upload" /\ task'[t].res = r
    BY <1>0, <1>r, <2>1, GoToFrame
  <2>3. StoredOf(t)' /\ MarkOf(t)' /\ \A f \in Files : ~Holds(t, r, f)
    BY <1>0, <2>2 DEF StoredOf, MarkOf, Holds, HasClaimed
  <2>4. UNCHANGED <<row, stored, origin, process, todo>>
    BY <1>1 DEF UploadStage, provider
  <2> QED
    BY <1>r, <2>2, <2>3, <2>4, ServedQuietly
<1>2. CASE UploadDescribe(t)
  <2> DEFINE new == [row[r] EXCEPT !.path = TRUE]
  <2>1. /\ row' = [row EXCEPT ![r] = new] /\ End(t)
        /\ UNCHANGED <<stored, origin, process, todo>>
    BY <1>2, <1>r DEF UploadDescribe, provider
  <2>2. new.status = row[r].status /\ new.file = row[r].file
    BY <1>0 DEF TypeOK, Rows
  <2> HIDE DEF new
  <2>3. row'[r] = new /\ \A q \in Resources \ {r} : row'[q] = row[q]
    BY <1>0, <2>1 DEF TypeOK
  <2>4. \A f \in Files : ~Holds(t, r, f)
    BY <1>0 DEF Holds, HasClaimed
  <2> QED
    BY <1>r, <2>1, <2>2, <2>3, <2>4, ServedEnds
<1>3. CASE UploadUnstaged(t)
  <2>1. /\ SetStatus(r, "error") /\ End(t) /\ UNCHANGED <<stored, origin, process, todo>>
        /\ task[t].pc = "unstaged"
    BY <1>3, <1>r DEF UploadUnstaged, At, provider
  <2>2. row[r].status \in {"queued", "deleting", "deleted"} /\ row[r].file = None
    BY <1>0, <1>r, Parts DEF UploadOf
  <2>3. /\ \A q \in Resources \ {r} : row'[q] = row[q]
        /\ row'[r].status = "error"
    <3>1. "error" \in Statuses
      BY DEF Statuses
    <3> QED
      BY <1>0, <2>1, <3>1, SetStatusFrame
  <2>4. \A f \in stored : origin[f] # r
    BY <1>0, <2>2, ServedParts, Parts DEF FilesOf, TypeOK
  <2>5. FilesOf(r)'
    BY <2>1, <2>4 DEF FilesOf
  <2>6. ~Calm
    BY <1>0, <2>1, Parts DEF Calm, KindOf
  <2>7. /\ task'[t] = NoTask /\ \A u \in AllTasks \ {t} : task'[u] = task[u]
    BY <1>0, <2>1, EndFrame
  <2>8. StoredOf(t)' /\ MarkOf(t)' /\ task'[t].res = None
    BY <2>7, NoTaskFacts DEF StoredOf, MarkOf, HasClaimed
  <2> QED
    BY <1>r, <2>1, <2>3, <2>5, <2>6, <2>7, <2>8, ServedMoving
<1> QED
  BY <1>1, <1>2, <1>3

(* An ingest that goes on with its row, and holds its file until the       *)
(* provider has deleted it.                                                *)
LEMMA IngestServed ==
    ASSUME Whole, Served, IInv', NEW t \in Tasks,
           \/ IngestRecord(t) \/ IngestAttach(t) \/ IngestPoll(t) \/ IngestSweep(t)
    PROVE  Fulfilled
<1>0. /\ task[t].op = "ingest" /\ IInv /\ TypeOK /\ t \in AllTasks /\ FileOf(t)
      /\ task[t] \in TaskRecords /\ StoredOf(t) /\ UNCHANGED <<stored, origin, process, todo>>
  BY ServedParts, Parts DEF IngestRecord, IngestAttach, IngestPoll, IngestSweep, At, provider
<1>r. PICK r \in Resources : r = task[t].res
  BY <1>0, Active
<1>1. CASE IngestSweep(t)
  BY <1>0, <1>1, <1>r, ServedEnds DEF IngestSweep, At, Holds, HasClaimed
<1>2. ASSUME task[t].pc \in {"record", "attach", "poll"}, ~IngestSweep(t)
      PROVE  Fulfilled
  <2>0. HasClaimed(t, r) /\ task[t].file \in Files /\ task[t].file # None
    BY <1>0, <1>r, <1>2 DEF HasClaimed, FileOf, TaskRecords
  <2>1. row[r].status = "processing" /\ ~task[t].abandon /\ task[t].file \in stored
    <3>1. task[t].pc \in Claimed
      BY <1>2 DEF Claimed
    <3> QED
      BY <1>0, <1>r, <1>2, <2>0, <3>1, ClaimFacts DEF StoredOf
  <2>2. /\ \A q \in Resources \ {r} : row'[q] = row[q]
        /\ row'[r].status = row[r].status
    <3>1. CASE row' = [row EXCEPT ![r].file = task[t].file]
      <4> DEFINE new == [row[r] EXCEPT !.file = task[t].file]
      <4>1. row' = [row EXCEPT ![r] = new] /\ new.status = row[r].status
        BY <1>0, <3>1 DEF TypeOK, Rows
      <4> HIDE DEF new
      <4> QED
        BY <1>0, <4>1 DEF TypeOK
    <3>2. CASE UNCHANGED row
      BY <3>2
    <3> QED
      BY <1>r, <1>2, <3>1, <3>2 DEF IngestRecord, IngestAttach, IngestPoll
  <2>3. \/ GoTo(t, "attach") \/ GoTo(t, "poll") \/ GoTo(t, "finish")
        \/ \E abandon \in BOOLEAN : CleanUp(t, task[t].file, abandon)
    BY <1>2 DEF IngestRecord, IngestAttach, IngestPoll
  <2>4. /\ \A u \in AllTasks \ {t} : task'[u] = task[u]
        /\ task'[t].op = "ingest" /\ task'[t].res = r /\ task'[t].file = task[t].file
        /\ task'[t].pc \in {"attach", "poll", "finish", "detach"}
    <3>1. CASE \/ GoTo(t, "attach") \/ GoTo(t, "poll") \/ GoTo(t, "finish")
      BY <1>0, <1>r, <3>1, GoToFrame
    <3>2. CASE \E abandon \in BOOLEAN : CleanUp(t, task[t].file, abandon)
      BY <1>0, <1>r, <2>0, <3>2, CleanUpFrame
    <3> QED
      BY <2>3, <3>1, <3>2
  <2>5. StoredOf(t)' /\ MarkOf(t)'
    BY <1>0, <2>1, <2>4 DEF StoredOf, MarkOf
  <2>6. \A f \in Files : Holds(t, r, f) => Holds(t, r, f)'
    BY <2>4 DEF Holds, HasClaimed, Holding
  <2> QED
    BY <1>0, <1>r, <2>1, <2>2, <2>4, <2>5, <2>6, ServedQuietly
<1> QED
  BY <1>1, <1>2 DEF IngestRecord, IngestAttach, IngestPoll, At

(* A claimed row. *)
LEMMA IngestClaimServed ==
    ASSUME Whole, Served, IInv', NEW t \in Tasks, IngestClaim(t)
    PROVE  Fulfilled
<1>0. /\ task[t].op = "ingest" /\ task[t].pc = "claim" /\ IInv /\ TypeOK /\ t \in AllTasks
      /\ UNCHANGED <<stored, origin, process, todo>>
  BY ServedParts, Parts DEF IngestClaim, At, provider
<1>r. PICK r \in Resources : r = task[t].res
  BY <1>0, Active
<1>1. CASE End(t) /\ UNCHANGED row
  BY <1>0, <1>1, <1>r, ServedEnds DEF Holds, HasClaimed
<1>2. CASE row[r].status = "queued" /\ SetStatus(r, "processing") /\ GoTo(t, "create")
  <2>1. /\ \A u \in AllTasks \ {t} : task'[u] = task[u]
        /\ task'[t].pc = "create" /\ task'[t].op = "ingest" /\ task'[t].res = r
    BY <1>0, <1>r, <1>2, GoToFrame
  <2>2. /\ \A q \in Resources \ {r} : row'[q] = row[q]
        /\ row'[r].status = "processing"
    BY <1>0, <1>2, SetStatusFrame DEF Statuses
  <2>3. StoredOf(t)' /\ MarkOf(t)'
    BY <2>1 DEF StoredOf, MarkOf
  <2>4. \A f \in stored : origin[f] # r
    BY <1>2, ServedParts DEF FilesOf
  <2>5. FilesOf(r)'
    BY <1>0, <2>4 DEF FilesOf
  <2>6. Progression(r) = "pending" /\ Progression(r)' = "pending"
    BY <1>2, <2>2 DEF Progression
  <2> QED
    BY <1>0, <1>r, <2>1, <2>2, <2>3, <2>5, <2>6, ServedMoving
<1> QED
  BY <1>r, <1>1, <1>2 DEF IngestClaim, CanTransition

(* A file comes to the provider only for a row that has none. *)
LEMMA IngestCreateServed ==
    ASSUME Whole, Served, IInv', NEW t \in Tasks, IngestCreate(t)
    PROVE  Fulfilled
<1>0. /\ task[t].op = "ingest" /\ task[t].pc = "create" /\ IInv /\ TypeOK /\ t \in AllTasks
      /\ task[t] \in TaskRecords /\ UNCHANGED <<row, process, todo>>
  BY ServedParts, Parts DEF IngestCreate, At
<1>r. PICK r \in Resources : r = task[t].res
  BY <1>0, Active
<1>1. /\ HasClaimed(t, r) /\ KindOf(t) /\ \A f : ~Holds(t, r, f)
      /\ task[t].path => row[r].status = "processing"
  <2>1. task[t].pc \in Claimed
    BY <1>0 DEF Claimed
  <2> QED
    BY <1>0, <1>r, <2>1, ClaimFacts DEF Holds, Holding
<1>2. ASSUME task[t].path, NEW f \in stored
      PROVE  origin[f] # r
  BY <1>0, <1>1, <1>2, HolderAlone, ServedParts DEF FilesOf
<1>3. CASE CleanUp(t, None, FALSE) /\ UNCHANGED <<stored, origin>>
  <2>1. /\ \A u \in AllTasks \ {t} : task'[u] = task[u]
        /\ task'[t].op = "ingest" /\ task'[t].res = r /\ task'[t].pc = "cleaned"
    BY <1>0, <1>r, <1>3, CleanUpFrame
  <2>2. StoredOf(t)' /\ MarkOf(t)'
    BY <2>1 DEF StoredOf, MarkOf
  <2> QED
    BY <1>0, <1>r, <1>1, <1>3, <2>1, <2>2, ServedQuietly
<1>4. ASSUME NEW f \in Files, task[t].path, origin[f] = None, stored' = stored \cup {f},
             origin' = [origin EXCEPT ![f] = r],
             task' = [task EXCEPT ![t] = [@ EXCEPT !.pc = "record", !.file = f]]
      PROVE  Fulfilled
  <2> DEFINE new == [task[t] EXCEPT !.pc = "record", !.file = f]
  <2>1. new.pc = "record" /\ new.file = f /\ new.op = "ingest" /\ new.res = r
    BY <1>0, <1>r DEF TaskRecords
  <2>2. task' = [task EXCEPT ![t] = new]
    BY <1>4
  <2> HIDE DEF new
  <2>3. task'[t] = new /\ \A u \in AllTasks \ {t} : task'[u] = task[u]
    BY <1>0, <2>2 DEF TypeOK, AllTasks
  <2>4. /\ origin'[f] = r /\ f \in stored' /\ r # None
        /\ \A g \in Files \ {f} : origin'[g] = origin[g]
    BY <1>0, <1>4, Parts DEF TypeOK
  <2>5. StoredOf(t)' /\ MarkOf(t)'
    BY <2>1, <2>3, <2>4 DEF StoredOf, MarkOf
  <2>6. \A g \in stored' : origin'[g] = r => g = f
    BY <1>0, <1>2, <1>4, <2>4 DEF TypeOK
  <2>7. FilesOf(r)'
    <3>1. Holds(t, r, f)'
      BY <2>1, <2>3 DEF Holds, HasClaimed, Holding
    <3> QED
      BY <1>0, <1>1, <1>4, <2>6, <3>1 DEF FilesOf
  <2>8. Pledge(r)
    <3>1. Progression(r) = "pending" /\ Progression(r)' = "pending"
      BY <1>0, <1>1, <1>4 DEF Progression
    <3>2. ~Kept(r) /\ Kept(r)'
      BY <1>2, <1>4, <2>4 DEF Kept
    <3> QED
      BY <3>1, <3>2, Pledges
  <2>9. /\ \A g \in stored' : g \in stored \/ origin'[g] = r
        /\ \A g \in stored : g \in stored'
        /\ \A g \in Files : origin'[g] = origin[g] \/ (origin[g] = None /\ origin'[g] = r)
    BY <1>4, <2>4
  <2> QED
    BY <1>0, <1>r, <2>1, <2>3, <2>5, <2>7, <2>8, <2>9, ServedSuffices
<1> QED
  BY <1>r, <1>3, <1>4 DEF IngestCreate, Whole

(* The file of a published row is at the provider. *)
LEMMA IngestFinishServed ==
    ASSUME Whole, Served, IInv', NEW t \in Tasks, IngestFinish(t)
    PROVE  Fulfilled
<1>0. /\ task[t].op = "ingest" /\ task[t].pc = "finish" /\ IInv /\ TypeOK /\ t \in AllTasks
      /\ FileOf(t) /\ UNCHANGED <<stored, origin, process, todo>> /\ StoredOf(t)
  BY ServedParts, Parts DEF IngestFinish, At, provider
<1>r. PICK r \in Resources : r = task[t].res
  BY <1>0, Active
<1> DEFINE f == task[t].file
           new == [status |-> "ready", file |-> f, path |-> FALSE]
<1>1. HasClaimed(t, r) /\ row[r].status = "processing"
  BY <1>0, <1>r, ClaimFacts DEF Claimed
<1>2. f \in stored /\ origin[f] = r
  BY <1>0, <1>r, <1>1 DEF StoredOf, FileOf
<1>3. row' = [row EXCEPT ![r] = new] /\ GoTo(t, "sweep")
  BY <1>1, <1>r DEF IngestFinish, CanTransition
<1>4. new.status = "ready" /\ new.file = f
  OBVIOUS
<1> HIDE DEF new
<1>5. row'[r] = new /\ \A q \in Resources \ {r} : row'[q] = row[q]
  BY <1>0, <1>3 DEF TypeOK
<1>6. /\ \A u \in AllTasks \ {t} : task'[u] = task[u]
      /\ task'[t].op = "ingest" /\ task'[t].pc = "sweep" /\ task'[t].res = r
  BY <1>0, <1>3, <1>r, GoToFrame
<1>7. StoredOf(t)' /\ MarkOf(t)'
  BY <1>6 DEF StoredOf, MarkOf
<1>8. \A g \in stored : origin[g] = r => g = f
  BY <1>0, <1>1, HolderAlone, ServedParts DEF FilesOf, Holds
<1>9. FilesOf(r)'
  BY <1>0, <1>4, <1>5, <1>8 DEF FilesOf
<1>10. Progression(r) = "pending" /\ Progression(r)' = "searchable" /\ Kept(r)
  BY <1>1, <1>2, <1>4, <1>5 DEF Progression, Kept
<1> QED
  BY <1>0, <1>r, <1>5, <1>6, <1>7, <1>9, <1>10, ServedMoving

(* The file of a failed row is gone, or the row remembers it. *)
LEMMA IngestCleanedServed ==
    ASSUME Whole, Served, IInv', NEW t \in Tasks, IngestCleaned(t)
    PROVE  Fulfilled
<1>0. /\ task[t].op = "ingest" /\ task[t].pc = "cleaned" /\ IInv /\ TypeOK /\ t \in AllTasks
      /\ FileOf(t) /\ KindOf(t) /\ UNCHANGED <<stored, origin, process, todo>> /\ End(t)
  BY ServedParts, Parts DEF IngestCleaned, At, provider
<1>r. PICK r \in Resources : r = task[t].res
  BY <1>0, Active
<1>1. /\ HasClaimed(t, r) /\ ~task[t].abandon /\ IngestOf(t) /\ (task[t].path => Sound(t))
      /\ Sound(t) => row[r].status = "processing"
  BY <1>0, <1>r, ClaimFacts DEF Claimed
<1>2. CASE row[r].status # "processing"
  <2>1. UNCHANGED row
    BY <1>r, <1>2 DEF IngestCleaned, CanTransition
  <2>2. ~task[t].failed
    BY <1>1, <1>2, <1>r DEF IngestOf
  <2>3. \A f \in Files : ~Holds(t, r, f)
    BY <1>0, <2>2 DEF Holds, Holding
  <2> QED
    BY <1>0, <1>r, <2>1, <2>3, ServedEnds
<1>3. CASE row[r].status = "processing"
  <2> DEFINE kept == IF task[t].failed THEN task[t].file ELSE None
             new == [row[r] EXCEPT !.status = "error", !.file = kept]
  <2>2. row' = [row EXCEPT ![r] = new]
    BY <1>1, <1>3, <1>r DEF IngestCleaned, CanTransition
  <2>3. new.status = "error" /\ new.file = kept
    BY <1>0 DEF TypeOK, Rows
  <2> HIDE DEF new
  <2>4. row'[r] = new /\ \A q \in Resources \ {r} : row'[q] = row[q]
    BY <1>0, <2>2 DEF TypeOK
  <2>5. task'[t] = NoTask /\ \A u \in AllTasks \ {t} : task'[u] = task[u]
    BY <1>0, EndFrame
  <2>6. StoredOf(t)' /\ MarkOf(t)' /\ task'[t].res = None
    BY <2>5, NoTaskFacts DEF StoredOf, MarkOf, HasClaimed
  <2>7. \A g \in stored : origin[g] = r => task[t].failed /\ g = task[t].file
    BY <1>0, <1>1, <1>3, HolderAlone, ServedParts DEF FilesOf, Holds, Holding
  <2>8. FilesOf(r)'
    BY <1>0, <2>3, <2>4, <2>7 DEF FilesOf, KindOf
  <2>9. /\ Progression(r) = "pending" /\ Progression(r)' = "rejected"
        /\ Calm => ~Kept(r)
    BY <1>0, <1>3, <2>3, <2>4, <2>7, ServedParts DEF Progression, Kept
  <2> QED
    BY <1>0, <1>r, <2>4, <2>5, <2>6, <2>8, <2>9, ServedMoving
<1> QED
  BY <1>2, <1>3

LEMMA DetachServed ==
    ASSUME Whole, Served, IInv', NEW t \in Tasks, Detach(t)
    PROVE  Fulfilled
<1>0. /\ task[t].pc = "detach" /\ IInv /\ TypeOK /\ t \in AllTasks /\ KindOf(t)
      /\ task[t] \in TaskRecords /\ FileOf(t)
      /\ UNCHANGED <<row, stored, origin, process, todo>>
  BY ServedParts, Parts DEF Detach
<1>1. task[t].op # "none" /\ task[t].file \in Files
  <2>1. task[t].op # "none"
    BY <1>0 DEF KindOf, Pcs
  <2>2. task[t].file \in Files
    BY <1>0 DEF FileOf, TaskRecords
  <2> QED
    BY <2>1, <2>2
<1>r. PICK r \in Resources : r = task[t].res
  BY <1>0, <1>1, Active
<1>2. /\ \A u \in AllTasks \ {t} : task'[u] = task[u]
      /\ task'[t].op = task[t].op /\ task'[t].res = r /\ task'[t].pc = "remove"
      /\ task'[t].file = task[t].file
  BY <1>0, <1>1, <1>r, DetachFrame
<1>3. StoredOf(t)' /\ MarkOf(t)'
  BY <1>2 DEF StoredOf, MarkOf
<1>4. \A f \in Files : Holds(t, r, f) => Holds(t, r, f)'
  BY <1>2 DEF Holds, HasClaimed, Holding
<1> QED
  BY <1>0, <1>r, <1>2, <1>3, <1>4, ServedQuietly

(* The file goes, unless the call failed. *)
LEMMA RemoveServed ==
    ASSUME Whole, Served, IInv', NEW t \in Tasks, Remove(t)
    PROVE  Fulfilled
<1>0. /\ task[t].pc = "remove" /\ IInv /\ TypeOK /\ t \in AllTasks /\ KindOf(t)
      /\ task[t] \in TaskRecords /\ FileOf(t) /\ t # Startup
      /\ UNCHANGED <<row, origin, process, todo>>
  BY ServedParts, Parts DEF Remove
<1>1. task[t].op \in {"ingest", "delete"} /\ task[t].file \in Files
  <2>1. task[t].op \in {"ingest", "delete"}
    BY <1>0 DEF KindOf, Pcs, TaskRecords
  <2>2. task[t].file \in Files
    BY <1>0 DEF FileOf, TaskRecords
  <2> QED
    BY <2>1, <2>2
<1>r. PICK r \in Resources : r = task[t].res
  BY <1>0, <1>1, Active
<1> DEFINE f == task[t].file
<1>2. /\ \A u \in AllTasks \ {t} : task'[u] = task[u]
      /\ task'[t].op = task[t].op /\ task'[t].res = r /\ task'[t].pc = "cleaned"
      /\ task'[t].file = f
      /\ ~task'[t].failed => f \notin stored'
      /\ stored' \subseteq stored
  BY <1>0, <1>r, RemoveFrame
<1>3. /\ \A g \in stored : g \in stored' \/ g = f
      /\ Calm => f \notin stored'
  BY DEF Remove, Calm
<1>4. StoredOf(t)' /\ MarkOf(t)'
  BY <1>2 DEF StoredOf, MarkOf
<1>5. CASE task[t].op = "ingest"
  <2>1. HasClaimed(t, r) /\ row[r].status = "processing"
    BY <1>0, <1>r, <1>5, ClaimFacts DEF Claimed
  <2>2. \A g \in stored : origin[g] = r => g = f
    BY <1>0, <2>1, HolderAlone, ServedParts DEF FilesOf, Holds
  <2>3. f \in stored' => Holds(t, r, f)'
    BY <1>2, <1>5 DEF Holds, HasClaimed
  <2>4. FilesOf(r)'
    BY <1>0, <1>2, <2>1, <2>2, <2>3 DEF FilesOf
  <2>5. Calm => Pledge(r)
    <3>1. Progression(r) = "pending" /\ Progression(r)' = "pending"
      BY <1>0, <2>1 DEF Progression
    <3>2. Calm => ~Kept(r)'
      BY <1>0, <1>2, <1>3, <2>2 DEF Kept
    <3> QED
      BY <3>1, <3>2, Pledges
  <2> QED
    BY <1>0, <1>r, <1>2, <1>3, <1>4, <2>4, <2>5, ServedSuffices
<1>6. CASE task[t].op = "delete"
  <2>1. /\ row[r].file \in {f, None}
        /\ row[r].status \in {"deleting", "deleted"} \/ Bare(r)
    BY <1>0, <1>r, <1>6, Parts DEF DeleteOf, Withdraws
  <2>2. FilesOf(r)'
    BY <1>0, <1>2, <2>1, ServedParts, BareHasNoFile DEF FilesOf
  <2>3. Calm => Pledge(r)
    <3>1. Progression(r)' = Progression(r)
      BY <1>0 DEF Progression
    <3>2. ASSUME Calm, row[r].status = "deleting"
          PROVE  Pledge(r)
      <4>1. Progression(r) = "withdrawn"
        BY <3>2 DEF Progression
      <4>2. \A g \in stored : g \in Files /\ g # None
        BY <1>0, Parts DEF TypeOK
      <4>3. \A g \in stored : origin[g] = r => g = f
        BY <2>1, <3>2, <4>2, ServedParts DEF FilesOf
      <4>4. ~Kept(r)'
        BY <1>0, <1>2, <1>3, <3>2, <4>3 DEF Kept
      <4> QED
        BY <3>1, <4>1, <4>4, Pledges
    <3>3. ASSUME Calm, row[r].status # "deleting"
          PROVE  Pledge(r)
      <4>1. row[r].status = "deleted"
        BY <2>1, <3>3 DEF Calm, Bare
      <4>2. \A g \in stored : origin[g] # r
        BY <4>1, ServedParts DEF FilesOf
      <4>3. ~Kept(r) /\ ~Kept(r)'
        BY <1>0, <1>2, <4>2 DEF Kept
      <4> QED
        BY <3>1, <4>3, Pledges
    <3> QED
      BY <3>2, <3>3
  <2> QED
    BY <1>0, <1>r, <1>2, <1>3, <1>4, <2>2, <2>3, ServedSuffices
<1> QED
  BY <1>1, <1>5, <1>6

(* A deletion. *)
LEMMA DeletionServed ==
    ASSUME Whole, Served, IInv', NEW t \in Tasks,
           DeleteMark(t) \/ DeleteReload(t) \/ DeleteCleaned(t)
    PROVE  Fulfilled
<1>0. /\ task[t].op = "delete" /\ IInv /\ TypeOK /\ t \in AllTasks
      /\ task[t] \in TaskRecords /\ KindOf(t) /\ DeleteOf(t) /\ MarkOf(t) /\ FileOf(t)
      /\ UNCHANGED <<stored, origin, process, todo>>
  BY ServedParts, Parts DEF DeleteMark, DeleteReload, DeleteCleaned, At, provider
<1>r. PICK r \in Resources : r = task[t].res
  BY <1>0, Active
<1>1. \A f \in Files : ~Holds(t, r, f)
  BY <1>0 DEF HasClaimed, Holds
<1>2. \A f \in stored : f \in Files /\ f # None
  BY <1>0, Parts DEF TypeOK
<1>3. CASE DeleteMark(t) /\ UNCHANGED row /\ End(t)
  BY <1>0, <1>r, <1>1, <1>3, ServedEnds
<1>4. CASE /\ DeleteMark(t) /\ row[r].status = task[t].status
           /\ SetStatus(r, "deleting") /\ GoTo(t, "reload")
  <2>1. row[r] \in Rows /\ row[r].status \in {"queued", "ready", "error", "deleting"}
    BY <1>0, <1>4, Parts DEF DeleteMark, At, DeleteOf, MarkOf, Rows, Statuses
  <2>2. /\ \A u \in AllTasks \ {t} : task'[u] = task[u]
        /\ task'[t].op = "delete" /\ task'[t].res = r /\ task'[t].pc = "reload"
    BY <1>0, <1>r, <1>4, GoToFrame
  <2>3. /\ \A q \in Resources \ {r} : row'[q] = row[q]
        /\ row'[r].status = "deleting" /\ row'[r].file = row[r].file
    BY <1>0, <1>4, SetStatusFrame DEF Statuses
  <2>4. StoredOf(t)' /\ MarkOf(t)'
    BY <2>2 DEF StoredOf, MarkOf
  <2>5. FilesOf(r)'
    BY <1>0, <2>1, <2>3, ServedParts DEF FilesOf
  <2>6. /\ Progression(r)' = "withdrawn"
        /\ Progression(r) \in {"pending", "searchable", "rejected", "withdrawn"}
    BY <2>1, <2>3 DEF Progression
  <2>7. Calm /\ Progression(r) \in {"pending", "rejected"} => ~Kept(r)
    <3>1. Progression(r) \in {"pending", "rejected"} => row[r].status \in {"queued", "error"}
      BY <2>1 DEF Progression
    <3> QED
      BY <3>1, ServedParts DEF FilesOf, Kept, Calm
  <2> QED
    BY <1>0, <1>r, <2>2, <2>3, <2>4, <2>5, <2>6, <2>7, ServedMoving
<1>5. CASE DeleteReload(t)
  <2> DEFINE pc == FirstOfCleanUp(row[r].file)
             new == [task[t] EXCEPT !.status = row[r].status, !.path = row[r].path,
                                    !.file = row[r].file, !.pc = pc]
  <2>1. task' = [task EXCEPT ![t] = new] /\ UNCHANGED row
    BY <1>5, <1>r DEF DeleteReload
  <2>2. new.op = "delete" /\ new.res = r /\ new.pc = pc /\ pc # "mark"
    BY <1>0, <1>r DEF TaskRecords, FirstOfCleanUp
  <2> HIDE DEF new, pc
  <2>3. task'[t] = new /\ \A u \in AllTasks \ {t} : task'[u] = task[u]
    BY <1>0, <2>1 DEF TypeOK, AllTasks
  <2>4. StoredOf(t)' /\ MarkOf(t)'
    BY <2>2, <2>3 DEF StoredOf, MarkOf, HasClaimed
  <2> QED
    BY <1>0, <1>r, <1>1, <2>1, <2>2, <2>3, <2>4, ServedQuietly
<1>6. CASE DeleteCleaned(t)
  <2>0. /\ task[t].pc = "cleaned" /\ End(t) /\ row[r] \in Rows
        /\ row[r].file \in {task[t].file, None}
        /\ row[r].status \in {"deleting", "deleted"} \/ Bare(r)
    BY <1>0, <1>r, <1>6, Parts DEF DeleteCleaned, At, DeleteOf, Withdraws
  <2>1. task'[t] = NoTask /\ \A u \in AllTasks \ {t} : task'[u] = task[u]
    BY <1>0, <2>0, EndFrame
  <2>2. StoredOf(t)' /\ MarkOf(t)' /\ task'[t].res = None
    BY <2>1, NoTaskFacts DEF StoredOf, MarkOf, HasClaimed
  <2>3. \A f \in stored : origin[f] = r =>
           row[r].status = "deleting" /\ f = row[r].file /\ f = task[t].file
    BY <1>2, <2>0, ServedParts, BareHasNoFile DEF FilesOf
  <2>4. CASE task[t].failed /\ SetStatus(r, "deleting")
    <3>1. /\ \A q \in Resources \ {r} : row'[q] = row[q]
          /\ row'[r].status = "deleting" /\ row'[r].file = row[r].file
      BY <1>0, <2>4, SetStatusFrame DEF Statuses
    <3>2. FilesOf(r)' /\ ~Calm
      BY <1>0, <2>3, <2>4, <3>1, ServedParts DEF FilesOf
    <3> QED
      BY <1>0, <1>r, <2>1, <2>2, <3>1, <3>2, ServedMoving
  <2>5. CASE ~task[t].failed /\ row' = [row EXCEPT ![r] = [NoRow EXCEPT !.status = "deleted"]]
    <3>1. \A f \in stored : origin[f] # r
      BY <1>0, <1>2, <2>0, <2>3, <2>5 DEF FileOf
    <3>2. /\ \A q \in Resources \ {r} : row'[q] = row[q]
          /\ row'[r].status = "deleted"
      <4> DEFINE new == [NoRow EXCEPT !.status = "deleted"]
      <4>1. row' = [row EXCEPT ![r] = new] /\ new.status = "deleted"
        BY <2>5 DEF NoRow
      <4> HIDE DEF new
      <4> QED
        BY <1>0, <4>1 DEF TypeOK
    <3>3. FilesOf(r)' /\ ~Kept(r)
      BY <1>0, <3>1 DEF FilesOf, Kept
    <3>4. /\ Progression(r)' = "removed"
          /\ Calm => Progression(r) \in {"withdrawn", "removed"}
      BY <2>0, <3>2 DEF Progression, Calm, Bare
    <3> QED
      BY <1>0, <1>r, <2>1, <2>2, <3>2, <3>3, <3>4, ServedMoving
  <2> QED
    BY <1>r, <1>6, <2>4, <2>5 DEF DeleteCleaned
<1> QED
  BY <1>r, <1>3, <1>4, <1>5, <1>6 DEF DeleteMark, CanTransition

(* A rejected row that is queued again has no file. *)
LEMMA RequeueServed ==
    ASSUME Whole, Served, IInv', NEW t \in Tasks, RetryRequeue(t)
    PROVE  Fulfilled
<1>0. /\ task[t].op = "retry" /\ IInv /\ TypeOK /\ t \in AllTasks /\ RetryOf(t) /\ End(t)
      /\ UNCHANGED <<stored, origin, process, todo>>
  BY ServedParts, Parts DEF RetryRequeue, At, provider
<1>r. PICK r \in Resources : r = task[t].res
  BY <1>0, Active
<1>1. CASE UNCHANGED row
  BY <1>0, <1>r, <1>1, ServedEnds DEF Holds, HasClaimed
<1>2. CASE row[r].status = "error" /\ SetStatus(r, "queued")
  <2>1. row[r].file = None
    BY <1>0, <1>r, <1>2 DEF RetryOf, Whole
  <2>2. /\ \A q \in Resources \ {r} : row'[q] = row[q]
        /\ row'[r].status = "queued"
    BY <1>0, <1>2, SetStatusFrame DEF Statuses
  <2>3. \A f \in stored : origin[f] # r
    BY <1>0, <1>2, <2>1, ServedParts, Parts DEF FilesOf, TypeOK
  <2>4. FilesOf(r)' /\ ~Kept(r)
    BY <1>0, <2>3 DEF FilesOf, Kept
  <2>5. Progression(r) = "rejected" /\ Progression(r)' = "pending"
    BY <1>2, <2>2 DEF Progression
  <2>6. task'[t] = NoTask /\ \A u \in AllTasks \ {t} : task'[u] = task[u]
    BY <1>0, EndFrame
  <2>7. StoredOf(t)' /\ MarkOf(t)' /\ task'[t].res = None
    BY <2>6, NoTaskFacts DEF StoredOf, MarkOf, HasClaimed
  <2> QED
    BY <1>0, <1>r, <2>2, <2>4, <2>5, <2>6, <2>7, ServedMoving
<1> QED
  BY <1>r, <1>1, <1>2 DEF RetryRequeue, CanTransition

(* A request, or a dispatched ingest that starts. *)
LEMMA RequestServed ==
    ASSUME Whole, Served, IInv', NEW t \in Tasks, NEW r \in Resources,
           Request(t, r) \/ StartIngest(t, r)
    PROVE  Fulfilled
<1>0. /\ IInv /\ TypeOK /\ t \in AllTasks /\ task[t].pc = "idle" /\ KindOf(t)
      /\ task[t] \in TaskRecords /\ UNCHANGED <<stored, origin, process, todo>>
  BY ServedParts, Parts
     DEF Request, Upload, Retry, Delete, StartIngest, provider
<1>1. task[t] = NoTask
  BY <1>0 DEF KindOf, Pcs, TaskRecords
<1>2. task[t].res = None /\ \A f \in Files : ~Holds(t, r, f)
  BY <1>1, NoTaskFacts DEF Holds, HasClaimed
<1>3. CASE Upload(t, r)
  <2>1. /\ row' = [row EXCEPT ![r] = [NoRow EXCEPT !.status = "queued"]]
        /\ row[r].status = "absent" /\ Begin(t, "upload", "stage", r)
    BY <1>3 DEF Upload
  <2>2. /\ \A q \in Resources \ {r} : row'[q] = row[q]
        /\ row'[r].status = "queued"
    <3> DEFINE new == [NoRow EXCEPT !.status = "queued"]
    <3>1. row' = [row EXCEPT ![r] = new] /\ new.status = "queued"
      BY <2>1 DEF NoRow
    <3> HIDE DEF new
    <3> QED
      BY <1>0, <3>1 DEF TypeOK
  <2>3. FilesOf(r)'
    BY <1>0, <2>1, ServedParts DEF FilesOf
  <2>4. Progression(r) = "absent" /\ Progression(r)' = "pending"
    BY <2>1, <2>2 DEF Progression
  <2>5. /\ \A u \in AllTasks \ {t} : task'[u] = task[u]
        /\ task'[t].op = "upload" /\ task'[t].res = r
    BY <1>0, <2>1, BeginFrame
  <2>6. StoredOf(t)' /\ MarkOf(t)'
    BY <2>5 DEF StoredOf, MarkOf, HasClaimed
  <2> QED
    BY <1>0, <1>2, <2>2, <2>3, <2>4, <2>5, <2>6, ServedMoving
<1>4. CASE Retry(t, r) \/ (StartIngest(t, r) /\ task' # task)
  <2>1. /\ \A u \in AllTasks \ {t} : task'[u] = task[u]
        /\ task'[t].pc \in {"requeue", "claim"} /\ task'[t].res = r /\ UNCHANGED row
    BY <1>0, <1>4, BeginFrame DEF Retry, StartIngest
  <2>2. StoredOf(t)' /\ MarkOf(t)'
    BY <2>1 DEF StoredOf, MarkOf
  <2> QED
    BY <1>0, <1>2, <2>1, <2>2, ServedQuietly
<1>5. CASE StartIngest(t, r) /\ task' = task
  <2>1. UNCHANGED row /\ StoredOf(t)' /\ MarkOf(t)'
    BY <1>1, <1>5, NoTaskFacts DEF StartIngest, StoredOf, MarkOf, HasClaimed
  <2> QED
    BY <1>0, <1>2, <1>5, <2>1, ServedQuietly
<1>6. CASE Delete(t, r)
  <2>1. UNCHANGED row /\ row[r].status # "deleted"
    BY <1>6 DEF Delete, Deletable
  <2>2. CASE Begin(t, "delete", "mark", r)
    <3>1. /\ \A u \in AllTasks \ {t} : task'[u] = task[u]
          /\ task'[t].pc = "mark" /\ task'[t].res = r /\ task'[t].status = row[r].status
      BY <1>0, <2>2, BeginFrame
    <3>2. StoredOf(t)' /\ MarkOf(t)'
      BY <2>1, <3>1 DEF StoredOf, MarkOf
    <3> QED
      BY <1>0, <1>2, <2>1, <3>1, <3>2, ServedQuietly
  <2>3. ASSUME task' = [task EXCEPT ![t] = [NoTask EXCEPT
                  !.op = "delete", !.res = r, !.status = "deleting",
                  !.path = row[r].path, !.file = row[r].file,
                  !.pc = FirstOfCleanUp(row[r].file)]]
        PROVE  Fulfilled
    <3> DEFINE new == [NoTask EXCEPT !.op = "delete", !.res = r, !.status = "deleting",
                          !.path = row[r].path, !.file = row[r].file,
                          !.pc = FirstOfCleanUp(row[r].file)]
    <3>1. task' = [task EXCEPT ![t] = new] /\ new.op = "delete" /\ new.res = r
          /\ new.status = "deleting"
      BY <2>3 DEF NoTask
    <3> HIDE DEF new
    <3>2. task'[t] = new /\ \A u \in AllTasks \ {t} : task'[u] = task[u]
      BY <1>0, <3>1 DEF TypeOK, AllTasks
    <3>3. StoredOf(t)' /\ MarkOf(t)'
      BY <3>1, <3>2 DEF StoredOf, MarkOf, HasClaimed
    <3> QED
      BY <1>0, <1>2, <2>1, <3>1, <3>2, <3>3, ServedQuietly
  <2> QED
    BY <1>6, <2>2, <2>3 DEF Delete
<1> QED
  BY <1>3, <1>4, <1>5, <1>6 DEF Request

(* A step that no call takes. *)
LEMMA IdleServed ==
    ASSUME Whole, Served, IInv', UNCHANGED vars \/ \E f \in Files : Settle(f)
    PROVE  Fulfilled
<1>1. UNCHANGED <<row, stored, origin, task, process, todo>>
  BY DEF vars, provider, Settle
<1>2. \A t \in Tasks : StoredOf(t)' /\ MarkOf(t)'
  BY <1>1, ServedParts DEF StoredOf, MarkOf, HasClaimed
<1>3. \A r \in Resources : FilesOf(r)'
  BY <1>1, ServedParts DEF FilesOf, Holds, HasClaimed
<1>4. ASSUME NEW r \in Resources
      PROVE  Pledge(r)
  <2>1. Progression(r)' = Progression(r) /\ (Kept(r)' <=> Kept(r))
    BY <1>1 DEF Progression, Kept
  <2> QED
    BY <2>1, Pledges
<1> QED
  BY <1>1, <1>2, <1>3, <1>4, ServedParts DEF Fulfilled, Served, process

LEMMA NextServed ==
    ASSUME Whole, Served, [Next]_vars
    PROVE  Fulfilled
<1>0. IInv'
  BY ServedParts, NextIInv
<1>1. ASSUME NEW t \in Tasks, Progress(t)
      PROVE  Fulfilled
  <2>1. CASE Ingest(t)
    BY <1>0, <2>1, IngestServed, IngestClaimServed, IngestCreateServed, IngestFinishServed,
       IngestCleanedServed DEF Ingest
  <2>2. CASE ~Ingest(t)
    BY <1>0, <1>1, <2>2, UploadServed, DetachServed, RemoveServed, RequeueServed,
       DeletionServed DEF Progress
  <2> QED
    BY <2>1, <2>2
<1>2. ASSUME NEW t \in Tasks, NEW r \in Resources, Request(t, r) \/ StartIngest(t, r)
      PROVE  Fulfilled
  BY <1>0, <1>2, RequestServed
<1>3. ~Recover
  BY ServedParts, NoTaskFacts DEF Recover, RecoverNext, RecoverResolve, RecoverSweep,
     RecoverCleaned, RecoverEnd, Detach, Remove, At
<1>4. ~Crash /\ ~Restart
  BY ServedParts DEF Crash, Restart, Whole
<1> QED
  BY <1>0, <1>1, <1>2, <1>3, <1>4, IdleServed DEF Next

LEMMA InitServed ==
    ASSUME Init
    PROVE  Served
<1>1. /\ IInv /\ up /\ todo = {} /\ stored = {}
      /\ \A t \in AllTasks : task[t] = NoTask
  BY InitIInv DEF Init, AllTasks
<1> QED
  BY <1>1, NoTaskFacts, Parts DEF Served, StoredOf, MarkOf, FilesOf, HasClaimed

LEMMA ServedInductive ==
    ASSUME Whole
    PROVE  Spec => []Served
<1>1. Served /\ [Next]_vars => Served'
  BY NextServed DEF Fulfilled
<1>2. Init => Served
  BY InitServed
<1> QED
  BY <1>1, <1>2, PTL DEF Spec

(* A deleted resource leaves no file at the provider, also none of an      *)
(* earlier attempt that failed, when no crash and no lost answer keeps its *)
(* id from the row.                                                        *)
THEOREM DeletedIsGone ==
    ASSUME Whole
    PROVE  Spec => []DeletedLeavesNoFile
<1>1. Served => DeletedLeavesNoFile
  BY DEF Served, FilesOf, DeletedLeavesNoFile
<1> QED
  BY <1>1, ServedInductive, PTL

(* While nothing but the provider's own answers fails, the service         *)
(* implements KnowledgeContract for each resource.                         *)
THEOREM KeepsContract ==
    ASSUME Calm
    PROVE  Spec => ContractSpec
<1>0. Whole
  BY DEF Calm, Whole, Tidy
<1>1. Init => \A r \in Resources : Contract(r)!Init
  <2>1. SUFFICES ASSUME Init, NEW r \in Resources
                 PROVE  Contract(r)!Init
    OBVIOUS
  <2>2. Progression(r) = "absent"
    BY <2>1 DEF Init, NoRow, Progression
  <2>3. Kept(r) = FALSE
    BY <2>1 DEF Init, Kept
  <2> QED
    BY <2>2, <2>3 DEF Contract!Init
<1>2. Served /\ [Next]_vars => \A r \in Resources : [Contract(r)!Next]_(Contract(r)!vars)
  BY <1>0, NextServed DEF Fulfilled, Pledge
<1>3. Served /\ [Next]_vars =>
         [\A r \in Resources : [Contract(r)!Next]_(Contract(r)!vars)]_vars
  BY <1>2
<1>4. Spec => [][\A r \in Resources : [Contract(r)!Next]_(Contract(r)!vars)]_vars
  BY <1>0, <1>3, ServedInductive, PTL DEF Spec
<1> QED
  BY <1>1, <1>4 DEF Spec, ContractSpec

=============================================================================
