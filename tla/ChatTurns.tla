------------------------------ MODULE ChatTurns ------------------------------
(***************************************************************************)
(* Chat callbacks (chat_app.py) and the AgentRuntime (agent_runtime.py) on *)
(* one thread: the row of conversations, the Conversations the provider    *)
(* keeps, the prompt runs of telemetry and what the browser shows.         *)
(*                                                                         *)
(* A call is one coroutine: a callback of a websocket session, or one of   *)
(* the data layer's thread operations.  Its steps end where the code       *)
(* awaits the database, the provider or the browser.  A websocket session  *)
(* caches the conversation it has loaded, and its settings with it.        *)
(*                                                                         *)
(* Every call is one of the owner: a call that fails the authentication or *)
(* owner check ends without effect.  Prompts, token counts, citations and  *)
(* the wording of replies are left out; the reasoning effort, checked and  *)
(* stored with the model, is part of "model".                              *)
(***************************************************************************)
EXTENDS Naturals

CONSTANTS
    Calls,          \* coroutines that may be in progress (a bound)
    Sockets,        \* websocket sessions of the thread
    Conversations,  \* ids the provider can give (a bound)
    Runs,           \* ids of prompt_runs (a bound)
    Models,         \* ALLOWED_MODELS, with the efforts
    DefaultModel,   \* the personal default of the owner
    None,           \* no conversation, no row, no socket
    Ops,            \* the operations called in an instance
    Faults          \* what else than an answer of the provider may fail

ASSUME TurnsAssumption ==
    /\ None \notin Conversations \cup Runs \cup Sockets \cup Models
    /\ DefaultModel \in Models
    /\ Ops \subseteq {"start", "resume", "message", "settings", "update",
                      "delete"}
    /\ Faults \subseteq {"cancel", "database", "telemetry", "lost", "undo"}

VARIABLES
    thread,    \* the row of conversations of the thread
    opened,    \* rows inserted so far
    provider,  \* the Conversations at the provider
    run,       \* prompt_runs
    socket,    \* the user_session of each websocket
    call,      \* the calls in progress
    stray      \* history: Conversations a fault has separated from a call

vars == <<thread, opened, provider, run, socket, call, stray>>

-----------------------------------------------------------------------------
(* Rows, sessions and calls *)

ThreadRows == [id : Nat \ {0}, conv : Conversations, model : Models]

(* "tools": a tool_runs row refers to the run. "shown" is the reply of its *)
(* turn, "hit" a history variable: a fault has struck the turn.            *)
RunRows == [status : {"unused", "started", "completed", "failed", "erased"},
            thread : Nat, tools : BOOLEAN,
            shown : {"nothing", "partial", "answer", "sorry"},
            hit : BOOLEAN]

ASSUME NoneAssumption == None \notin ThreadRows

SocketRecords == [cached : ThreadRows \cup {None}, model : Models]

(* "row" of a call: the conversation object it works with. *)
CallRecords ==
    [op : {"none", "start", "resume", "message", "settings", "update",
           "delete"},
     pc : {"idle", "lookup", "create", "insert", "undo", "begin", "stream",
           "finish", "answer", "fail", "sorry", "write", "provider", "row"},
     socket : Sockets \cup {None}, row : ThreadRows \cup {None},
     conv : Conversations \cup {None}, run : Runs \cup {None},
     model : Models]

UnusedRun == [status |-> "unused", thread |-> 0, tools |-> FALSE,
              shown |-> "nothing", hit |-> FALSE]
NewSocket == [cached |-> None, model |-> DefaultModel]
NoCall == [op |-> "none", pc |-> "idle", socket |-> None, row |-> None,
           conv |-> None, run |-> None, model |-> DefaultModel]

(* Rows, sessions and calls are well formed. *)
TypeOK ==
    /\ thread \in ThreadRows \cup {None} /\ opened \in Nat
    /\ provider \in [Conversations -> {"unused", "open", "deleted"}]
    /\ run \in [Runs -> RunRows]
    /\ socket \in [Sockets -> SocketRecords]
    /\ call \in [Calls -> CallRecords]
    /\ stray \subseteq Conversations
    /\ \A c \in Calls :
         /\ call[c].pc \in {"begin", "stream", "write", "provider", "row"}
               => call[c].row # None
         /\ call[c].pc \in {"stream", "finish", "answer", "fail"}
               => call[c].run \in Runs

Init ==
    /\ thread = None /\ opened = 0
    /\ provider = [v \in Conversations |-> "unused"]
    /\ run = [r \in Runs |-> UnusedRun]
    /\ socket = [s \in Sockets |-> NewSocket]
    /\ call = [c \in Calls |-> NoCall]
    /\ stray = {}

-----------------------------------------------------------------------------
(* Helpers *)

At(c, pc) == call[c].pc = pc
GoTo(c, pc) == call' = [call EXCEPT ![c].pc = pc]
End(c) == call' = [call EXCEPT ![c] = NoCall]

(* A row still there is found by its primary key; an insert that refers to *)
(* one that is gone violates its foreign key.                              *)
Exists(row) == thread # None /\ thread.id = row.id

(* A run that has gone with its thread is not written any more. *)
SetRun(r, field, value) ==
    run' = IF run[r].status = "erased" THEN run
           ELSE [run EXCEPT ![r][field] = value]

(* _send_settings: the session caches the conversation and its model.      *)
Cache(s, row) ==
    socket' = [socket EXCEPT ![s] = [cached |-> row, model |-> row.model]]

(* The conversation has been found or created for the call. *)
Proceed(c, row) ==
    IF call[c].op \in {"start", "resume"}
    THEN End(c) /\ Cache(call[c].socket, row)
    ELSE /\ call' = [call EXCEPT ![c] = [@ EXCEPT
                !.row = row, !.conv = None,
                !.pc = CASE call[c].op = "message" -> "begin"
                         [] call[c].op \in {"settings", "update"} -> "write"
                         [] call[c].op = "delete" -> "provider"]]
         /\ UNCHANGED socket

-----------------------------------------------------------------------------
(* The callbacks arrive *)

(* on_chat_start, on_chat_resume, update_thread and delete_thread look the *)
(* thread up; on_message and on_settings_update only when the session has  *)
(* cached no conversation, and use what it has cached otherwise.           *)
Arrive(c, s, op, m) ==
    LET fresh == op \notin {"message", "settings"} \/ socket[s].cached = None
    IN  /\ op \in Ops /\ At(c, "idle")
        /\ op # "settings" => m = DefaultModel
        /\ call' = [call EXCEPT ![c] = [NoCall EXCEPT
               !.op = op, !.socket = s, !.model = m,
               !.row = IF fresh THEN None ELSE socket[s].cached,
               !.pc = CASE fresh -> "lookup"
                        [] ~fresh /\ op = "message" -> "begin"
                        [] ~fresh /\ op = "settings" -> "write"]]
        /\ UNCHANGED <<thread, opened, provider, run, socket, stray>>

(* Variant: without a row, an operation that creates none goes on.         *)
LookupUnchecked(c) ==
    /\ At(c, "lookup")
    /\ \/ /\ thread # None \/ call[c].op \in {"update", "delete"}
          /\ Proceed(c, thread)
       \/ /\ thread = None /\ call[c].op \notin {"update", "delete"}
          /\ GoTo(c, "create") /\ UNCHANGED socket
    /\ UNCHANGED <<thread, opened, provider, run, stray>>

(* get_thread_by_chainlit_id; without a row _ensure_conversation creates   *)
(* one, the other operations have nothing to do.                           *)
Lookup(c) ==
    /\ At(c, "lookup")
    /\ \/ thread # None /\ Proceed(c, thread)
       \/ /\ thread = None /\ UNCHANGED socket
          /\ IF call[c].op \in {"start", "message", "settings"}
             THEN GoTo(c, "create") ELSE End(c)
    /\ UNCHANGED <<thread, opened, provider, run, stray>>

-----------------------------------------------------------------------------
(* start_conversation *)

(* conversations.create fails, or succeeds and its answer may be lost. *)
Create(c) ==
    /\ At(c, "create")
    /\ \/ \E v \in Conversations :
            /\ provider[v] = "unused"
            /\ provider' = [provider EXCEPT ![v] = "open"]
            /\ \/ /\ call' = [call EXCEPT ![c] = [@ EXCEPT
                                 !.pc = "insert", !.conv = v]]
                  /\ UNCHANGED stray
               \/ "lost" \in Faults /\ End(c) /\ stray' = stray \cup {v}
       \/ End(c) /\ UNCHANGED <<provider, stray>>
    /\ UNCHANGED <<thread, opened, run, socket>>

(* create_thread.  A second row for the thread violates its unique index;  *)
(* a commit whose answer is lost, or the refresh after it, raises too.     *)
Insert(c) ==
    LET v == call[c].conv
        row == [id |-> opened + 1, conv |-> v, model |-> DefaultModel]
    IN  /\ At(c, "insert")
        /\ \/ /\ thread = None
              /\ thread' = row /\ opened' = opened + 1
              /\ \/ Proceed(c, row) /\ UNCHANGED stray
                 \/ /\ "lost" \in Faults
                    /\ GoTo(c, "undo") /\ UNCHANGED socket
                    /\ stray' = stray \cup {v}
           \/ /\ thread # None \/ "database" \in Faults
              /\ GoTo(c, "undo")
              /\ UNCHANGED <<thread, opened, socket, stray>>
        /\ UNCHANGED <<provider, run>>

(* Variant: the exception is only raised again. *)
UndoNothing(c) ==
    /\ At(c, "undo") /\ End(c)
    /\ UNCHANGED <<thread, opened, provider, run, socket, stray>>

(* The except clause: the new Conversation is deleted if it can be. *)
Undo(c) ==
    LET v == call[c].conv
    IN  /\ At(c, "undo") /\ End(c)
        /\ \/ /\ provider' = [provider EXCEPT ![v] = "deleted"]
              /\ UNCHANGED stray
           \/ /\ "undo" \in Faults
              /\ stray' = stray \cup {v} /\ UNCHANGED provider
        /\ UNCHANGED <<thread, opened, run, socket>>

-----------------------------------------------------------------------------
(* on_message and stream_turn *)

(* start_prompt_run inserts a run of the conversation. *)
StartedRun(row) ==
    [UnusedRun EXCEPT !.status = "started", !.thread = row.id]

(* start_prompt_run comes before the try of stream_turn: its exception,    *)
(* for one the violated foreign key of a stale cached conversation, leads  *)
(* on_message to an apology; the run is inserted all the same if only the  *)
(* answer to its commit, or the refresh after it, has failed.              *)
Begin(c) ==
    LET row == call[c].row
    IN  /\ At(c, "begin")
        /\ \/ \E r \in Runs :
                /\ Exists(row) /\ run[r].status = "unused"
                /\ \/ /\ run' = [run EXCEPT ![r] = StartedRun(row)]
                      /\ call' = [call EXCEPT ![c] = [@ EXCEPT
                             !.pc = "stream", !.run = r]]
                   \/ /\ "telemetry" \in Faults /\ End(c)
                      /\ run' = [run EXCEPT ![r] =
                             [StartedRun(row) EXCEPT !.hit = TRUE]]
           \/ /\ ~Exists(row) \/ "telemetry" \in Faults
              /\ End(c) /\ UNCHANGED run
        /\ UNCHANGED <<thread, opened, provider, socket, stray>>

(* A text delta appears in the reply. *)
Delta(c) ==
    /\ At(c, "stream")
    /\ run[call[c].run].shown = "nothing"
    /\ SetRun(call[c].run, "shown", "partial")
    /\ UNCHANGED <<thread, opened, provider, socket, call, stray>>

(* record_tool_run refers to the conversation and to the prompt run. *)
RecordToolRun(c) == Exists(call[c].row) /\ SetRun(call[c].run, "tools", TRUE)

(* The first event of a file search records a tool run.  record_tool_run   *)
(* is awaited inside the try, so that its failure fails the turn.          *)
Tool(c) ==
    LET r == call[c].run
    IN  /\ At(c, "stream") /\ ~run[r].tools
        /\ \/ RecordToolRun(c) /\ UNCHANGED call
           \/ /\ ~Exists(call[c].row)
              /\ GoTo(c, "fail") /\ UNCHANGED run
           \/ /\ "telemetry" \in Faults
              /\ GoTo(c, "fail") /\ SetRun(r, "hit", TRUE)
        /\ UNCHANGED <<thread, opened, provider, socket, stray>>

(* The stream ends; or an event, the run loop or emit raises.  Whether a   *)
(* run outlasts the deletion of its Conversation is up to the provider.    *)
Streamed(c) ==
    /\ At(c, "stream")
    /\ GoTo(c, "finish") \/ GoTo(c, "fail")
    /\ UNCHANGED <<thread, opened, provider, run, socket, stray>>

(* _safe_finish: an UPDATE of the prompt run if it is still there; its own *)
(* failure is swallowed.                                                   *)
SafeFinish(c, status, next) ==
    LET r == call[c].run
    IN  /\ GoTo(c, next)
        /\ \/ SetRun(r, "status", status)
           \/ "telemetry" \in Faults /\ SetRun(r, "hit", TRUE)
        /\ UNCHANGED <<thread, opened, provider, socket, stray>>

Finish(c) == At(c, "finish") /\ SafeFinish(c, "completed", "answer")

(* Variant: the exception is passed on, the prompt run is left alone. *)
FailUnrecorded(c) ==
    /\ At(c, "fail") /\ GoTo(c, "sorry")
    /\ UNCHANGED <<thread, opened, provider, run, socket, stray>>

Fail(c) == At(c, "fail") /\ SafeFinish(c, "failed", "sorry")

(* on_message shows the answer, or its apology in place of what it has     *)
(* shown so far.                                                           *)
Reply(c) ==
    /\ call[c].pc \in {"answer", "sorry"}
    /\ SetRun(call[c].run, "shown", call[c].pc)
    /\ End(c)
    /\ UNCHANGED <<thread, opened, provider, socket, stray>>

-----------------------------------------------------------------------------
(* on_settings_update and update_thread *)

(* Variant: a save inserts the row again if it is not there. *)
SavedAgain(row, m) == [row EXCEPT !.model = m]

(* update_settings writes the whole JSON of a row that is still there. *)
Saved(row, m) ==
    IF Exists(row) THEN [row EXCEPT !.model = m] ELSE thread

(* The new model is merged into the settings of the row as the session has *)
(* loaded it, and becomes the session's.                                   *)
WriteSettings(c) ==
    LET row == call[c].row
    IN  /\ At(c, "write") /\ call[c].op = "settings" /\ End(c)
        /\ \/ /\ thread' = Saved(row, call[c].model)
              /\ socket' = [socket EXCEPT ![call[c].socket] =
                     [cached |-> IF Exists(row) THEN thread' ELSE @.cached,
                      model |-> call[c].model]]
           \/ /\ "lost" \in Faults
              /\ thread' = Saved(row, call[c].model) /\ UNCHANGED socket
           \/ "database" \in Faults /\ UNCHANGED <<thread, socket>>
        /\ UNCHANGED <<opened, provider, run, stray>>

(* update_thread keeps the model it has loaded with the row, or takes the  *)
(* one in the session's metadata.                                          *)
WriteDetails(c) ==
    LET row == call[c].row
    IN  /\ At(c, "write") /\ call[c].op = "update" /\ End(c)
        /\ \/ \E m \in {row.model, socket[call[c].socket].model} :
                 thread' = Saved(row, m)
           \/ "database" \in Faults /\ UNCHANGED thread
        /\ UNCHANGED <<opened, provider, run, socket, stray>>

-----------------------------------------------------------------------------
(* delete_thread *)

(* conversations.delete; of a Conversation that is not there it raises. *)
DeleteProvider(c) ==
    LET v == call[c].row.conv
    IN  /\ At(c, "provider")
        /\ \/ /\ provider[v] = "open"
              /\ provider' = [provider EXCEPT ![v] = "deleted"]
              /\ \/ GoTo(c, "row") /\ UNCHANGED stray
                 \/ "lost" \in Faults /\ End(c) /\ stray' = stray \cup {v}
           \/ End(c) /\ UNCHANGED <<provider, stray>>
        /\ UNCHANGED <<thread, opened, run, socket>>

(* ON DELETE CASCADE takes the prompt runs and tool runs of the row along. *)
Erased(row) ==
    [r \in Runs |->
        IF run[r].status # "unused" /\ run[r].thread = row.id
        THEN [UnusedRun EXCEPT !.status = "erased"]
        ELSE run[r]]

DeleteRow(c) ==
    LET row == call[c].row
    IN  /\ At(c, "row") /\ End(c)
        /\ \/ /\ thread' = IF Exists(row) THEN None ELSE thread
              /\ run' = Erased(row)
              /\ UNCHANGED stray
           \/ /\ "database" \in Faults
              /\ stray' = stray \cup {row.conv}
              /\ UNCHANGED <<thread, run>>
        /\ UNCHANGED <<opened, provider, socket>>

-----------------------------------------------------------------------------
(* The environment *)

(* The Conversation that only this call knows of. *)
Holds(c) ==
    IF At(c, "row") THEN {call[c].row.conv} ELSE {call[c].conv} \ {None}

(* The user stops a turn, or the process stops: CancelledError is not an   *)
(* Exception, no except clause of the code sees it.                        *)
Cancel(c) ==
    LET r == call[c].run
    IN  /\ "cancel" \in Faults /\ ~At(c, "idle")
        /\ End(c)
        /\ stray' = stray \cup Holds(c)
        /\ IF r = None THEN UNCHANGED run ELSE SetRun(r, "hit", TRUE)
        /\ UNCHANGED <<thread, opened, provider, socket>>

(* A websocket session ends; another begins with an empty user_session. *)
Disconnect(s) ==
    /\ socket' = [socket EXCEPT ![s] = NewSocket]
    /\ \A c \in Calls : call[c].socket # s
    /\ UNCHANGED <<thread, opened, provider, run, call, stray>>

Turn(c) ==
    \/ Begin(c) \/ Delta(c) \/ Tool(c) \/ Streamed(c)
    \/ Finish(c) \/ Fail(c) \/ Reply(c)

Next ==
    \/ \E c \in Calls :
         \/ \E s \in Sockets, op \in Ops, m \in Models : Arrive(c, s, op, m)
         \/ Lookup(c) \/ Create(c) \/ Insert(c) \/ Undo(c)
         \/ Turn(c) \/ WriteSettings(c) \/ WriteDetails(c)
         \/ DeleteProvider(c) \/ DeleteRow(c) \/ Cancel(c)
    \/ \E s \in Sockets : Disconnect(s)

Spec == Init /\ [][Next]_vars

-----------------------------------------------------------------------------
(* Properties *)

(* Every open Conversation at the provider is that of the thread's row or  *)
(* in the hands of a call that will record or delete it, and the row's     *)
(* Conversation is open unless its deletion is under way: two callbacks    *)
(* that both find no thread do not leave an orphan, and the loser does not *)
(* take the winner's along.  Only a fault separates the two.               *)
ConversationAccounted ==
    /\ \A v \in Conversations :
          provider[v] = "open" =>
             \/ v \in stray
             \/ thread # None /\ thread.conv = v
             \/ \E c \in Calls : v \in Holds(c)
    /\ thread # None /\ provider[thread.conv] # "open" =>
             \/ thread.conv \in stray
             \/ \E c \in Calls : At(c, "row") /\ call[c].row.conv = thread.conv

(* When a turn is over, its prompt run and the reply in the browser agree: *)
(* completed and answered, or failed and apologised for.  A cancelled turn *)
(* or failing telemetry may leave the run "started" or cut the reply short *)
(* but never makes one tell the contrary of the other.                     *)
RunClosedWithTurn ==
    \A r \in Runs :
        /\ run[r].status \in {"started", "completed", "failed"}
        /\ \A c \in Calls : call[c].run # r
        => \/ run[r].status = "completed" /\ run[r].shown = "answer"
           \/ run[r].status = "failed" /\ run[r].shown = "sorry"
           \/ /\ run[r].hit
              /\ run[r].status = "completed" => run[r].shown # "sorry"
              /\ run[r].status = "failed" => run[r].shown # "answer"

(* The thread behaves as ThreadLife promises: whatever stale sessions and  *)
(* late writes do, and whichever calls fail, its row goes only after the   *)
(* provider's Conversation, and never comes back.                          *)
Life == INSTANCE ThreadLife
    WITH current <- IF thread = None THEN 0 ELSE thread.id,
         provided <- thread # None /\ provider[thread.conv] = "open",
         opened <- opened

LifeSpec == Life!Spec

=============================================================================
