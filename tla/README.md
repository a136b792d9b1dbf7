# Verification of Project Recovery

This directory holds TLA+ models of the Project Recovery chatbot, the TLC
configurations that check them on small instances, and theorems about them that
TLAPS proves for every value of the constants.  Paths below are relative to
`src/project_recovery/` of the repository unless they start with another
directory.

## The system

One FastAPI process (a single uvicorn worker started by `startup.sh`) serves the
login pages, the administration pages and a mounted Chainlit chat.  Durable state
is in PostgreSQL, in two directories on local disk (staged uploads, chat
attachments) and at OpenAI (files, one vector store, one Conversation per chat
thread).  Handlers are coroutines on one event loop; every database call, every
provider call and every Argon2 computation is an `await`, and other handlers run
there.

| Component | State | Operations | Hard behaviour | Correct when |
|---|---|---|---|---|
| Login sessions (`auth/sessions.py`) | `login_sessions` rows | login, current_user, validate_csrf, rotate_session, change_password, logout | Argon2 runs outside any transaction, between an unlocked read and a locked write; refreshes race with revocations | only sessions the account's present state justifies are live |
| Account management (`repositories/users.py`, `admin/users.py`) | `users` rows, audit rows | create, set_active, set_roles, set_temporary_password, revoke_login | read without a lock, write the changed columns, revoke by one UPDATE; lock order opposite to the sessions' | an administrator remains; a reset forces a change; revocation is complete |
| Password hashing (`auth/passwords.py`) | a semaphore | hash, verify, needs_rehash | CPU work off the loop | a hash identifies one password |
| Rate limiter (`auth/rate_limit.py`) | failures per account and address | is_allowed, record_failure, record_success | check and record are two calls with the login between them; bounded table | the verdict is that of the window; attempts in flight exceed it by a known amount |
| Knowledge (`knowledge/service.py`, `repositories/knowledge.py`, routes and lifespan of `app.py`) | a row, staged bytes, a provider file and its attachment | queue_upload, ingest, retry, delete, recover_stale | three stores without a transaction, background tasks, crashes, failing clean-up | ready means searchable, nothing is leaked or stranded |
| Agent runtime (`agent_runtime.py`, `repositories/telemetry.py`, `costs.py`) | provider conversation, prompt run, tool runs, messages | start_conversation, stream_turn, delete_conversation | failure between provider and database, cancellation, telemetry outage | every run ends; no orphaned conversation |
| Chat data layer (`chainlit_data.py`, `repositories/chat.py`, `chat_app.py`) | conversations, messages, attachments, files | upsert and delete of steps, elements, threads; settings | file before row, provider before row, settings cached per socket | rows, owners and files stay consistent through every interleaving |
| Bootstrap (`scripts/bootstrap_users.py`, `startup.sh`) | credentials file, first administrators | bootstrap | file written before the commit | the file exists exactly when the accounts do |
| Redaction and bounds (`repositories/_safety.py`) | none | sanitize_metadata, redact_text | byte budget | output is bounded |
| Admin pages, templates, static files, downgrades, Azure scripts | none of their own | projections, presentation, provisioning | none | not modelled |

Interactions: every page resolves its session cookie with `current_user`, and every
state-changing form also with `validate_csrf`, each in its own transaction, before
the operation runs in a third.  `login` is wrapped by the rate limiter.  The
Knowledge routes dispatch `ingest` as a BackgroundTask after the response; the
lifespan hook runs `recover_stale` before the first request is served.  The chat
callbacks revalidate the login before each action and call the agent runtime.

## Modules

| Module | What it is |
|---|---|
| `AuthSessions` | accounts, passwords and sessions as concurrent transactions |
| `LoginThrottle` | the login route behind the rate limiter |
| `KnowledgeLifecycle` | uploads over database, disk and provider, with crashes |
| `KnowledgeContract` | abstract: what one resource promises; `KnowledgeLifecycle` implements it |
| `ChatTurns` | the chat callbacks and the agent runtime on one thread |
| `ChatHistory` | the chat data layer over rows, files and provider |
| `ThreadLife` | abstract: the life of a thread; `ChatTurns` and `ChatHistory` implement it |
| `AuthSessionsProofs`, `LoginThrottleProofs`, `KnowledgeProofs`, `ChatTurnsProofs`, `ChatHistoryProofs` | the theorems of each module, with the inductive invariants they rest on |
| `MC...` | one per checked module: symmetry, operation and fault sets for TLC |

How they compose.  `ChatTurns` opens and deletes the row of one thread step by step and
keeps its prompt runs; `ChatHistory` takes opening as one action and details what hangs on
the row and what deletion does to it.  Both implement `ThreadLife`, which is the interface
between them: whatever either of them does to the row and the provider's Conversation is one
of its three actions.  `LoginThrottle` wraps the login that `AuthSessions` details: there it
is one outcome, here four steps.

### AuthSessions

`users` and `sessions` are the committed rows; `userLock` and `rowLock` say which
request holds the lock of a row; `req[r]` is the request in flight with its program
counter and what it has loaded.  The database is PostgreSQL at its default level,
READ COMMITTED (`db.py` configures no other): a plain SELECT reads what is
committed, an UPDATE or a SELECT ... FOR UPDATE waits for the lock and then
evaluates its WHERE clause again on the latest version.  A transaction's writes
appear in its commit step, which also drops its locks; between the locking
statement and the commit other requests run.

* `login` is `LoginRead` (snapshot), `Hashed` (Argon2 is over, `now` is taken),
  `LoginLock` or `LoginRefused` (the recheck of `is_active` and of the hash),
  `LoginInsert`.
* `current_user` is `Call`, `Read`, then `Touch` or `Expire` when it has something to
  write: those UPDATEs are of a row read earlier without a lock.
* `validate_csrf`, `rotate_session` and the second transaction of `change_password`
  lock in `LifecycleRow` and `LifecycleUser`, the order of `SELECT ... JOIN ... FOR
  UPDATE`.  Then `RotateInsert`, or `Scan`, `LockForRevoke` and `ChangeCommit`.
* `set_active`, `set_roles` and `set_temporary_password` are `ManageRead` (an unlocked
  `session.get`), `ManageCheck` (the last-administrator query), `ManageUpdate` (the
  flush, which writes only the columns that differ from the loaded row), the
  revocation of sessions, and `ActiveCommit`, `RolesCommit` or `ResetCommit`.  The
  audit row has two foreign keys, to the account and to whoever manages it (`actor`), so
  its insertion waits for a FOR UPDATE lock on either (`KeyShareWaits`).  Roles are modelled
  by the one that matters, administrator; `relist` says that other roles change with it.
* `Abort` rolls any request back at any step: cancellation, a lost connection, the end
  of the process.  `DeadlockVictim` is PostgreSQL's answer to a cycle of waits.

A password is a number; a hash is a number with the flags `legacy` (needs_rehash) and
`temporary` (chosen by an administrator).  `plain` and `parent` of a session and
`used` are history variables that only properties read.

### KnowledgeLifecycle

`row` is `knowledge_resources`, `staged` the directories under the staging root,
`stored` and `attachment` the provider's files and their status in the vector store.
`task[t]` is a call of the service in progress; a step ends where the code awaits.
`pending` holds the dispatched ingests that have not started.  `transition` is a
compare-and-set on the status (`CanTransition`), `force_update` an unconditional write.
`_cleanup_provider` is the pair `Detach` and `Remove`, entered by `CleanUp` from the
failing ingest, the deletion and the recovery, which differ in what they do once it is
over (`IngestCleaned`, `DeleteCleaned`, `RecoverCleaned`).

Every provider call of an ingest may raise at any time, and the poll may time out.
`Faults` adds what an instance wants besides: "stage" (the disk refuses the bytes),
"cleanup" (a clean-up call raises, before or after it took effect) and "lost" (a file
is created and the answer does not arrive).  `Crash` loses tasks and dispatched
ingests; `Restart` reads the two lists of `recover_stale`.  Which processing rows count
as stale is left open (any subset), because the restart may come sooner or later than
five minutes after the last write.

`KnowledgeContract` sees of a resource a state and whether the provider keeps a file of it:
queued and processing are "pending", ready "searchable", error "rejected", deleting
"withdrawn".  The refinement mapping is `Contract(r)`.  It needs a process that runs and a
clean-up that works: a crash or a failing clean-up may leave a file beside a rejected row,
which is what the runs `retry` and `restart` and the hazards are about.

### LoginThrottle

`order` and `failures` are the limiter's dict with its insertion order, `attempt[a]` a
request between the check and the record, `clock` the time.  A method of the limiter awaits
nothing while it holds its lock, so each is one step; `Check` inserts the keys it looks up,
as `_pruned` does, `RecordFailure` evicts past `MaxKeys`.  `Fresh` is the loop of `popleft`: it
drops failures only as long as the oldest one has expired.  `recent` is the reference the
properties compare with: the failures in the window, from which `Tick` drops every one that
expires, wherever it stands, and which otherwise only a success or an eviction forgets.

### ChatTurns

`thread` is the row of `conversations` (or `None`), `provider` the Conversations at OpenAI,
`run` the prompt runs with what the browser shows of their turn, `socket[s]` the
`user_session` of a websocket session with the conversation it has cached, `call[c]` a
coroutine and its program counter.

* `_revalidated_conversation` and `_ensure_conversation` are `Arrive` (from the cache) and
  `Lookup`; `start_conversation` is `Create`, `Insert` (the unique index refuses a second
  row), `Undo`.
* `stream_turn` is `Begin` (`start_prompt_run`, before the `try`), `Delta`, `Tool`
  (`record_tool_run`, inside it), `Streamed`, then `Finish` and `Reply`, or `Fail` and the
  apology.
* `on_settings_update` is `WriteSettings`, `update_thread` `WriteDetails`: both write the
  whole JSON they have loaded if the row is still there.
* `delete_thread` is `DeleteProvider`, then `DeleteRow`, whose cascade erases the prompt
  runs.
* `Cancel` ends a call between two awaits: `CancelledError` passes every `except Exception`.

`Faults` adds to the provider's failures: "database" and "telemetry" (a transaction fails),
"lost" (it takes effect and the call does not learn it), "undo" (the compensating deletion
fails), "cancel". `stray` and `hit` record where a fault has struck: a stray Conversation may
be an orphan, and the record of a run that was hit may be missing or unfinished, though it
never says the contrary of the reply.

### ChatHistory

`current`, `opened` and `provided` are the thread's row and its Conversation as `ThreadLife`
names them; `message`, `attachment` and `feedback` are the rows by their client-chosen ids,
each with its conversation row; `files` is the directory.  A call begins with its first
transaction (`BeginStep`, ...), which looks the thread up and compares the owner
(`OwnedRow`), or finds the row by the item's own id and checks the owner later
(`CheckOwner`); `CheckMessage` is the look-up of the message an element or a rating is for;
the `Write...` actions are the repository's transactions with the guards they repeat;
`ListAttachments`, `DeleteProvider`, `DeleteRow`, `Unlink` are `delete_thread`.

Deleting a message with attachments or ratings meets two foreign keys each, one that
cascades or sets null and a composite one without action.  PostgreSQL fires them in the
order of their internal trigger names, which the migration leaves to creation order; the
model lets the deletion succeed or fail.

Two simplifications.  A message is known by its step's id, where the code compares the UUID of
its row (`InRow`): one deleted and created again under the same step id between two checks
passes in the model and is refused by the code, so the model has more behaviours.  A
file whose record commits after `delete_thread` has listed the attachments counts as lost at the
record; the files beyond the page count when the row goes.

Assumed: the login and owner checks at the head of a call, when they refuse, have no effect
(they only read); Chainlit sends each element once and with content, so that no upload
refreshes an element that exists; a file operation does not fail; `reply.update` does not raise.

## What TLC checks

| Run | Properties | Instance |
|---|---|---|
| `races` | TypeOK, NoLiveSessionForInactive, SessionMatchesPassword, RotatedOnce, ChangeReplacesVerified | 1 account, 3 sessions, 2 requests, 2 new passwords; login, change, rotate, (de)activate, reset |
| `serial` | ActiveAdminExists | 3 accounts, one management request at a time |
| `locks` | RevokedStaysRevoked, IdleNeverRevived, RequestsEnd | 2 accounts, 1 session, 2 requests, clock to the idle timeout, fairness |
| `lastadmin` | ActiveAdminExists, violated | 2 administrators, 2 requests |
| `reset` | TemporaryMustChange, violated | 1 account, 2 requests |
| `faults` | TypeOK, ReadyIsSearchable, IngestOwnsRow, CleanedBeforeForgotten, DeletionIsFinal | 2 resources, 3 files, 2 tasks, upload and delete, every fault, 2 crashes |
| `settle` | DeletedLeavesNoFile, StagedForIngest, ContractSpec, UploadSettles | 2 resources, 3 files, 2 tasks, every operation, no crash, fairness |
| `retry` | RetryOnlyCleaned, violated | 1 resource, 2 tasks, failing clean-ups |
| `restart` | RestartLeavesRecoverable, violated | 1 resource, 1 crash |
| `turns` | TypeOK, ConversationAccounted, RunClosedWithTurn, LifeSpec | 1 thread, 2 websocket sessions, 2 calls, 2 Conversations, 1 prompt run, every fault |
| `history` | TypeOK, HistoryConsistent, AttachmentHasFile, FileAccounted, OwnersOnly, LifeSpec | 2 threads of 2 users, 2 calls, 1 message, 2 elements, 1 rating, a page of 1, 2 rows in all, every fault |
| `throttle` | TypeOK, OverrunBounded, FailuresBounded, VerdictIsRight, FailuresKept | 3 spellings of 2 accounts, 2 addresses, 2 attempts in flight, limits 1 and 2, window 2, clock to 3, a table of 3 keys |

Why the bounds suffice.  Two requests are what every race here takes: one that has read and
one that commits in between; three sessions let one be opened, rotated and opened again.  In
`locks` the clock reaches the idle timeout: a session is read in time, then expired by
another request at the boundary while the late refresh of the first is in flight.  Knowledge
rows never interact except through task slots and the order in which recovery handles them;
two of them let tasks and files be shared, and three files are two failed attempts and one
more.  `faults` has two overlapping deletions, crashes and failing clean-ups; `settle` has the
retries instead, for which bytes must still be there (`StagedForIngest`), and no crash, no lost
answer and no failing clean-up, on each of which `DeletedLeavesNoFile` rests.
In `turns` two calls are the two callbacks that both find no thread, or the turn and
the deletion under it; two Conversations are the winner's and the loser's, or the thread's
before and after it was deleted.  In `history` two rows are those of both users, or one
thread deleted and opened again while a call still works for its first row; two elements
exceed the page of one.  In `throttle` the table holds fewer keys than the instance has, so
eviction happens.  Sessions, files, prompt runs and rows are never reused, so these bounds
stop long runs, not interleavings.

Deadlock.  The Knowledge and chat configurations say `CHECK_DEADLOCK FALSE`: once its
resources, rows or elements are used up an instance has nothing left to do.  In
`AuthSessions` requests can always arrive or abort; that blocked requests get on is the
property `RequestsEnd`.  `throttle` is checked for deadlock.

Fairness.  `AuthSessions!FairSpec` assumes that a request which can again and again take a
step takes it (the event loop schedules it, and PostgreSQL queues the waiters of a row lock)
and that a deadlock is broken.  No request has to arrive and none has to abort, so
`RequestsEnd` does not hold by cancelling everything; it excuses only a behaviour in which some
request needs a session or a password beyond the bounds (`OutOfBounds`).  `KnowledgeLifecycle!FairSpec` assumes
that a task in progress continues and that a dispatched ingest starts; strong fairness is
needed only because the model has finitely many task slots.  The provider is not assumed to
finish an attachment: the poll's timeout is what ends the wait.  The chat modules and
`LoginThrottle` state safety only: a turn ends when the provider's stream does, for which
the code sets no timeout.

### What the violated runs show

* `lastadmin`: `_has_other_active_admin` (`repositories/users.py:215`) is an unlocked SELECT.  Two
  administrators deactivated or demoted by overlapping requests each count the other, and
  none remains.  `serial` shows that the check is right when requests do not overlap.
* `reset`: `set_temporary_password` (`repositories/users.py:124`) assigns
  `force_password_change = True`, which is written only if the row was loaded with FALSE.  If
  the user's own change of password commits in between, the flag stays FALSE beside a
  temporary password.
* `retry`: two retries load the same clean error row; the first is requeued, its ingest fails and
  cannot clean up, and the second then passes its compare-and-set on `error` although the
  row names a provider file again (`knowledge/service.py:175`).  The next ingest overwrites the id.
* `restart`: a row left in `processing` by a crash stays there when the process is back within
  five minutes, or when recovery ends at an exception; `delete` and `retry` refuse it until some
  later restart.

Related behaviour the models contain and no run reports: a stale row that recovery requeues
is not dispatched (`knowledge/service.py:220` comes after the queued list was read), two
deletions with a failing clean-up may turn `deleted` back into `deleting`, and staged bytes
survive some interleavings.  `settle` excludes them by its constants, not by its properties;
`faults` has no `retry`, because the defect that `retry` shows would break
CleanedBeforeForgotten too, and a retry after a failed staging would break IngestOwnsRow.
The theorems name the exact combinations (`Tidy` and `Orderly` below): TLC finds a
counterexample on one resource as soon as one of them is let in.

### Known divergences without a run of their own

* Telemetry can discard an answer.  The design document says "A failed telemetry write
  cannot discard a successful assistant response"
  (docs/superpowers/specs/2026-08-11-project-recovery-chatbot-design.md:345), as does the
  comment at `agent_runtime.py:491` of `_safe_finish`.  `start_prompt_run` (line 270) and
  `record_tool_run` (line 428) are not so guarded: in `ChatTurns`, `Begin` and `Tool` end in
  the apology when telemetry fails.
* "application telemetry is retained indefinitely" (the same document, line 232):
  `prompt_runs` and `tool_runs` go with their conversation by ON DELETE CASCADE (`Erased`).
* "bounded state" (`auth/rate_limit.py:1`): `is_allowed` inserts two keys for any attempt
  and evicts none, and an attempt it refuses records no failure, so that refused attempts let
  the dict exceed `MAX_TRACKED_KEYS` until the next recorded failure.  `FailuresBounded` says
  what is bounded: the keys that have failures.
* A deletion can be undone.  The plan lists "ready -> deleting -> deleted" and "error ->
  deleting -> deleted" (docs/superpowers/plans/2026-08-11-project-recovery-chatbot.md:585) as the
  only ways of a row in deletion.  A row is visible as `queued` before its bytes are staged,
  and when staging fails the `except` clause of `queue_upload` (`knowledge/service.py:82`)
  writes `error` over whatever the row has become.  `DeletionIsFinal` excepts exactly that step.
* A setting chosen in one tab is overwritten by a rename in another: `update_settings`
  writes the JSON as loaded earlier.
* After `delete_thread` failed between the provider and the row, the thread is listed for
  ever: each further deletion fails at the provider (`DeleteProvider` with a Conversation
  that is gone).
* Files of attachments stay behind when their message is deleted, beyond the first 100, or
  when recorded during the deletion of the thread: the five cases that `FileAccounted`
  lists.

## What is proved

Every safety invariant, action property and refinement that a passing run checks is proved
for all values of the constants: any number of users, sessions, requests, resources, files,
tasks, crashes, threads, calls, and any timeouts, limits and page sizes.  The assumptions on
constants are named in the module that declares them (`AuthAssumption`, `ThrottleAssumption`,
`NoneAssumption`, ...): numbers are naturals, `None` is no row or record, and the sets whose
members the properties or actions count are finite (`Attempts`, `Threads`, `Elements`).  TLC
evaluates them in each run.  Where a theorem has a hypothesis of its own, it excludes a
behaviour in which the code breaks the property; the table names it.

| Theorem | Property | Hypothesis |
|---|---|---|
| `AuthSessionsProofs!TypeCorrect` | `TypeOK` | |
| `InactiveHasNoSession` | `NoLiveSessionForInactive` | |
| `SessionsFollowPassword` | `SessionMatchesPassword` | |
| `RotationIsExclusive` | `RotatedOnce` | |
| `ChangeIsGuarded` | `ChangeReplacesVerified` | |
| `RevocationIsFinal` | `RevokedStaysRevoked` | |
| `IdleIsFinal` | `IdleNeverRevived` | |
| `SerialKeepsAdmin` | `ActiveAdminExists` | one request at a time, an administrator to begin with (run `lastadmin`) |
| `KnowledgeProofs!KnowledgeTyped` | `TypeOK` | |
| `ReadyStaysSearchable` | `ReadyIsSearchable` | |
| `BytesKept` | `StagedForIngest` | |
| `DeletionsStand` | `DeletionIsFinal` | |
| `IngestKeepsRow` | `IngestOwnsRow` | `Orderly`: not failing staging, retries and deletions together |
| `FilesCleanedFirst` | `CleanedBeforeForgotten` | `Tidy`: not failing clean-ups and retries together (run `retry`) |
| `DeletedIsGone` | `DeletedLeavesNoFile` | `Whole`: no crash, no lost answer, `Tidy` |
| `KeepsContract` | `ContractSpec` | `Calm`: no crash and no fault beyond a raising or timed-out ingest |
| `LoginThrottleProofs!ThrottleTyped` | `TypeOK` | |
| `VerdictsAreRight` | `VerdictIsRight` | |
| `OverrunIsBounded` | `OverrunBounded` | |
| `CountedFailuresKept` | `FailuresKept` | |
| `FailuresStayBounded` | `FailuresBounded` | |
| `ChatTurnsProofs!TurnsTyped` | `TypeOK` | |
| `ConversationsStayAccounted` | `ConversationAccounted` | |
| `RunsCloseWithTurns` | `RunClosedWithTurn` | |
| `TurnsKeepLife` | `LifeSpec` | |
| `ChatHistoryProofs!HistoryTyped` | `TypeOK` | |
| `HistoryStaysConsistent` | `HistoryConsistent` | |
| `AttachmentsHaveFiles` | `AttachmentHasFile` | |
| `FilesAreAccounted` | `FileAccounted` | |
| `OwnersChangeOnly` | `OwnersOnly` | |
| `HistoryKeepsLife` | `LifeSpec` | |

None of the properties but the types is inductive: what a write does depends on what its call
has read some awaits ago.  Each inductive invariant (`IInv` of the module) therefore says what
a call relies on at each of its steps, and each proof is a rely/guarantee argument: a step of
one call keeps what the others rely on, and re-establishes its own.  There is one lemma per
action, so that a change to one handler disturbs one proof.

**AuthSessions.**  `IInv` has four parts: `TypeOK`; `LockInv`, which says at which steps a
request holds which locks; `RelyInv`, what a request relies on about the committed rows at
each of its steps (a login about to insert relies on the account being active with the hash it
verified; a revocation relies on every live session of the account being in its list or locked
by it); and `TableInv`, the properties of the tables themselves.  `Guarantee(r)` is what a step
of `r` may do to rows whose locks others hold, `Stable` that such a step keeps what the others
rely on, `StepOK` that the step keeps the tables and re-establishes what `r` itself relies on.
`IdleNeverRevived` needs an invariant of its own, `IdleInv`: `last_seen_at` is never later
than the last acceptance of the session (`used`), and a refresh still to be written was in
time when it was decided on.  So a refresh that arrives late moves a row forward only to an
instant at which the session was rightly accepted.  `SerialKeepsAdmin` rests on `AdminInv`:
a request past its check leaves another active administrator, which stays true because
nobody else runs.

**KnowledgeLifecycle.**  A task touches the row and the files of its own resource alone
(`Moved`), so that one resource is one world.  In it the row's status says who may be at work:
`UploadOf`, `IngestOf`, `DeleteOf`, `RetryOf` are what each kind of call relies on, `RowOf` what
the row says, `Recovery` that the start-up hook works on rows nobody else knows; `OthersLeft` is
what a step leaves to the others.  The one unconditional write, by an upload that could not be
staged, may bring back a row that is being deleted (`Bare`); a retry may then hand it to an
ingest while the deletion is still at work.  Such an ingest has no bytes to send, so it never
gets past `files.create`, and `IngestOf` promises the row only to an ingest that is `Sound`:
this is why `ReadyIsSearchable` holds under every fault while `IngestOwnsRow` needs
`Orderly`.  A late retry requeues a row that still names a file, hence `Tidy`.  `Served` adds
for `DeletedLeavesNoFile` that each file the provider keeps is known to its ingest or to its
row; a crash or a lost answer breaks that, hence `Whole`.  For `StagedForIngest`, `Bytes` adds to
`IInv` that a task about to remove bytes belongs to a row whose bytes nobody will read again
(`Spent`: it is ready, in deletion or deleted, or names none), and that such a
row never comes to need bytes again: only an upload that could not be staged leads back from
a deletion, and its row names none.  The refinement of
`KnowledgeContract` is proved per resource, one move of the contract (`Pledges`) per step.

**LoginThrottle.**  A deque may hold failures that have expired, but they are its oldest, and
what follows them is the reference's window (`Mirrors`); the deque is sorted and holds nothing
of the future (`KeyOK`).  Pruning then leaves the window, however late it comes, which gives
the verdict.  That a first unexpired failure exists is the least-number principle
(`Least`), from the library's well-foundedness theorem.  `OverrunBounded` is inductive beside
it: an attempt that passes the check has seen a window below the limit, and all it may add is
itself.  `FailuresBounded` follows because keys with failures are listed, a recorded failure
cuts the list to `MaxKeys`, and nothing else gives a key a failure.

**ChatTurns.**  Two arguments do not meet.  `RowsInv` and `ConvOf` are about rows that the
thread, a socket's cache or a call still knows: a row's number names one Conversation, only the
row that is there has an open one, and a Conversation without a row is known to the call that
created it alone.  `RunOf` is about turns: a run is written by one call, and at each of its steps
`Due` says which record it already holds before the reply, so that neither can come to
contradict the other, whichever of them a cancellation or a telemetry fault cuts off.

**ChatHistory.**  `CallOf` says what a call has checked by each step, `FilesOf` what it relies on
about files: an element is uploaded by one call, once, and a file that a deletion has listed
gets no record again.  `Frame` is what a step may do to the calls, rows and files of others.

Only model-checked: `RequestsEnd` and `UploadSettles`, which are liveness under fairness and out
of the prover's reach.  `TemporaryMustChange`, `RetryOnlyCleaned` and `RestartLeavesRecoverable`
do not hold and are what the violated runs show.

## Not modelled

* Argon2, tokens and cookies as bytes; audit rows beyond their lock; HTTP form handling; the
  gates of `auth/dependencies.py` beyond the `current_user` and `validate_csrf` they call;
  upload validation; the list queries and the pages of the history; the personal settings
  (one atomic upsert) and `record_exception` (another).
* `append_message`, `add_attachment` and `record_feedback` of the chat repository, which
  nothing in the program calls, and the `persist_messages=True` branch of `stream_turn`,
  which its only caller excludes.
* What a thread's JSON contains beyond the model: names, tags, metadata; and that
  `sanitize_metadata` drops keys past 16000 bytes.
* `scripts/bootstrap_users.py`, a one-shot script outside the serving process.
* Templates, static files and Azure provisioning.
* Database failures inside the Knowledge service (a commit whose outcome is unknown), and
  two overlapping processes during a deployment.

## Plan

1. Done: `AuthSessions`, `KnowledgeLifecycle` with `KnowledgeContract`, `LoginThrottle`,
   `ChatTurns` and `ChatHistory` with `ThreadLife`; every safety property of the passing runs
   proved, both refinements of `ThreadLife` and that of `KnowledgeContract` included.
2. `AuthSessions` as an implementation of an abstract account (who may be logged in, with which
   password), to state in one refinement what its five invariants say apart; the same proof
   would use `IInv` as it is.
3. `BootstrapAdmins`: credentials file against commit, with the loop of `startup.sh`.
