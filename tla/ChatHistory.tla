----------------------------- MODULE ChatHistory -----------------------------
(***************************************************************************)
(* The chat history: Chainlit's data layer (chainlit_data.py) over the     *)
(* rows of ChatRepository (repositories/chat.py) and the files kept for    *)
(* attachments.                                                            *)
(*                                                                         *)
(* A call of the data layer is a coroutine that awaits one transaction     *)
(* after the other.  What it has checked in one of them (whose thread it   *)
(* is, which message an element belongs to) may have changed in the next.  *)
(*                                                                         *)
(* A conversation row is <<thread, n>>: the n-th row inserted under one    *)
(* chainlit_thread_id.  Opening it is start_conversation, whose own steps  *)
(* are those of ChatTurns.  The text of messages, comments, names, sizes   *)
(* and pages of the history are left out; every element has content.       *)
(***************************************************************************)
EXTENDS Naturals, FiniteSets

CONSTANTS
    Calls,      \* coroutines that may be in progress (a bound)
    Threads,    \* chainlit_thread_ids
    Users,      \* principals
    Owner,      \* the user whose thread it is
    Steps,      \* chainlit_step_ids
    Elements,   \* chainlit_element_ids
    Feedbacks,  \* chainlit_feedback_ids
    MaxRows,    \* conversation rows ever inserted (a bound)
    PageSize,   \* page_limit: attachments read by delete_thread
    None,       \* no row, no message
    Ops,        \* the operations called in an instance
    Faults      \* what may fail: "cancel", "database"

ASSUME HistoryAssumption ==
    /\ Owner \in [Threads -> Users]
    /\ MaxRows \in Nat \ {0} /\ PageSize \in Nat \ {0}
    /\ IsFiniteSet(Threads) /\ IsFiniteSet(Elements)
    /\ None \notin Users \cup Steps \cup Elements \cup Feedbacks
    /\ Ops \subseteq {"step", "unstep", "element", "unelement", "rate",
                      "unrate", "delete"}
    /\ Faults \subseteq {"cancel", "database"}

VARIABLES
    current,     \* the number of the row of each thread, 0 without one
    opened,      \* rows inserted so far
    provided,    \* the provider keeps the row's Conversation
    message,     \* messages, by step id
    attachment,  \* message_attachments, by element id
    feedback,    \* chat_feedback, by feedback id
    files,       \* files under the attachment root
    uploaded,    \* element ids sent so far
    call,        \* the calls in progress
    lost         \* history: files the code no longer has a name for

rows == <<current, opened, provided>>
children == <<message, attachment, feedback>>
disk == <<files, uploaded, lost>>
vars == <<rows, children, disk, call>>

-----------------------------------------------------------------------------
(* Rows, files and calls *)

Rows == Threads \X (1 .. MaxRows)

(* The destination names the row and the element. *)
Paths == Rows \X Elements

(* "by" is the user whose content it is. *)
MessageRows == [row : Rows, by : Users]
ChildRows == [row : Rows, step : Steps \cup {None}]

ASSUME NoneAssumption == None \notin Rows \cup MessageRows \cup ChildRows

CallRecords ==
    [op : Ops \cup {"none"},
     pc : {"idle", "owner", "refer", "write", "list", "provider", "row",
           "unlink"},
     user : Users \cup {None}, row : Rows \cup {None},
     step : Steps \cup {None},
     item : Elements \cup Feedbacks \cup {None}, paths : SUBSET Paths]

NoCall == [op |-> "none", pc |-> "idle", user |-> None, row |-> None,
           step |-> None, item |-> None, paths |-> {}]

(* Rows, files and calls are well formed. *)
TypeOK ==
    /\ current \in [Threads -> 0 .. MaxRows]
    /\ opened \in [Threads -> 0 .. MaxRows]
    /\ provided \in [Threads -> BOOLEAN]
    /\ message \in [Steps -> MessageRows \cup {None}]
    /\ attachment \in [Elements -> ChildRows \cup {None}]
    /\ feedback \in [Feedbacks -> ChildRows \cup {None}]
    /\ files \subseteq Paths /\ lost \subseteq Paths
    /\ uploaded \subseteq Elements
    /\ call \in [Calls -> CallRecords]
    /\ \A c \in Calls : call[c].pc # "idle" => call[c].row # None

Init ==
    /\ current = [t \in Threads |-> 0] /\ opened = current
    /\ provided = [t \in Threads |-> FALSE]
    /\ message = [s \in Steps |-> None]
    /\ attachment = [e \in Elements |-> None]
    /\ feedback = [f \in Feedbacks |-> None]
    /\ files = {} /\ uploaded = {} /\ lost = {}
    /\ call = [c \in Calls |-> NoCall]

-----------------------------------------------------------------------------
(* Helpers *)

At(c, op, pc) == call[c].op = op /\ call[c].pc = pc
GoTo(c, pc) == call' = [call EXCEPT ![c].pc = pc]
End(c) == call' = [call EXCEPT ![c] = NoCall]

Live(row) == current[row[1]] = row[2]

(* The row of a message, attachment or feedback, None without one. *)
RowOf(record) == IF record = None THEN None ELSE record.row

(* The files of a row's attachments. *)
PathsOf(row) == {<<row, e>> : e \in {e \in Elements : RowOf(attachment[e]) = row}}

(* Variant: a thread that is not there is not refused. *)
AnyRow(u, t) == <<t, current[t]>>

(* _owned_thread: the row of a thread of this user. *)
OwnedRow(u, t) ==
    IF current[t] # 0 /\ Owner[t] = u THEN <<t, current[t]>> ELSE None

-----------------------------------------------------------------------------
(* The calls begin *)

(* start_conversation has inserted a row; see ChatTurns. *)
Open(t) ==
    /\ current[t] = 0
    /\ Cardinality({row \in Rows : row[2] <= opened[row[1]]}) < MaxRows
    /\ opened' = [opened EXCEPT ![t] = @ + 1]
    /\ current' = [current EXCEPT ![t] = opened'[t]]
    /\ provided' = [provided EXCEPT ![t] = TRUE]
    /\ UNCHANGED <<children, disk, call>>

(* A call begins with its first transaction, which looks a row up; without *)
(* one it is refused or has nothing to do.                                 *)
Begin(c, op, row, pc, new) ==
    /\ op \in Ops /\ call[c] = NoCall /\ row # None
    /\ call' = [call EXCEPT ![c] =
                   [new EXCEPT !.op = op, !.row = row, !.pc = pc]]
    /\ UNCHANGED <<rows, children, lost>>

(* create_step and update_step begin with _owned_thread, delete_step with  *)
(* get_message_by_chainlit_id.                                             *)
BeginStep(c, u, s) ==
    LET new == [NoCall EXCEPT !.user = u, !.step = s]
    IN  /\ \/ \E t \in Threads : Begin(c, "step", OwnedRow(u, t), "write", new)
           \/ Begin(c, "unstep", RowOf(message[s]), "owner", new)
        /\ UNCHANGED <<files, uploaded>>

(* _upsert_element copies the file before it records it. *)
CopyFile(row, e) == files' = files \cup {<<row, e>>}

(* create_element, once for each element Chainlit makes; an element for no *)
(* message is copied at once.                                              *)
BeginElement(c, u, t, e) ==
    LET row == OwnedRow(u, t)
        new == [NoCall EXCEPT !.user = u, !.item = e]
    IN  /\ e \notin uploaded /\ uploaded' = uploaded \cup {e}
        /\ \/ Begin(c, "element", row, "write", new) /\ CopyFile(row, e)
           \/ /\ \E s \in Steps :
                    Begin(c, "element", row, "refer", [new EXCEPT !.step = s])
              /\ UNCHANGED files

(* delete_element, with the thread's id or without it. *)
BeginUnelement(c, u, e) ==
    LET new == [NoCall EXCEPT !.user = u, !.item = e]
    IN  /\ \/ \E t \in Threads :
                 Begin(c, "unelement", OwnedRow(u, t), "write", new)
           \/ Begin(c, "unelement", RowOf(attachment[e]), "owner", new)
        /\ UNCHANGED <<files, uploaded>>

BeginRate(c, u, s, f) ==
    LET new == [NoCall EXCEPT !.user = u, !.step = s, !.item = f]
    IN  /\ \E t \in Threads : Begin(c, "rate", OwnedRow(u, t), "refer", new)
        /\ UNCHANGED <<files, uploaded>>

BeginDelete(c, u, t) ==
    /\ Begin(c, "delete", OwnedRow(u, t), "list", [NoCall EXCEPT !.user = u])
    /\ UNCHANGED <<files, uploaded>>

-----------------------------------------------------------------------------
(* Further checks, each in a transaction of its own *)

FoundIsOwned(c, row) == Live(row) /\ Owner[row[1]] = call[c].user

(* get_thread and _is_owner. *)
CheckOwner(c) ==
    /\ call[c].pc = "owner"
    /\ IF FoundIsOwned(c, call[c].row) THEN GoTo(c, "write") ELSE End(c)
    /\ UNCHANGED <<rows, children, disk>>

(* get_message_by_chainlit_id: without the message the element or feedback *)
(* is one of the thread; a message of another row is refused.              *)
CheckMessage(c) ==
    LET s == call[c].step
        row == RowOf(message[s])
        refused == row \notin {None, call[c].row}
    IN  /\ call[c].pc = "refer"
        /\ IF refused THEN End(c)
           ELSE call' = [call EXCEPT ![c].step = IF row = None THEN None ELSE s,
                                     ![c].pc = "write"]
        /\ IF ~refused /\ call[c].op = "element"
           THEN CopyFile(call[c].row, call[c].item) ELSE UNCHANGED files
        /\ UNCHANGED <<rows, children, uploaded, lost>>

-----------------------------------------------------------------------------
(* Writes, each one transaction of the repository *)

(* The transaction fails, or the row of the call is gone: a file copied    *)
(* for the call stays without a record.                                    *)
WriteFails(c) ==
    /\ End(c)
    /\ lost' = IF call[c].op = "element"
               THEN lost \cup {<<call[c].row, call[c].item>>} ELSE lost
    /\ UNCHANGED <<rows, children, files, uploaded>>

(* on_conflict_do_update only where the conversation is the same. *)
OwnMessage(s, row) == RowOf(message[s]) \in {None, row}

WriteStep(c) ==
    LET s == call[c].step
        row == call[c].row
    IN  /\ At(c, "step", "write")
        /\ IF Live(row) /\ OwnMessage(s, row)
           THEN /\ message' = [message EXCEPT ![s] =
                       [row |-> IF @ = None THEN row ELSE @.row,
                        by |-> call[c].user]]
                /\ End(c)
                /\ UNCHANGED <<rows, attachment, feedback, disk>>
           ELSE WriteFails(c)

(* Variant: the statement names the step alone. *)
DeletesById(c) == message[call[c].step] # None

(* Only a message still in the row whose owner was checked is deleted. *)
DeletesStep(c) == RowOf(message[call[c].step]) = call[c].row

(* What refers to a message: both its attachments and its feedback hold    *)
(* two foreign keys to it, one that cascades or sets null and a composite  *)
(* one without an action.  Which of them PostgreSQL enforces first depends *)
(* on the order they were created in: the deletion succeeds, or it fails.  *)
References(s) ==
    {e \in Elements : attachment[e] # None /\ attachment[e].step = s}
        \cup {f \in Feedbacks : feedback[f] # None /\ feedback[f].step = s}

Unreferenced(s) ==
    [f \in Feedbacks |->
        IF feedback[f] # None /\ feedback[f].step = s
        THEN [feedback[f] EXCEPT !.step = None] ELSE feedback[f]]

(* ON DELETE CASCADE takes the attachments along; nobody has listed their  *)
(* files.                                                                  *)
WriteUnstep(c) ==
    LET s == call[c].step
        taken == {e \in Elements : attachment[e] # None /\ attachment[e].step = s}
    IN  /\ At(c, "unstep", "write")
        /\ \/ /\ DeletesStep(c)
              /\ message' = [message EXCEPT ![s] = None]
              /\ attachment' = [e \in Elements |->
                                   IF e \in taken THEN None ELSE attachment[e]]
              /\ feedback' = Unreferenced(s)
              /\ lost' = lost \cup {<<attachment[e].row, e>> : e \in taken}
              /\ End(c) /\ UNCHANGED <<rows, files, uploaded>>
           \/ /\ ~DeletesStep(c) \/ References(s) # {}
              /\ WriteFails(c)

(* A deletion of the row has read its attachments already. *)
HasListed(c, row) ==
    call[c].op = "delete" /\ call[c].pc \in {"provider", "row"} /\ call[c].row = row

(* Variant: the message checked before is taken to be still there. *)
CheckedBefore(step, row) == TRUE

(* The message is checked again, and by the composite foreign key.  The    *)
(* code compares the UUID that was looked up, and refuses a message that   *)
(* has been deleted and sent again under its step id; here it passes.      *)
InRow(step, row) == step = None \/ RowOf(message[step]) = row

WriteElement(c) ==
    LET e == call[c].item
        row == call[c].row
    IN  /\ At(c, "element", "write")
        /\ IF /\ Live(row) /\ InRow(call[c].step, row)
              /\ RowOf(attachment[e]) \in {None, row}
           THEN /\ attachment' = [attachment EXCEPT ![e] =
                       [row |-> row, step |-> call[c].step]]
                /\ lost' = IF \E d \in Calls : HasListed(d, row)
                           THEN lost \cup {<<row, e>>} ELSE lost
                /\ End(c)
                /\ UNCHANGED <<rows, message, feedback, files, uploaded>>
           ELSE WriteFails(c)

(* Its file goes when the transaction has committed. *)
WriteUnelement(c) ==
    LET e == call[c].item
        row == call[c].row
    IN  /\ At(c, "unelement", "write")
        /\ IF RowOf(attachment[e]) = row
           THEN /\ attachment' = [attachment EXCEPT ![e] = None]
                /\ call' = [call EXCEPT ![c].pc = "unlink",
                                        ![c].paths = {<<row, e>>}]
           ELSE End(c) /\ UNCHANGED attachment
        /\ UNCHANGED <<rows, message, feedback, disk>>

(* upsert_chainlit_feedback refuses the id of another row's feedback. *)
WriteRate(c) ==
    LET f == call[c].item
        row == call[c].row
    IN  /\ At(c, "rate", "write")
        /\ IF /\ Live(row) /\ InRow(call[c].step, row)
              /\ RowOf(feedback[f]) \in {None, row}
           THEN /\ feedback' = [feedback EXCEPT ![f] =
                       [row |-> row, step |-> call[c].step]]
                /\ End(c)
                /\ UNCHANGED <<rows, message, attachment, disk>>
           ELSE WriteFails(c)

(* delete_feedback is one statement: it names the feedback and its user.   *)
Unrate(u, f) ==
    /\ "unrate" \in Ops
    /\ feedback[f] # None /\ Owner[feedback[f].row[1]] = u
    /\ feedback' = [feedback EXCEPT ![f] = None]
    /\ UNCHANGED <<rows, message, attachment, disk, call>>

Write(c) ==
    \/ WriteStep(c) \/ WriteUnstep(c) \/ WriteElement(c)
    \/ WriteUnelement(c) \/ WriteRate(c)
    \/ /\ "database" \in Faults /\ call[c].pc = "write"
       /\ WriteFails(c)

-----------------------------------------------------------------------------
(* delete_thread *)

(* Variant: the page begins after the first attachment. *)
PagesFromOne(all) ==
    {page \in SUBSET all : Cardinality(page) + 1 = Cardinality(all)}

(* One page of attachments; which ones are the oldest is left open. *)
Pages(all) ==
    {page \in SUBSET all : /\ Cardinality(page) <= PageSize
                           /\ page # all => Cardinality(page) = PageSize}

(* Variant: the files of the page are removed at once. *)
UnlinksFirst(c) ==
    /\ At(c, "delete", "list")
    /\ \E page \in Pages(PathsOf(call[c].row)) :
          /\ call' = [call EXCEPT ![c].paths = page, ![c].pc = "provider"]
          /\ files' = files \ page
    /\ UNCHANGED <<rows, children, uploaded, lost>>

(* list_attachments reads one page. *)
ListAttachments(c) ==
    /\ At(c, "delete", "list")
    /\ \E page \in Pages(PathsOf(call[c].row)) :
          call' = [call EXCEPT ![c].paths = page, ![c].pc = "provider"]
    /\ UNCHANGED <<rows, children, disk>>

(* Variant: a failure of the provider is passed over. *)
ProviderIgnored(c) ==
    LET row == call[c].row
    IN  /\ At(c, "delete", "provider") /\ GoTo(c, "row")
        /\ \/ /\ Live(row) /\ provided' = [provided EXCEPT ![row[1]] = FALSE]
           \/ UNCHANGED provided
        /\ UNCHANGED <<current, opened, children, disk>>

(* conversations.delete fails, and always when the Conversation is gone. *)
DeleteProvider(c) ==
    LET row == call[c].row
    IN  /\ At(c, "delete", "provider")
        /\ \/ /\ Live(row) /\ provided[row[1]]
              /\ provided' = [provided EXCEPT ![row[1]] = FALSE]
              /\ GoTo(c, "row")
           \/ End(c) /\ UNCHANGED provided
        /\ UNCHANGED <<current, opened, children, disk>>

(* ON DELETE CASCADE from conversations. *)
Cascade(row) ==
    /\ message' = [s \in Steps |->
                      IF RowOf(message[s]) = row THEN None ELSE message[s]]
    /\ attachment' = [e \in Elements |->
                         IF RowOf(attachment[e]) = row THEN None ELSE attachment[e]]
    /\ feedback' = [f \in Feedbacks |->
                       IF RowOf(feedback[f]) = row THEN None ELSE feedback[f]]

(* The row goes with everything that belongs to it; the files beyond a     *)
(* full page have no name any more.                                        *)
DeleteRow(c) ==
    LET row == call[c].row
        page == call[c].paths
    IN  /\ At(c, "delete", "row")
        /\ \/ /\ current' = IF Live(row) THEN [current EXCEPT ![row[1]] = 0]
                            ELSE current
              /\ Cascade(row)
              /\ lost' = IF Cardinality(page) = PageSize
                         THEN lost \cup (PathsOf(row) \ page) ELSE lost
              /\ GoTo(c, "unlink")
           \/ /\ "database" \in Faults
              /\ End(c) /\ UNCHANGED <<current, children, lost>>
        /\ UNCHANGED <<opened, provided, files, uploaded>>

(* _remove_owned_path, once the transaction has committed. *)
Unlink(c) ==
    /\ call[c].pc = "unlink" /\ End(c)
    /\ files' = files \ call[c].paths
    /\ UNCHANGED <<rows, children, uploaded, lost>>

-----------------------------------------------------------------------------
(* The environment *)

(* The files that this call alone has a name for. *)
Holds(c) ==
    CASE call[c].pc = "unlink" -> call[c].paths
      [] At(c, "element", "write") -> {<<call[c].row, call[c].item>>}
      [] OTHER -> {}

(* The client goes or the process stops between two awaits. *)
Cancel(c) ==
    /\ "cancel" \in Faults /\ call[c] # NoCall
    /\ End(c) /\ lost' = lost \cup Holds(c)
    /\ UNCHANGED <<rows, children, files, uploaded>>

Next ==
    \/ \E t \in Threads : Open(t)
    \/ \E u \in Users, f \in Feedbacks : Unrate(u, f)
    \/ \E c \in Calls :
         \/ \E u \in Users :
              \/ \E s \in Steps : BeginStep(c, u, s)
              \/ \E t \in Threads, e \in Elements : BeginElement(c, u, t, e)
              \/ \E e \in Elements : BeginUnelement(c, u, e)
              \/ \E s \in Steps, f \in Feedbacks : BeginRate(c, u, s, f)
              \/ \E t \in Threads : BeginDelete(c, u, t)
         \/ CheckOwner(c) \/ CheckMessage(c)
         \/ Write(c)
         \/ ListAttachments(c) \/ DeleteProvider(c) \/ DeleteRow(c) \/ Unlink(c)
         \/ Cancel(c)

Spec == Init /\ [][Next]_vars

-----------------------------------------------------------------------------
(* Properties *)

(* Whoever deletes whatever between the checks of a call and its write,    *)
(* every message, attachment and feedback belongs to a row that is there,  *)
(* and an attachment or feedback to a message of its own row.              *)
HistoryConsistent ==
    LET Belongs(record) ==
          record # None => Live(record.row) /\ (record.step = None \/ RowOf(message[record.step]) = record.row)
    IN  /\ \A s \in Steps : message[s] # None => Live(message[s].row)
        /\ \A e \in Elements : Belongs(attachment[e])
        /\ \A f \in Feedbacks : Belongs(feedback[f])

(* The history gives no name of a file that is not there: deletions remove *)
(* the record before the file, uploads copy the file before the record,    *)
(* and neither fails in between the wrong way round.                       *)
AttachmentHasFile ==
    \A e \in Elements :
        attachment[e] # None => <<attachment[e].row, e>> \in files

(* A file is kept by its attachment, or by a call that will record or      *)
(* remove it.  Files are left behind in five ways only: the upload fails   *)
(* after the copy, or a call ends in between; the attachment goes with its *)
(* message; with its thread, beyond the full page that delete_thread has   *)
(* read; or it is recorded while a deletion that has read its page is on   *)
(* the way (counted at the record, whatever comes of the deletion).        *)
FileAccounted ==
    \A path \in files :
        \/ path \in lost
        \/ RowOf(attachment[path[2]]) = path[1]
        \/ \E c \in Calls : path \in Holds(c)

(* A record changes in a call of its owner. *)
ChangedByOwner(old, new) ==
    old # None /\ new # old =>
        \/ \E c \in Calls : call'[c] # call[c] /\ call[c].user = Owner[old.row[1]]
        \/ \E f \in Feedbacks : Unrate(Owner[old.row[1]], f)

ChangedByOwners ==
    /\ \A s \in Steps : ChangedByOwner(message[s], message'[s])
    /\ \A e \in Elements : ChangedByOwner(attachment[e], attachment'[e])
    /\ \A f \in Feedbacks : ChangedByOwner(feedback[f], feedback'[f])

(* What a user's thread contains is changed by calls of that user alone,   *)
(* though the owner is checked transactions before the write and the ids   *)
(* of steps, elements and feedback are those of the client.                *)
OwnersOnly == [][ChangedByOwners]_vars

(* Each thread behaves as ThreadLife promises. *)
Life(t) == INSTANCE ThreadLife
    WITH current <- current[t], provided <- provided[t], opened <- opened[t]

LifeSpec ==
    /\ \A t \in Threads : Life(t)!Init
    /\ [][\A t \in Threads : [Life(t)!Next]_(Life(t)!vars)]_vars

=============================================================================
