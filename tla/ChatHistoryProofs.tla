-------------------------- MODULE ChatHistoryProofs --------------------------
(***************************************************************************)
(* Proofs about ChatHistory, for every number of calls, threads, messages, *)
(* elements and rows and every size of a page.  The safety properties rest *)
(* on what a call relies on between its checks and its write (FilesOf),    *)
(* and on what a step may do to the rows and files others work with        *)
(* (Frame).                                                                *)
(***************************************************************************)
EXTENDS ChatHistory, FiniteSetTheorems, TLAPS

(* Which steps a call goes through, and what it has checked by then. *)
CallOf(c) ==
    LET k == call[c]
    IN  /\ k.pc = "idle" <=> k = NoCall
        /\ k.pc # "idle" =>
              /\ k.row \in Rows /\ k.row[2] <= opened[k.row[1]]
              /\ k.pc # "owner" => Owner[k.row[1]] = k.user
        /\ k.op # "unrate" /\ (k.op = "none" => k.pc = "idle")
        /\ k.op \in {"step", "unstep"} => k.pc \in {"owner", "write"} /\ k.step \in Steps
        /\ k.op \in {"element", "rate"} => k.pc \in {"refer", "write"}
        /\ k.op = "unelement" => k.pc \in {"owner", "write", "unlink"}
        /\ k.op \in {"element", "unelement"} => k.item \in Elements
        /\ k.op = "rate" => k.item \in Feedbacks
        /\ k.op = "delete" => k.pc \in {"list", "provider", "row", "unlink"}
        /\ k.pc = "refer" => k.step \in Steps

IsUpload(c, e) == call[c].op = "element" /\ call[c].item = e

(* What a call relies on about the files and the row it works with: an     *)
(* element is uploaded by one call only, once, and no file that a call has *)
(* listed for removal gets a record again.                                 *)
FilesOf(c) ==
    LET k == call[c]
    IN  /\ At(c, "element", "write") => <<k.row, k.item>> \in files
        /\ k.op = "element" =>
              /\ k.item \in uploaded /\ attachment[k.item] = None
              /\ \A d \in Calls : IsUpload(d, k.item) => d = c
        /\ k.paths # {} => k.pc \in {"provider", "row", "unlink"}
        /\ \A path \in k.paths :
              /\ path[1] = k.row /\ path[2] \in uploaded
              /\ \A d \in Calls : ~IsUpload(d, path[2])
              /\ RowOf(attachment[path[2]]) \in {None, k.row}
              /\ k.pc = "unlink" => attachment[path[2]] = None
        /\ HasListed(c, k.row) /\ Cardinality(k.paths) # PageSize =>
              \A e \in Elements : RowOf(attachment[e]) = k.row =>
                 <<k.row, e>> \in k.paths \cup lost
        /\ At(c, "delete", "row") /\ Live(k.row) => ~provided[k.row[1]]

CallInv == \A c \in Calls : CallOf(c) /\ FilesOf(c)

RowsInv ==
    /\ \A t \in Threads : current[t] <= opened[t]
    /\ \A e \in Elements : attachment[e] # None => e \in uploaded

IInv ==
    /\ TypeOK /\ CallInv /\ RowsInv
    /\ HistoryConsistent /\ AttachmentHasFile /\ FileAccounted

-----------------------------------------------------------------------------
(* Rows, records and calls *)

(* A row is its thread and its number. *)
LEMMA RowParts ==
    /\ \A row \in Rows : /\ row[1] \in Threads /\ row[2] \in 1 .. MaxRows
                         /\ row = <<row[1], row[2]>> /\ row # None
    /\ \A t \in Threads, n \in 1 .. MaxRows : <<t, n>> \in Rows
    /\ \A row \in Rows, e \in Elements : <<row, e>> \in Paths
    /\ \A path \in Paths : /\ path[1] \in Rows /\ path[2] \in Elements
                           /\ path = <<path[1], path[2]>>
<1>1. None \notin Rows
  BY NoneAssumption
<1> QED
  BY <1>1 DEF Rows, Paths

(* No record is None, and each names a row. *)
LEMMA Records ==
    ASSUME TypeOK
    PROVE  /\ \A s \in Steps : /\ RowOf(message[s]) \in Rows \cup {None}
                               /\ message[s] = None <=> RowOf(message[s]) = None
                               /\ message[s] # None => /\ message[s] \in MessageRows
                                                       /\ message[s].row = RowOf(message[s])
           /\ \A e \in Elements : /\ RowOf(attachment[e]) \in Rows \cup {None}
                                  /\ attachment[e] = None <=> RowOf(attachment[e]) = None
                                  /\ attachment[e] # None => /\ attachment[e] \in ChildRows
                                                             /\ attachment[e].row = RowOf(attachment[e])
           /\ \A f \in Feedbacks : /\ RowOf(feedback[f]) \in Rows \cup {None}
                                   /\ feedback[f] = None <=> RowOf(feedback[f]) = None
                                   /\ feedback[f] # None => /\ feedback[f] \in ChildRows
                                                            /\ feedback[f].row = RowOf(feedback[f])
<1>1. \A record \in MessageRows \cup ChildRows :
         record.row \in Rows /\ record.row # None
  BY RowParts DEF MessageRows, ChildRows
<1>2. \A s \in Steps : message[s] \in MessageRows \cup {None}
  BY DEF TypeOK
<1>3. \A e \in Elements : attachment[e] \in ChildRows \cup {None}
  BY DEF TypeOK
<1>4. \A f \in Feedbacks : feedback[f] \in ChildRows \cup {None}
  BY DEF TypeOK
<1>5. \A record \in MessageRows \cup ChildRows \cup {None} :
         /\ RowOf(record) \in Rows \cup {None}
         /\ record = None <=> RowOf(record) = None
         /\ record # None => record.row = RowOf(record)
  BY <1>1 DEF RowOf
<1> QED
  BY <1>2, <1>3, <1>4, <1>5

(* The record of no call. *)
LEMMA NoCallType ==
    /\ NoCall \in CallRecords
    /\ NoCall.op = "none" /\ NoCall.pc = "idle" /\ NoCall.row = None
    /\ NoCall.paths = {}
BY DEF NoCall, CallRecords

(* What the end of a call and a mere move of it leave. *)
LEMMA EndFrame ==
    ASSUME TypeOK, NEW c \in Calls, End(c)
    PROVE  /\ call' \in [Calls -> CallRecords] /\ call'[c] = NoCall
           /\ \A d \in Calls \ {c} : call'[d] = call[d]
           /\ \A d \in Calls : call'[d].pc # "idle" => call'[d].row # None
           /\ CallOf(c)' /\ FilesOf(c)' /\ Holds(c)' = {}
<1>1. /\ call' \in [Calls -> CallRecords] /\ call'[c] = NoCall
      /\ \A d \in Calls \ {c} : call'[d] = call[d]
  BY NoCallType DEF TypeOK, End
<1>2. CallOf(c)'
  BY <1>1, NoCallType DEF CallOf
<1>3. FilesOf(c)'
  BY <1>1, NoCallType DEF FilesOf, At, HasListed
<1>4. Holds(c)' = {}
  BY <1>1, NoCallType DEF Holds, At
<1>5. \A d \in Calls : call'[d].pc # "idle" => call'[d].row # None
  <2>1. \A d \in Calls \ {c} : call[d].pc # "idle" => call[d].row # None
    BY DEF TypeOK
  <2> QED
    BY <1>1, <2>1, NoCallType
<1> QED
  BY <1>1, <1>2, <1>3, <1>4, <1>5

LEMMA GoToFrame ==
    ASSUME TypeOK, NEW c \in Calls,
           NEW pc \in {"owner", "refer", "write", "list", "provider", "row", "unlink"},
           GoTo(c, pc), call[c].row # None
    PROVE  /\ call' \in [Calls -> CallRecords]
           /\ \A d \in Calls \ {c} : call'[d] = call[d]
           /\ call'[c] \in CallRecords
           /\ call'[c].op = call[c].op /\ call'[c].pc = pc
           /\ call'[c].user = call[c].user /\ call'[c].row = call[c].row
           /\ call'[c].step = call[c].step /\ call'[c].item = call[c].item
           /\ call'[c].paths = call[c].paths
           /\ \A d \in Calls : call'[d].pc # "idle" => call'[d].row # None
<1>1. call[c] \in CallRecords /\ call' = [call EXCEPT ![c] = [call[c] EXCEPT !.pc = pc]]
  BY DEF TypeOK, GoTo
<1> DEFINE new == [call[c] EXCEPT !.pc = pc]
<1>2. /\ new \in CallRecords
      /\ new.op = call[c].op /\ new.pc = pc /\ new.user = call[c].user
      /\ new.row = call[c].row /\ new.step = call[c].step
      /\ new.item = call[c].item /\ new.paths = call[c].paths
  BY <1>1 DEF CallRecords
<1>5. call' = [call EXCEPT ![c] = new]
  BY <1>1
<1> HIDE DEF new
<1>3. /\ call' \in [Calls -> CallRecords] /\ call'[c] = new
      /\ \A d \in Calls \ {c} : call'[d] = call[d]
  BY <1>2, <1>5 DEF TypeOK
<1>4. \A d \in Calls : call'[d].pc # "idle" => call'[d].row # None
  <2>1. \A d \in Calls \ {c} : call[d].pc # "idle" => call[d].row # None
    BY DEF TypeOK
  <2> QED
    BY <1>2, <1>3, <2>1
<1> QED
  BY <1>2, <1>3, <1>4

-----------------------------------------------------------------------------
(* What a step may do to the calls of others *)

(* A step of the calls C, of one call or of none: it keeps the other calls *)
(* and, of what they rely on, whatever it does not own.                    *)
Frame(C) ==
    /\ \A d \in Calls \ C : call'[d] = call[d]
    /\ \A t \in Threads : opened[t] <= opened'[t]
    /\ lost \subseteq lost' /\ uploaded \subseteq uploaded'
    /\ \A e \in Elements :
          \/ attachment'[e] \in {attachment[e], None}
          \/ \E c \in C :
                /\ IsUpload(c, e) /\ RowOf(attachment'[e]) = call[c].row
                /\ \A d \in Calls : HasListed(d, call[c].row)
                                       => <<call[c].row, e>> \in lost'
    /\ \A c \in C, e \in Elements : IsUpload(c, e)' => IsUpload(c, e) \/ e \notin uploaded
    /\ \A path \in files \ files' :
          \E c \in C : call[c].pc = "unlink" /\ path \in call[c].paths
    /\ \A row \in Rows :
          row[2] <= opened[row[1]] /\ Live(row)'
             => Live(row) /\ (provided'[row[1]] => provided[row[1]])

(* What a call relies on is stable under the steps of the others. *)
LEMMA Stable ==
    ASSUME IInv, TypeOK', NEW C \in SUBSET Calls, Frame(C), NEW d \in Calls \ C
    PROVE  CallOf(d)' /\ FilesOf(d)'
<1>0. TypeOK /\ CallOf(d) /\ FilesOf(d) /\ call'[d] = call[d]
  BY DEF IInv, CallInv, Frame
<1> DEFINE k == call[d]
<1>1. CallOf(d)'
  <2>1. \A t \in Threads : opened[t] \in Nat /\ opened'[t] \in Nat
    BY <1>0 DEF TypeOK
  <2>2. k.pc # "idle" => /\ k.row \in Rows /\ k.row[1] \in Threads /\ k.row[2] \in Nat
                         /\ k.row[2] <= opened[k.row[1]]
    BY <1>0, RowParts DEF CallOf
  <2>3. k.pc # "idle" => k.row[2] <= opened'[k.row[1]]
    BY <2>1, <2>2 DEF Frame
  <2> QED
    BY <1>0, <2>3 DEF CallOf
<1>2. ASSUME NEW e \in Elements, e \in uploaded, \A c \in Calls : IsUpload(c, e) => c = d
      PROVE  /\ \A c \in Calls : IsUpload(c, e)' => c = d
             /\ attachment'[e] \in {attachment[e], None}
  BY <1>2 DEF Frame, IsUpload
<1>3. At(d, "element", "write") => <<k.row, k.item>> \in files'
  <2> SUFFICES ASSUME At(d, "element", "write"), <<k.row, k.item>> \notin files'
               PROVE  FALSE
    OBVIOUS
  <2>1. <<k.row, k.item>> \in files \ files' /\ IsUpload(d, k.item)
    BY <1>0 DEF FilesOf, At, IsUpload
  <2>2. PICK c \in C : <<k.row, k.item>> \in call[c].paths
    BY <2>1 DEF Frame
  <2>3. FilesOf(c)
    BY DEF IInv, CallInv
  <2> QED
    BY <2>1, <2>2, <2>3 DEF FilesOf
<1>4. k.op = "element" =>
         /\ k.item \in uploaded' /\ attachment'[k.item] = None
         /\ \A c \in Calls : IsUpload(c, k.item)' => c = d
  <2>1. k.op = "element" => /\ k.item \in Elements /\ k.item \in uploaded
                            /\ attachment[k.item] = None
                            /\ \A c \in Calls : IsUpload(c, k.item) => c = d
    BY <1>0 DEF CallOf, FilesOf
  <2> QED
    BY <1>2, <2>1 DEF Frame
<1>5. ASSUME NEW path \in k.paths
      PROVE  /\ path[1] = k.row /\ path[2] \in uploaded'
             /\ \A c \in Calls : ~IsUpload(c, path[2])'
             /\ RowOf(attachment'[path[2]]) \in {None, k.row}
             /\ k.pc = "unlink" => attachment'[path[2]] = None
  <2>1. /\ path[1] = k.row /\ path[2] \in uploaded
        /\ \A c \in Calls : ~IsUpload(c, path[2])
        /\ RowOf(attachment[path[2]]) \in {None, k.row}
        /\ k.pc = "unlink" => attachment[path[2]] = None
        /\ path[2] \in Elements
    BY <1>0 DEF FilesOf, TypeOK
  <2>2. \A c \in Calls : ~IsUpload(c, path[2])'
    BY <2>1 DEF Frame, IsUpload
  <2>3. attachment'[path[2]] \in {attachment[path[2]], None}
    BY <2>1 DEF Frame
  <2> QED
    BY <2>1, <2>2, <2>3 DEF Frame, RowOf
<1>6. ASSUME HasListed(d, k.row), Cardinality(k.paths) # PageSize,
             NEW e \in Elements, RowOf(attachment'[e]) = k.row
      PROVE  <<k.row, e>> \in k.paths \cup lost'
  <2>1. k.row \in Rows /\ k.row # None
    BY <1>0, <1>6, RowParts DEF CallOf, HasListed
  <2>2. CASE attachment'[e] = attachment[e]
    BY <1>0, <1>6, <2>2 DEF FilesOf, Frame
  <2>3. attachment'[e] # None
    BY <1>6, <2>1 DEF RowOf
  <2> QED
    BY <1>6, <2>2, <2>3 DEF Frame
<1>7. At(d, "delete", "row") /\ Live(k.row)' => ~provided'[k.row[1]]
  BY <1>0 DEF CallOf, FilesOf, Frame, At
<1>8. HasListed(d, k.row)' <=> HasListed(d, k.row)
  BY <1>0 DEF HasListed
<1>9. FilesOf(d)'
  <2>1. k.paths # {} => k.pc \in {"provider", "row", "unlink"}
    BY <1>0 DEF FilesOf
  <2> QED
    BY <1>0, <1>3, <1>4, <1>5, <1>6, <1>7, <1>8, <2>1 DEF FilesOf, At
<1> QED
  BY <1>1, <1>9

-----------------------------------------------------------------------------
(* What a step must show *)

(* A step of the calls C keeps the invariant. *)
StepOK(C) ==
    /\ Frame(C) /\ TypeOK' /\ \A c \in C : CallOf(c)' /\ FilesOf(c)'
    /\ RowsInv' /\ HistoryConsistent' /\ AttachmentHasFile' /\ FileAccounted'

LEMMA StepOKSuffices ==
    ASSUME IInv, NEW C \in SUBSET Calls, StepOK(C)
    PROVE  IInv'
<1>1. \A d \in Calls \ C : CallOf(d)' /\ FilesOf(d)'
  BY Stable DEF StepOK
<1>2. CallInv'
  BY <1>1 DEF CallInv, StepOK
<1> QED
  BY <1>2 DEF IInv, StepOK

(* A record of a row and a message of it, given the rows and the messages. *)
Belongs(cur, msg, record) ==
    /\ cur[record.row[1]] = record.row[2]
    /\ record.step = None \/ RowOf(msg[record.step]) = record.row

LEMMA HistoryParts ==
    /\ HistoryConsistent <=>
          /\ \A s \in Steps : message[s] # None =>
                current[message[s].row[1]] = message[s].row[2]
          /\ \A e \in Elements : attachment[e] # None =>
                Belongs(current, message, attachment[e])
          /\ \A f \in Feedbacks : feedback[f] # None =>
                Belongs(current, message, feedback[f])
    /\ HistoryConsistent' <=>
          /\ \A s \in Steps : message'[s] # None =>
                current'[message'[s].row[1]] = message'[s].row[2]
          /\ \A e \in Elements : attachment'[e] # None =>
                Belongs(current', message', attachment'[e])
          /\ \A f \in Feedbacks : feedback'[f] # None =>
                Belongs(current', message', feedback'[f])
BY DEF HistoryConsistent, Live, Belongs

(* A step that leaves the rows and the records, and removes no file. *)
LEMMA TablesKept ==
    ASSUME IInv, UNCHANGED <<rows, children>>, files \subseteq files',
           uploaded \subseteq uploaded'
    PROVE  RowsInv' /\ HistoryConsistent' /\ AttachmentHasFile'
<1>1. UNCHANGED <<current, opened, message, attachment, feedback>>
  BY DEF rows, children
<1>2. RowsInv'
  BY <1>1 DEF IInv, RowsInv
<1>3. HistoryConsistent'
  BY <1>1 DEF IInv, HistoryConsistent, Live, RowOf
<1>4. AttachmentHasFile'
  BY <1>1 DEF IInv, AttachmentHasFile
<1> QED
  BY <1>2, <1>3, <1>4

(* A file has an attachment, or a call that has its name, or none has. *)
Accounted(path) ==
    \/ path \in lost
    \/ RowOf(attachment[path[2]]) = path[1]
    \/ \E c \in Calls : path \in Holds(c)

(* Only what the step adds, and what its calls and changed attachments     *)
(* accounted for, needs to be looked at.                                   *)
LEMMA AccountedSuffices ==
    ASSUME IInv, NEW C \in SUBSET Calls, files' \subseteq Paths,
           \A d \in Calls \ C : call'[d] = call[d],
           lost \subseteq lost',
           \A path \in files' \ files : Accounted(path)',
           \A path \in files' : RowOf(attachment[path[2]]) = path[1]
              /\ attachment'[path[2]] # attachment[path[2]] => Accounted(path)',
           \A c \in C : \A path \in Holds(c) \cap files' : Accounted(path)'
    PROVE  FileAccounted'
<1> SUFFICES ASSUME NEW path \in files', path \in files
             PROVE  Accounted(path)'
  BY DEF FileAccounted, Accounted
<1>1. Accounted(path)
  BY DEF IInv, FileAccounted, Accounted
<1>2. path[2] \in Elements /\ path = <<path[1], path[2]>>
  BY RowParts
<1>3. CASE path \in lost
  BY <1>3 DEF Accounted
<1>4. CASE RowOf(attachment[path[2]]) = path[1]
  <2>1. CASE attachment'[path[2]] = attachment[path[2]]
    BY <1>4, <2>1 DEF Accounted, RowOf
  <2>2. CASE attachment'[path[2]] # attachment[path[2]]
    BY <1>4, <2>2
  <2> QED
    BY <2>1, <2>2
<1>5. ASSUME NEW d \in Calls, path \in Holds(d)
      PROVE  Accounted(path)'
  <2>1. CASE d \in C
    BY <1>5, <2>1
  <2>2. CASE d \notin C
    <3>1. Holds(d)' = Holds(d)
      BY <2>2 DEF Holds, At
    <3> QED
      BY <1>5, <3>1 DEF Accounted
  <2> QED
    BY <2>1, <2>2
<1> QED
  BY <1>1, <1>3, <1>4, <1>5 DEF Accounted

(* A step that leaves the rows and the records frames as well. *)
LEMMA QuietFrame ==
    ASSUME IInv, NEW C \in SUBSET Calls, UNCHANGED <<rows, children>>,
           \A d \in Calls \ C : call'[d] = call[d],
           files \subseteq files', uploaded \subseteq uploaded', lost \subseteq lost',
           \A c \in C, e \in Elements :
              IsUpload(c, e)' => IsUpload(c, e) \/ e \notin uploaded
    PROVE  Frame(C)
<1>1. UNCHANGED <<current, opened, provided, attachment>>
  BY DEF rows, children
<1>2. \A t \in Threads : opened[t] <= opened'[t]
  BY <1>1 DEF IInv, TypeOK
<1>3. files \ files' = {}
  OBVIOUS
<1> QED
  BY <1>1, <1>2, <1>3 DEF Frame, Live

-----------------------------------------------------------------------------
(* The steps *)

(* A call ends, and what it alone had the name of is left behind. *)
LEMMA EndStep ==
    ASSUME IInv, NEW c \in Calls, End(c),
           UNCHANGED <<rows, children, files, uploaded>>,
           lost \subseteq lost', lost' \subseteq Paths, Holds(c) \subseteq lost'
    PROVE  StepOK({c})
<1>0. TypeOK /\ UNCHANGED <<current, opened, provided, message, attachment, feedback>>
  BY DEF IInv, rows, children
<1>1. /\ call' \in [Calls -> CallRecords] /\ call'[c] = NoCall
      /\ \A d \in Calls \ {c} : call'[d] = call[d]
      /\ \A d \in Calls : call'[d].pc # "idle" => call'[d].row # None
      /\ CallOf(c)' /\ FilesOf(c)'
  BY <1>0, EndFrame
<1>2. TypeOK'
  BY <1>0, <1>1 DEF TypeOK
<1>3. \A e \in Elements : ~IsUpload(c, e)'
  BY <1>1, NoCallType DEF IsUpload
<1>4. Frame({c})
  BY <1>1, <1>3, QuietFrame
<1>5. RowsInv' /\ HistoryConsistent' /\ AttachmentHasFile'
  BY TablesKept
<1>6. FileAccounted'
  <2>1. \A path \in Holds(c) : Accounted(path)'
    BY DEF Accounted
  <2>2. files' \subseteq Paths /\ files' \ files = {}
    BY <1>0 DEF TypeOK
  <2> QED
    BY <1>0, <1>1, <2>1, <2>2, AccountedSuffices, ZenonT(40)
<1> QED
  BY <1>1, <1>2, <1>4, <1>5, <1>6 DEF StepOK

LEMMA WriteFailsStep ==
    ASSUME IInv, NEW c \in Calls, call[c].pc = "write", WriteFails(c)
    PROVE  StepOK({c})
<1>1. TypeOK /\ CallOf(c)
  BY DEF IInv, CallInv
<1>2. call[c].op = "element" => <<call[c].row, call[c].item>> \in Paths
  BY <1>1, RowParts DEF CallOf
<1>3. Holds(c) \subseteq lost' /\ lost \subseteq lost' /\ lost' \subseteq Paths
  BY <1>1, <1>2 DEF WriteFails, Holds, At, TypeOK
<1> QED
  BY <1>3, EndStep DEF WriteFails

LEMMA CancelStep ==
    ASSUME IInv, NEW c \in Calls, Cancel(c)
    PROVE  StepOK({c})
<1>1. TypeOK /\ CallOf(c)
  BY DEF IInv, CallInv
<1>2. Holds(c) \subseteq Paths
  BY <1>1, RowParts DEF TypeOK, CallRecords, CallOf, Holds, At
<1> QED
  BY <1>1, <1>2, EndStep DEF Cancel, TypeOK

LEMMA CheckOwnerStep ==
    ASSUME IInv, NEW c \in Calls, CheckOwner(c)
    PROVE  StepOK({c})
<1>0. /\ TypeOK /\ CallOf(c) /\ FilesOf(c) /\ call[c].pc = "owner"
      /\ UNCHANGED <<current, opened, provided, message, attachment, feedback,
                     files, uploaded, lost>>
  BY DEF IInv, CallInv, CheckOwner, rows, children, disk
<1>1. Holds(c) = {}
  BY <1>0 DEF Holds, At
<1>2. CASE End(c)
  BY <1>0, <1>1, <1>2, EndStep DEF CheckOwner, TypeOK
<1>3. CASE FoundIsOwned(c, call[c].row) /\ GoTo(c, "write")
  <2>1. call[c].row # None
    BY <1>0 DEF TypeOK
  <2>2. /\ call' \in [Calls -> CallRecords]
        /\ \A d \in Calls \ {c} : call'[d] = call[d]
        /\ call'[c].op = call[c].op /\ call'[c].pc = "write"
        /\ call'[c].user = call[c].user /\ call'[c].row = call[c].row
        /\ call'[c].step = call[c].step /\ call'[c].item = call[c].item
        /\ call'[c].paths = call[c].paths
        /\ \A d \in Calls : call'[d].pc # "idle" => call'[d].row # None
    BY <1>0, <1>3, <2>1, GoToFrame
  <2>3. TypeOK'
    BY <1>0, <2>2 DEF TypeOK
  <2>4. Frame({c})
    BY <1>0, <2>2, QuietFrame DEF IsUpload, CheckOwner
  <2>5. RowsInv' /\ HistoryConsistent' /\ AttachmentHasFile'
    BY <1>0, TablesKept DEF CheckOwner
  <2>6. FileAccounted'
    <3>1. files' \subseteq Paths /\ files' \ files = {}
      BY <1>0 DEF TypeOK
    <3> QED
      BY <1>0, <1>1, <2>2, <3>1, AccountedSuffices, ZenonT(40)
  <2>7. call[c].op \in {"step", "unstep", "unelement"} /\ call'[c] # NoCall
    <3>1. call[c].op \in {"none", "step", "unstep", "element", "unelement",
                          "rate", "unrate", "delete"}
      BY <1>0, HistoryAssumption DEF TypeOK, CallRecords
    <3> QED
      BY <1>0, <2>2, <3>1, NoCallType DEF CallOf
  <2>8. CallOf(c)'
    BY <1>0, <1>3, <2>2, <2>7 DEF CallOf, FoundIsOwned
  <2>9. FilesOf(c)'
    BY <1>0, <2>2, <2>7 DEF FilesOf, At, HasListed
  <2> QED
    BY <2>3, <2>4, <2>5, <2>6, <2>8, <2>9 DEF StepOK
<1> QED
  BY <1>2, <1>3 DEF CheckOwner

(* The row a call begins with. *)
LEMMA RowFound ==
    ASSUME IInv
    PROVE  /\ \A u \in Users, t \in Threads : OwnedRow(u, t) # None =>
                 /\ OwnedRow(u, t) \in Rows /\ Owner[OwnedRow(u, t)[1]] = u
                 /\ OwnedRow(u, t)[2] <= opened[OwnedRow(u, t)[1]]
           /\ \A row \in Rows : Live(row) => row[2] <= opened[row[1]]
<1>1. /\ \A t \in Threads : current[t] \in 0 .. MaxRows /\ current[t] <= opened[t]
      /\ MaxRows \in Nat
  BY HistoryAssumption DEF IInv, TypeOK, RowsInv
<1>2. ASSUME NEW u \in Users, NEW t \in Threads, OwnedRow(u, t) # None
      PROVE  /\ OwnedRow(u, t) \in Rows /\ Owner[OwnedRow(u, t)[1]] = u
             /\ OwnedRow(u, t)[2] <= opened[OwnedRow(u, t)[1]]
  <2>1. current[t] # 0 /\ Owner[t] = u /\ OwnedRow(u, t) = <<t, current[t]>>
    BY <1>2 DEF OwnedRow
  <2>2. current[t] \in 1 .. MaxRows
    BY <1>1, <2>1
  <2> QED
    BY <1>1, <2>1, <2>2, RowParts
<1>3. \A row \in Rows : Live(row) => row[2] <= opened[row[1]]
  BY <1>1, RowParts DEF Live
<1> QED
  BY <1>2, <1>3

LEMMA BeginFrame ==
    ASSUME TypeOK, NEW c \in Calls, NEW op \in Ops, NEW row \in Rows,
           NEW pc \in {"owner", "refer", "write", "list"}, NEW new \in CallRecords,
           Begin(c, op, row, pc, new)
    PROVE  /\ call' \in [Calls -> CallRecords]
           /\ \A d \in Calls \ {c} : call'[d] = call[d]
           /\ call'[c].op = op /\ call'[c].pc = pc
           /\ call'[c].user = new.user /\ call'[c].row = row
           /\ call'[c].step = new.step /\ call'[c].item = new.item
           /\ call'[c].paths = new.paths /\ call'[c] # NoCall
           /\ \A d \in Calls : call'[d].pc # "idle" => call'[d].row # None
           /\ call[c] = NoCall /\ Holds(c) = {}
<1> DEFINE begun == [new EXCEPT !.op = op, !.row = row, !.pc = pc]
<1>1. /\ op \in Ops /\ call[c] = NoCall /\ call \in [Calls -> CallRecords]
      /\ call' = [call EXCEPT ![c] = begun] /\ row # None
      /\ \A d \in Calls : call[d].pc # "idle" => call[d].row # None
  BY DEF Begin, TypeOK
<1>2. /\ begun \in CallRecords /\ begun.op = op /\ begun.pc = pc
      /\ begun.user = new.user /\ begun.row = row
      /\ begun.step = new.step /\ begun.item = new.item /\ begun.paths = new.paths
  BY <1>1 DEF CallRecords
<1> HIDE DEF begun
<1>3. /\ call' \in [Calls -> CallRecords] /\ call'[c] = begun
      /\ \A d \in Calls \ {c} : call'[d] = call[d]
  BY <1>1, <1>2
<1>4. \A d \in Calls : call'[d].pc # "idle" => call'[d].row # None
  BY <1>1, <1>2, <1>3
<1>5. begun # NoCall /\ Holds(c) = {}
  BY <1>1, <1>2, NoCallType DEF Holds, At
<1> QED
  BY <1>1, <1>2, <1>3, <1>4, <1>5

(* What remains to be shown of a call that begins. *)
LEMMA BeginStepOK ==
    ASSUME IInv, NEW c \in Calls, NEW op \in Ops, NEW row \in Rows,
           NEW pc \in {"owner", "refer", "write", "list"}, NEW new \in CallRecords,
           Begin(c, op, row, pc, new),
           files \subseteq files', files' \subseteq Paths,
           uploaded \subseteq uploaded', uploaded' \subseteq Elements,
           \A path \in files' \ files : Accounted(path)',
           op = "element" => new.item \notin uploaded,
           CallOf(c)', FilesOf(c)'
    PROVE  StepOK({c})
<1>0. TypeOK /\ UNCHANGED <<current, opened, provided, message, attachment, feedback, lost>>
  BY DEF IInv, Begin, rows, children
<1>1. /\ call' \in [Calls -> CallRecords]
      /\ \A d \in Calls \ {c} : call'[d] = call[d]
      /\ call'[c].op = op /\ call'[c].item = new.item
      /\ \A d \in Calls : call'[d].pc # "idle" => call'[d].row # None
      /\ Holds(c) = {}
  BY <1>0, BeginFrame
<1>2. TypeOK'
  BY <1>0, <1>1 DEF TypeOK
<1>3. Frame({c})
  BY <1>0, <1>1, QuietFrame DEF IsUpload, Begin
<1>4. RowsInv' /\ HistoryConsistent' /\ AttachmentHasFile'
  BY TablesKept DEF Begin
<1>5. FileAccounted'
  <2>1. lost \subseteq lost' /\ attachment' = attachment
    BY <1>0
  <2>2. \A d \in Calls \ {c} : call'[d] = call[d]
    BY <1>1
  <2>3. \A d \in {c} : \A path \in Holds(d) \cap files' : Accounted(path)'
    BY <1>1
  <2>4. \A path \in files' : RowOf(attachment[path[2]]) = path[1]
           /\ attachment'[path[2]] # attachment[path[2]] => Accounted(path)'
    BY <2>1
  <2>5. {c} \in SUBSET Calls
    OBVIOUS
  <2> QED
    BY <2>1, <2>2, <2>3, <2>4, <2>5, AccountedSuffices
<1> QED
  BY <1>2, <1>3, <1>4, <1>5 DEF StepOK

(* A call other than an upload begins. *)
LEMMA BeginOther ==
    ASSUME IInv, NEW c \in Calls,
           NEW op \in {"step", "unstep", "unelement", "rate", "delete"}, NEW row \in Rows,
           NEW pc \in {"owner", "refer", "write", "list"}, NEW new \in CallRecords,
           Begin(c, op, row, pc, new), new.paths = {}, UNCHANGED <<files, uploaded>>,
           row[2] <= opened[row[1]], pc # "owner" => Owner[row[1]] = new.user,
           op \in {"step", "unstep"} => pc \in {"owner", "write"} /\ new.step \in Steps,
           op = "unelement" => pc \in {"owner", "write"} /\ new.item \in Elements,
           op = "rate" => pc = "refer" /\ new.item \in Feedbacks /\ new.step \in Steps,
           op = "delete" => pc = "list"
    PROVE  StepOK({c})
<1>0. TypeOK /\ UNCHANGED <<current, opened, provided, message, attachment, feedback, lost>>
  BY DEF IInv, Begin, rows, children
<1>4. op \in Ops
  BY DEF Begin
<1>1. /\ call'[c].op = op /\ call'[c].pc = pc
      /\ call'[c].user = new.user /\ call'[c].row = row
      /\ call'[c].step = new.step /\ call'[c].item = new.item
      /\ call'[c].paths = {} /\ call'[c] # NoCall
  BY <1>0, <1>4, BeginFrame
<1>2. CallOf(c)'
  BY <1>0, <1>1 DEF CallOf
<1>3. FilesOf(c)'
  BY <1>1 DEF FilesOf, At, HasListed
<1> QED
  BY <1>0, <1>2, <1>3, <1>4, BeginStepOK DEF TypeOK

(* create_step, update_step and delete_step begin. *)
LEMMA BeginStepStep ==
    ASSUME IInv, NEW c \in Calls, NEW u \in Users, NEW s \in Steps, BeginStep(c, u, s)
    PROVE  StepOK({c})
<1> DEFINE new == [NoCall EXCEPT !.user = u, !.step = s]
<1>1. /\ new \in CallRecords /\ new.user = u /\ new.step = s /\ new.paths = {}
  BY DEF NoCall, CallRecords
<1>2. UNCHANGED <<files, uploaded>>
  BY DEF BeginStep
<1>3. ASSUME NEW t \in Threads, Begin(c, "step", OwnedRow(u, t), "write", new)
      PROVE  StepOK({c})
  <2>1. OwnedRow(u, t) # None
    BY <1>3 DEF Begin
  <2> HIDE DEF new
  <2> QED
    BY <1>1, <1>2, <1>3, <2>1, RowFound, BeginOther
<1>4. CASE Begin(c, "unstep", RowOf(message[s]), "owner", new)
  <2>1. /\ RowOf(message[s]) \in Rows
        /\ RowOf(message[s])[2] <= opened[RowOf(message[s])[1]]
    BY <1>4, Records, RowFound DEF IInv, HistoryConsistent, Begin
  <2> HIDE DEF new
  <2> QED
    BY <1>1, <1>2, <1>4, <2>1, BeginOther
<1> QED
  BY <1>3, <1>4 DEF BeginStep

LEMMA BeginUnelementStep ==
    ASSUME IInv, NEW c \in Calls, NEW u \in Users, NEW e \in Elements,
           BeginUnelement(c, u, e)
    PROVE  StepOK({c})
<1> DEFINE new == [NoCall EXCEPT !.user = u, !.item = e]
<1>1. /\ new \in CallRecords /\ new.user = u /\ new.item = e /\ new.paths = {}
  BY DEF NoCall, CallRecords
<1>2. UNCHANGED <<files, uploaded>>
  BY DEF BeginUnelement
<1>3. ASSUME NEW t \in Threads, Begin(c, "unelement", OwnedRow(u, t), "write", new)
      PROVE  StepOK({c})
  <2>1. OwnedRow(u, t) # None
    BY <1>3 DEF Begin
  <2> HIDE DEF new
  <2> QED
    BY <1>1, <1>2, <1>3, <2>1, RowFound, BeginOther
<1>4. CASE Begin(c, "unelement", RowOf(attachment[e]), "owner", new)
  <2>1. /\ RowOf(attachment[e]) \in Rows
        /\ RowOf(attachment[e])[2] <= opened[RowOf(attachment[e])[1]]
    BY <1>4, Records, RowFound DEF IInv, HistoryConsistent, Begin
  <2> HIDE DEF new
  <2> QED
    BY <1>1, <1>2, <1>4, <2>1, BeginOther
<1> QED
  BY <1>3, <1>4 DEF BeginUnelement

LEMMA BeginRateStep ==
    ASSUME IInv, NEW c \in Calls, NEW u \in Users, NEW s \in Steps,
           NEW f \in Feedbacks, BeginRate(c, u, s, f)
    PROVE  StepOK({c})
<1> DEFINE new == [NoCall EXCEPT !.user = u, !.step = s, !.item = f]
<1>1. /\ new \in CallRecords /\ new.user = u /\ new.step = s /\ new.item = f
      /\ new.paths = {}
  BY DEF NoCall, CallRecords
<1>2. UNCHANGED <<files, uploaded>>
  BY DEF BeginRate
<1>3. PICK t \in Threads : Begin(c, "rate", OwnedRow(u, t), "refer", new)
  BY DEF BeginRate
<1>4. OwnedRow(u, t) # None
  BY <1>3 DEF Begin
<1> HIDE DEF new
<1> QED
  BY <1>1, <1>2, <1>3, <1>4, RowFound, BeginOther

LEMMA BeginDeleteStep ==
    ASSUME IInv, NEW c \in Calls, NEW u \in Users, NEW t \in Threads,
           BeginDelete(c, u, t)
    PROVE  StepOK({c})
<1> DEFINE new == [NoCall EXCEPT !.user = u]
<1>1. new \in CallRecords /\ new.user = u /\ new.paths = {}
  BY DEF NoCall, CallRecords
<1>2. UNCHANGED <<files, uploaded>> /\ Begin(c, "delete", OwnedRow(u, t), "list", new)
  BY DEF BeginDelete
<1>3. OwnedRow(u, t) # None
  BY <1>2 DEF Begin
<1> HIDE DEF new
<1> QED
  BY <1>1, <1>2, <1>3, RowFound, BeginOther

(* An element is sent once, so no other call has its name. *)
LEMMA BeginElementStep ==
    ASSUME IInv, NEW c \in Calls, NEW u \in Users, NEW t \in Threads,
           NEW e \in Elements, BeginElement(c, u, t, e)
    PROVE  StepOK({c})
<1> DEFINE row == OwnedRow(u, t)
           plain == [NoCall EXCEPT !.user = u, !.item = e]
<1>0. /\ e \notin uploaded /\ uploaded' = uploaded \cup {e}
      /\ TypeOK /\ RowsInv /\ \A d \in Calls : FilesOf(d)
  BY DEF BeginElement, IInv, CallInv
<1>1. ASSUME NEW pc \in {"refer", "write"}, NEW new \in CallRecords,
             new.user = u, new.item = e, new.paths = {},
             pc = "refer" => new.step \in Steps,
             Begin(c, "element", row, pc, new),
             \/ pc = "write" /\ CopyFile(row, e)
             \/ pc = "refer" /\ UNCHANGED files
      PROVE  StepOK({c})
  <2>1. row \in Rows /\ Owner[row[1]] = u /\ row[2] <= opened[row[1]] /\ "element" \in Ops
    BY <1>1, RowFound DEF Begin
  <2> HIDE DEF row
  <2>2. /\ \A d \in Calls \ {c} : call'[d] = call[d]
        /\ call'[c].op = "element" /\ call'[c].pc = pc
        /\ call'[c].user = u /\ call'[c].row = row
        /\ call'[c].step = new.step /\ call'[c].item = e
        /\ call'[c].paths = {} /\ call'[c] # NoCall /\ call[c] = NoCall
    BY <1>0, <1>1, <2>1, BeginFrame
  <2>3. UNCHANGED <<current, opened, provided, message, attachment, feedback, lost>>
    BY <1>1 DEF Begin, rows, children
  <2>4. CallOf(c)'
    BY <1>1, <2>1, <2>2, <2>3 DEF CallOf
  <2>5. \A d \in Calls : IsUpload(d, e)' => d = c
    BY <1>0, <2>2 DEF FilesOf, IsUpload
  <2>6. FilesOf(c)'
    BY <1>0, <1>1, <2>2, <2>3, <2>5 DEF FilesOf, At, HasListed, RowsInv, CopyFile
  <2>7. ASSUME NEW path \in files' \ files
        PROVE  Accounted(path)'
    <3>1. path \in Holds(c)'
      BY <1>1, <2>2, <2>7 DEF CopyFile, Holds, At
    <3> QED
      BY <3>1 DEF Accounted
  <2>8. files' \subseteq Paths /\ files \subseteq files'
    BY <1>0, <1>1, <2>1, RowParts DEF TypeOK, CopyFile
  <2>9. uploaded' \subseteq Elements
    BY <1>0 DEF TypeOK
  <2> QED
    BY <1>0, <1>1, <2>1, <2>4, <2>6, <2>7, <2>8, <2>9, BeginStepOK
<1>2. CASE Begin(c, "element", row, "write", plain) /\ CopyFile(row, e)
  <2>1. plain \in CallRecords /\ plain.user = u /\ plain.item = e /\ plain.paths = {}
    BY DEF NoCall, CallRecords
  <2> HIDE DEF plain, row
  <2> QED
    BY <1>1, <1>2, <2>1
<1>3. ASSUME NEW s \in Steps, Begin(c, "element", row, "refer", [plain EXCEPT !.step = s]),
             UNCHANGED files
      PROVE  StepOK({c})
  <2> DEFINE new == [plain EXCEPT !.step = s]
  <2>1. /\ new \in CallRecords /\ new.user = u /\ new.item = e /\ new.paths = {}
        /\ new.step = s
    BY DEF NoCall, CallRecords
  <2>2. Begin(c, "element", row, "refer", new)
    BY <1>3
  <2> HIDE DEF new, row
  <2> QED
    BY <1>1, <1>3, <2>1, <2>2
<1> QED
  BY <1>2, <1>3 DEF BeginElement

(* A call goes on with another step id, and may copy its file. *)
LEMMA CheckMessageStep ==
    ASSUME IInv, NEW c \in Calls, CheckMessage(c)
    PROVE  StepOK({c})
<1> DEFINE k == call[c]
           row == RowOf(message[k.step])
           step == IF row = None THEN None ELSE k.step
<1>0. /\ TypeOK /\ CallOf(c) /\ FilesOf(c) /\ k.pc = "refer"
      /\ UNCHANGED <<current, opened, provided, message, attachment, feedback,
                     uploaded, lost>>
  BY DEF IInv, CallInv, CheckMessage, rows, children
<1>1. /\ Holds(c) = {} /\ k.op \in {"element", "rate"} /\ k.row \in Rows
      /\ k.op = "element" => k.item \in Elements
      /\ k.step \in Steps /\ k \in CallRecords
  <2>1. k.op \in {"none", "step", "unstep", "element", "unelement", "rate",
                  "unrate", "delete"}
    BY <1>0, HistoryAssumption DEF TypeOK, CallRecords
  <2> QED
    BY <1>0, <2>1 DEF CallOf, Holds, At, TypeOK
<1>2. CASE End(c) /\ UNCHANGED files
  BY <1>0, <1>1, <1>2, EndStep DEF CheckMessage, TypeOK
<1>3. ASSUME call' = [call EXCEPT ![c].step = step, ![c].pc = "write"],
             \/ k.op = "element" /\ CopyFile(k.row, k.item)
             \/ k.op = "rate" /\ UNCHANGED files
      PROVE  StepOK({c})
  <2> DEFINE new == [k EXCEPT !.step = step, !.pc = "write"]
  <2>1. /\ new \in CallRecords /\ new.op = k.op /\ new.pc = "write"
        /\ new.user = k.user /\ new.row = k.row /\ new.item = k.item
        /\ new.paths = k.paths
    BY <1>1 DEF CallRecords
  <2>2. call' = [call EXCEPT ![c] = new]
    BY <1>0, <1>3 DEF TypeOK
  <2> HIDE DEF new
  <2>3. /\ call' \in [Calls -> CallRecords] /\ call'[c] = new
        /\ \A d \in Calls \ {c} : call'[d] = call[d]
    BY <1>0, <2>1, <2>2 DEF TypeOK
  <2>4. \A d \in Calls : call'[d].pc # "idle" => call'[d].row # None
    <3>1. \A d \in Calls : call[d].pc # "idle" => call[d].row # None
      BY <1>0 DEF TypeOK
    <3> QED
      BY <1>0, <2>1, <2>3, <3>1
  <2>5. files \subseteq files' /\ files' \subseteq Paths
    BY <1>0, <1>1, <1>3, RowParts DEF CopyFile, TypeOK
  <2>6. TypeOK'
    BY <1>0, <2>3, <2>4, <2>5 DEF TypeOK
  <2>7. \A d \in Calls, e \in Elements : IsUpload(d, e)' <=> IsUpload(d, e)
    BY <2>1, <2>3 DEF IsUpload
  <2>8. Frame({c})
    BY <1>0, <2>3, <2>5, <2>7, QuietFrame DEF CheckMessage
  <2>9. RowsInv' /\ HistoryConsistent' /\ AttachmentHasFile'
    BY <1>0, <2>5, TablesKept DEF CheckMessage
  <2>10. FileAccounted'
    <3>1. ASSUME NEW path \in files' \ files
          PROVE  Accounted(path)'
      <4>1. path \in Holds(c)'
        BY <1>3, <2>1, <2>3, <3>1 DEF CopyFile, Holds, At
      <4> QED
        BY <4>1 DEF Accounted
    <3>2. {c} \in SUBSET Calls /\ \A d \in {c} : Holds(d) = {}
      BY <1>1
    <3>3. lost \subseteq lost' /\ attachment' = attachment
      BY <1>0
    <3> QED
      BY <2>3, <2>5, <3>1, <3>2, <3>3, AccountedSuffices
  <2>11. CallOf(c)'
    BY <1>0, <1>1, <2>1, <2>3, NoCallType DEF CallOf
  <2>12. FilesOf(c)'
    <3>1. k.op = "element" => <<k.row, k.item>> \in files'
      BY <1>3 DEF CopyFile
    <3> QED
      BY <1>0, <1>1, <2>1, <2>3, <2>7, <3>1 DEF FilesOf, At, HasListed, IsUpload
  <2> QED
    BY <2>6, <2>8, <2>9, <2>10, <2>11, <2>12 DEF StepOK
<1>4. \/ End(c) /\ UNCHANGED files
      \/ /\ call' = [call EXCEPT ![c].step = step, ![c].pc = "write"]
         /\ \/ k.op = "element" /\ CopyFile(k.row, k.item)
            \/ k.op = "rate" /\ UNCHANGED files
  BY <1>1 DEF CheckMessage
<1> QED
  BY <1>2, <1>3, <1>4

(* A record is written under a row that is there, and keeps its row. *)
LEMMA WriteStepStep ==
    ASSUME IInv, NEW c \in Calls, WriteStep(c)
    PROVE  StepOK({c})
<1> DEFINE s == call[c].step
           row == call[c].row
<1>0. /\ TypeOK /\ CallOf(c) /\ At(c, "step", "write") /\ HistoryConsistent
  BY DEF IInv, CallInv, WriteStep
<1>1. s \in Steps /\ row \in Rows /\ row # None /\ call[c] \in CallRecords
  BY <1>0, RowParts DEF CallOf, At, TypeOK
<1>2. CASE WriteFails(c)
  BY <1>0, <1>2, WriteFailsStep DEF At
<1>3. ASSUME Live(row), OwnMessage(s, row), End(c),
             message' = [message EXCEPT ![s] = [row |-> IF @ = None THEN row ELSE @.row,
                                                by |-> call[c].user]],
             UNCHANGED <<rows, attachment, feedback, disk>>
      PROVE  StepOK({c})
  <2>0. UNCHANGED <<current, opened, provided, attachment, feedback, files, uploaded, lost>>
    BY <1>3 DEF rows, disk
  <2>1. /\ call' \in [Calls -> CallRecords] /\ call'[c] = NoCall
        /\ \A d \in Calls \ {c} : call'[d] = call[d]
        /\ \A d \in Calls : call'[d].pc # "idle" => call'[d].row # None
        /\ CallOf(c)' /\ FilesOf(c)'
    BY <1>0, <1>3, EndFrame
  <2>2. call[c].user \in Users
    BY <1>0, <1>1, HistoryAssumption, RowParts DEF CallOf, At
  <2>3. message' = [message EXCEPT ![s] = [row |-> row, by |-> call[c].user]]
    BY <1>0, <1>1, <1>3, Records DEF OwnMessage
  <2>4. /\ message' \in [Steps -> MessageRows \cup {None}]
        /\ RowOf(message'[s]) = row /\ message'[s] # None
        /\ \A r \in Steps \ {s} : message'[r] = message[r]
    BY <1>0, <1>1, <2>2, <2>3, NoneAssumption DEF TypeOK, MessageRows, RowOf
  <2>5. TypeOK'
    BY <1>0, <2>0, <2>1, <2>4 DEF TypeOK
  <2>6. Frame({c})
    <3>1. \A e \in Elements : ~IsUpload(c, e)'
      BY <2>1, NoCallType DEF IsUpload
    <3>2. \A t \in Threads : opened[t] <= opened'[t]
      BY <1>0, <2>0 DEF TypeOK
    <3> QED
      BY <2>0, <2>1, <3>1, <3>2 DEF Frame, Live
  <2>7. HistoryConsistent'
    <3>1. \A r \in Steps : RowOf(message[r]) \in Rows => RowOf(message'[r]) = RowOf(message[r])
      BY <1>1, <1>3, <2>4, RowParts DEF OwnMessage
    <3>2. ASSUME NEW record \in ChildRows, Belongs(current, message, record)
          PROVE  Belongs(current', message', record)
      <4>1. record.row \in Rows /\ record.step \in Steps \cup {None}
        BY DEF ChildRows
      <4> QED
        BY <2>0, <3>1, <3>2, <4>1 DEF Belongs
    <3>3. \A r \in Steps : message'[r] # None =>
             current'[message'[r].row[1]] = message'[r].row[2]
      <4>1. message'[s].row = row
        BY <2>4 DEF RowOf
      <4> QED
        BY <1>0, <1>3, <2>0, <2>4, <4>1, HistoryParts DEF Live
    <3> QED
      BY <1>0, <2>0, <3>2, <3>3, HistoryParts, Records
  <2>8. RowsInv' /\ AttachmentHasFile'
    BY <2>0 DEF IInv, RowsInv, AttachmentHasFile
  <2>9. FileAccounted'
    <3>1. {c} \in SUBSET Calls /\ Holds(c) = {} /\ files' \subseteq Paths
          /\ lost \subseteq lost' /\ files' \ files = {} /\ attachment' = attachment
      BY <1>0, <2>0 DEF Holds, At, TypeOK
    <3> QED
      BY <2>1, <3>1, AccountedSuffices
  <2> QED
    BY <2>1, <2>5, <2>6, <2>7, <2>8, <2>9 DEF StepOK
<1> QED
  BY <1>2, <1>3 DEF WriteStep

(* The message goes with its attachments, whose files are left behind, and *)
(* nothing refers to it any longer.                                        *)
LEMMA WriteUnstepStep ==
    ASSUME IInv, NEW c \in Calls, WriteUnstep(c)
    PROVE  StepOK({c})
<1> DEFINE s == call[c].step
           taken == {e \in Elements : attachment[e] # None /\ attachment[e].step = s}
<1>0. /\ TypeOK /\ CallOf(c) /\ At(c, "unstep", "write") /\ HistoryConsistent
      /\ RowsInv /\ AttachmentHasFile
  BY DEF IInv, CallInv, WriteUnstep
<1>1. s \in Steps
  BY <1>0 DEF CallOf, At
<1>2. CASE WriteFails(c)
  BY <1>0, <1>2, WriteFailsStep DEF At
<1>3. ASSUME message' = [message EXCEPT ![s] = None],
             attachment' = [e \in Elements |-> IF e \in taken THEN None ELSE attachment[e]],
             feedback' = Unreferenced(s),
             lost' = lost \cup {<<attachment[e].row, e>> : e \in taken},
             End(c), UNCHANGED <<rows, files, uploaded>>
      PROVE  StepOK({c})
  <2>0. UNCHANGED <<current, opened, provided, files, uploaded>>
    BY <1>3 DEF rows
  <2>1. /\ call' \in [Calls -> CallRecords] /\ call'[c] = NoCall
        /\ \A d \in Calls \ {c} : call'[d] = call[d]
        /\ \A d \in Calls : call'[d].pc # "idle" => call'[d].row # None
        /\ CallOf(c)' /\ FilesOf(c)'
    BY <1>0, <1>3, EndFrame
  <2>2. /\ message' \in [Steps -> MessageRows \cup {None}] /\ message'[s] = None
        /\ \A r \in Steps \ {s} : message'[r] = message[r]
    BY <1>0, <1>1, <1>3 DEF TypeOK
  <2>3. /\ attachment' \in [Elements -> ChildRows \cup {None}]
        /\ \A e \in Elements :
              /\ attachment'[e] \in {attachment[e], None}
              /\ attachment'[e] # None => attachment[e].step # s
              /\ attachment'[e] # attachment[e] =>
                    <<attachment[e].row, e>> \in lost'
    BY <1>0, <1>3 DEF TypeOK
  <2>4. ASSUME NEW f \in Feedbacks
        PROVE  /\ feedback'[f] \in ChildRows \cup {None}
               /\ feedback'[f] = None <=> feedback[f] = None
               /\ feedback[f] # None =>
                     /\ feedback'[f].row = feedback[f].row
                     /\ feedback'[f].step \in {feedback[f].step, None}
                     /\ feedback'[f].step # s
    <3>1. feedback[f] \in ChildRows \cup {None} /\ None \notin ChildRows /\ None # s
      BY <1>0, <1>1, NoneAssumption, HistoryAssumption DEF TypeOK
    <3>2. feedback'[f] = IF feedback[f] # None /\ feedback[f].step = s
                         THEN [feedback[f] EXCEPT !.step = None] ELSE feedback[f]
      BY <1>3 DEF Unreferenced
    <3> QED
      BY <3>1, <3>2 DEF ChildRows
  <2>5. feedback' \in [Feedbacks -> ChildRows \cup {None}]
    BY <1>3, <2>4 DEF Unreferenced
  <2>6. lost' \subseteq Paths
    <3>1. \A e \in Elements : attachment[e] # None => <<attachment[e].row, e>> \in Paths
      BY <1>0, Records, RowParts
    <3> QED
      BY <1>0, <1>3, <3>1 DEF TypeOK
  <2>7. TypeOK'
    BY <1>0, <2>0, <2>1, <2>2, <2>3, <2>5, <2>6 DEF TypeOK
  <2>8. Frame({c})
    <3>1. \A e \in Elements : ~IsUpload(c, e)'
      BY <2>1, NoCallType DEF IsUpload
    <3>2. \A t \in Threads : opened[t] <= opened'[t]
      BY <1>0, <2>0 DEF TypeOK
    <3>3. lost \subseteq lost' /\ files \ files' = {}
      BY <1>3, <2>0
    <3> QED
      BY <2>0, <2>1, <2>3, <3>1, <3>2, <3>3 DEF Frame, Live
  <2>9. HistoryConsistent'
    <3>1. ASSUME NEW record \in ChildRows, Belongs(current, message, record), record.step # s
          PROVE  Belongs(current', message', record)
      <4>1. record.step \in Steps \cup {None}
        BY DEF ChildRows
      <4> QED
        BY <2>0, <2>2, <3>1, <4>1 DEF Belongs
    <3>2. \A e \in Elements : attachment'[e] # None =>
             Belongs(current', message', attachment'[e])
      BY <1>0, <2>3, <3>1, HistoryParts, Records
    <3>3. ASSUME NEW f \in Feedbacks, feedback'[f] # None
          PROVE  Belongs(current', message', feedback'[f])
      <4>1. Belongs(current, message, feedback[f])
        BY <1>0, <2>4, <3>3, HistoryParts
      <4>2. Belongs(current, message, feedback'[f])
        BY <2>4, <3>3, <4>1 DEF Belongs
      <4> QED
        BY <2>4, <3>1, <3>3, <4>2
    <3> QED
      BY <1>0, <2>0, <2>2, <3>2, <3>3, HistoryParts
  <2>10. RowsInv' /\ AttachmentHasFile'
    BY <1>0, <2>0, <2>3 DEF RowsInv, AttachmentHasFile
  <2>11. FileAccounted'
    <3>1. /\ {c} \in SUBSET Calls /\ Holds(c) = {} /\ files' \subseteq Paths
          /\ lost \subseteq lost' /\ files' \ files = {}
      BY <1>0, <1>3, <2>0 DEF Holds, At, TypeOK
    <3>2. ASSUME NEW path \in files', RowOf(attachment[path[2]]) = path[1],
                 attachment'[path[2]] # attachment[path[2]]
          PROVE  Accounted(path)'
      <4>1. path[1] \in Rows /\ path[2] \in Elements /\ path = <<path[1], path[2]>>
        BY <3>1, RowParts
      <4>2. attachment[path[2]].row = path[1]
        BY <1>0, <3>2, <4>1, RowParts, Records
      <4> QED
        BY <2>3, <3>2, <4>1, <4>2 DEF Accounted
    <3> QED
      BY <2>1, <3>1, <3>2, AccountedSuffices
  <2> QED
    BY <2>1, <2>7, <2>8, <2>9, <2>10, <2>11 DEF StepOK
<1> QED
  BY <1>2, <1>3 DEF WriteUnstep

(* Only the call that uploads an element records it, under a row that is   *)
(* there; a deletion that has listed the row leaves the file behind.       *)
LEMMA WriteElementStep ==
    ASSUME IInv, NEW c \in Calls, WriteElement(c)
    PROVE  StepOK({c})
<1> DEFINE e == call[c].item
           row == call[c].row
           new == [row |-> row, step |-> call[c].step]
<1>0. /\ TypeOK /\ CallOf(c) /\ FilesOf(c) /\ At(c, "element", "write")
      /\ HistoryConsistent /\ RowsInv /\ AttachmentHasFile
  BY DEF IInv, CallInv, WriteElement
<1>1. /\ e \in Elements /\ e \in uploaded /\ attachment[e] = None
      /\ row \in Rows /\ <<row, e>> \in files /\ <<row, e>> \in Paths
      /\ call[c].step \in Steps \cup {None}
  BY <1>0, RowParts DEF CallOf, FilesOf, At, TypeOK, CallRecords
<1>2. CASE WriteFails(c)
  BY <1>0, <1>2, WriteFailsStep DEF At
<1>3. ASSUME Live(row), InRow(call[c].step, row), End(c),
             attachment' = [attachment EXCEPT ![e] = new],
             lost' = IF \E d \in Calls : HasListed(d, row)
                     THEN lost \cup {<<row, e>>} ELSE lost,
             UNCHANGED <<rows, message, feedback, files, uploaded>>
      PROVE  StepOK({c})
  <2>0. UNCHANGED <<current, opened, provided, message, feedback, files, uploaded>>
    BY <1>3 DEF rows
  <2>1. /\ call' \in [Calls -> CallRecords] /\ call'[c] = NoCall
        /\ \A d \in Calls \ {c} : call'[d] = call[d]
        /\ \A d \in Calls : call'[d].pc # "idle" => call'[d].row # None
        /\ CallOf(c)' /\ FilesOf(c)'
    BY <1>0, <1>3, EndFrame
  <2>2. /\ new \in ChildRows /\ new # None /\ RowOf(new) = row
        /\ new.row = row /\ new.step = call[c].step
    BY <1>1, NoneAssumption DEF ChildRows, RowOf
  <2> HIDE DEF new
  <2>3. /\ attachment' \in [Elements -> ChildRows \cup {None}] /\ attachment'[e] = new
        /\ \A g \in Elements \ {e} : attachment'[g] = attachment[g]
    BY <1>0, <1>1, <1>3, <2>2 DEF TypeOK
  <2>4. lost \subseteq lost' /\ lost' \subseteq Paths
    BY <1>0, <1>1, <1>3 DEF TypeOK
  <2>5. TypeOK'
    BY <1>0, <2>0, <2>1, <2>3, <2>4 DEF TypeOK
  <2>6. Frame({c})
    <3>1. \A g \in Elements : ~IsUpload(c, g)'
      BY <2>1, NoCallType DEF IsUpload
    <3>2. \A t \in Threads : opened[t] <= opened'[t]
      BY <1>0, <2>0 DEF TypeOK
    <3>3. /\ IsUpload(c, e) /\ RowOf(attachment'[e]) = row
          /\ \A d \in Calls : HasListed(d, row) => <<row, e>> \in lost'
      BY <1>0, <1>3, <2>2, <2>3 DEF IsUpload, At
    <3>4. files \ files' = {}
      BY <2>0
    <3> QED
      BY <2>0, <2>1, <2>3, <2>4, <3>1, <3>2, <3>3, <3>4 DEF Frame, Live
  <2>7. HistoryConsistent'
    <3>1. Belongs(current, message, new)
      BY <1>1, <1>3, <2>2 DEF Belongs, Live, InRow
    <3>2. \A g \in Elements : attachment'[g] # None =>
             Belongs(current', message', attachment'[g])
      BY <1>0, <2>0, <2>3, <3>1, HistoryParts
    <3> QED
      BY <1>0, <2>0, <3>2, HistoryParts
  <2>8. RowsInv' /\ AttachmentHasFile'
    <3>1. RowsInv'
      BY <1>0, <1>1, <2>0, <2>3 DEF RowsInv
    <3>2. \A g \in Elements : attachment'[g] # None => <<attachment'[g].row, g>> \in files
      BY <1>0, <1>1, <2>2, <2>3 DEF AttachmentHasFile
    <3> QED
      BY <2>0, <3>1, <3>2 DEF AttachmentHasFile
  <2>9. FileAccounted'
    <3>1. /\ {c} \in SUBSET Calls /\ files' \subseteq Paths /\ files' \ files = {}
          /\ Holds(c) = {<<row, e>>}
      BY <1>0, <2>0 DEF Holds, At, TypeOK
    <3>3. \A d \in {c} : \A path \in Holds(d) \cap files' : Accounted(path)'
      BY <2>2, <2>3, <3>1 DEF Accounted
    <3>4. \A path \in files' : ~(/\ RowOf(attachment[path[2]]) = path[1]
                                 /\ attachment'[path[2]] # attachment[path[2]])
      <4>1. \A path \in files' : path[1] # None /\ path[2] \in Elements
        BY <3>1, RowParts
      <4> QED
        BY <1>1, <2>3, <4>1 DEF RowOf
    <3> QED
      BY <2>1, <2>4, <3>1, <3>3, <3>4, AccountedSuffices
  <2> QED
    BY <2>1, <2>5, <2>6, <2>7, <2>8, <2>9 DEF StepOK
<1> QED
  BY <1>2, <1>3 DEF WriteElement

(* The record goes before its file, whose name the call keeps. *)
LEMMA WriteUnelementStep ==
    ASSUME IInv, NEW c \in Calls, WriteUnelement(c)
    PROVE  StepOK({c})
<1> DEFINE e == call[c].item
           row == call[c].row
           new == [call[c] EXCEPT !.pc = "unlink", !.paths = {<<row, e>>}]
<1>0. /\ TypeOK /\ CallOf(c) /\ FilesOf(c) /\ At(c, "unelement", "write")
      /\ HistoryConsistent /\ RowsInv /\ AttachmentHasFile
      /\ \A d \in Calls : FilesOf(d)
      /\ UNCHANGED <<current, opened, provided, message, feedback, files, uploaded, lost>>
  BY DEF IInv, CallInv, WriteUnelement, rows, disk
<1>1. /\ e \in Elements /\ row \in Rows /\ <<row, e>> \in Paths
      /\ call[c] \in CallRecords /\ Holds(c) = {}
  BY <1>0, RowParts DEF CallOf, At, TypeOK, Holds
<1>2. CASE End(c) /\ UNCHANGED attachment
  BY <1>0, <1>1, <1>2, EndStep DEF TypeOK, rows, children
<1>3. ASSUME RowOf(attachment[e]) = row, attachment' = [attachment EXCEPT ![e] = None],
             call' = [call EXCEPT ![c].pc = "unlink", ![c].paths = {<<row, e>>}]
      PROVE  StepOK({c})
  <2>1. /\ new \in CallRecords /\ new.op = "unelement" /\ new.pc = "unlink"
        /\ new.user = call[c].user /\ new.row = row /\ new.item = e
        /\ new.paths = {<<row, e>>}
    BY <1>0, <1>1 DEF CallRecords, At
  <2>2. call' = [call EXCEPT ![c] = new]
    BY <1>0, <1>3 DEF TypeOK
  <2> HIDE DEF new
  <2>3. /\ call' \in [Calls -> CallRecords] /\ call'[c] = new
        /\ \A d \in Calls \ {c} : call'[d] = call[d]
    BY <1>0, <2>1, <2>2 DEF TypeOK
  <2>4. \A d \in Calls : call'[d].pc # "idle" => call'[d].row # None
    <3>1. \A d \in Calls : call[d].pc # "idle" => call[d].row # None
      BY <1>0 DEF TypeOK
    <3> QED
      BY <1>1, <2>1, <2>3, <3>1, RowParts
  <2>5. /\ attachment' \in [Elements -> ChildRows \cup {None}] /\ attachment'[e] = None
        /\ \A g \in Elements \ {e} : attachment'[g] = attachment[g]
    BY <1>0, <1>1, <1>3 DEF TypeOK
  <2>6. TypeOK'
    BY <1>0, <2>3, <2>4, <2>5 DEF TypeOK
  <2>7. \A d \in Calls, g \in Elements : IsUpload(d, g)' <=> IsUpload(d, g)
    BY <1>0, <2>1, <2>3 DEF IsUpload, At
  <2>8. Frame({c})
    <3>1. \A t \in Threads : opened[t] <= opened'[t]
      BY <1>0 DEF TypeOK
    <3>2. files \ files' = {}
      BY <1>0
    <3> QED
      BY <1>0, <2>3, <2>5, <2>7, <3>1, <3>2 DEF Frame, Live
  <2>9. CallOf(c)'
    BY <1>0, <1>1, <2>1, <2>3, NoCallType DEF CallOf, At
  <2>10. FilesOf(c)'
    <3>1. attachment[e] # None
      BY <1>1, <1>3, RowParts DEF RowOf
    <3>2. \A d \in Calls : ~IsUpload(d, e)
      BY <1>0, <3>1 DEF FilesOf, IsUpload
    <3>3. e \in uploaded
      BY <1>0, <1>1, <3>1 DEF RowsInv
    <3>4. ASSUME NEW path \in {<<row, e>>}
          PROVE  /\ path[1] = row /\ path[2] \in uploaded'
                 /\ \A d \in Calls : ~IsUpload(d, path[2])'
                 /\ attachment'[path[2]] = None
      BY <1>0, <1>1, <2>5, <2>7, <3>2, <3>3 DEF IsUpload
    <3> QED
      BY <2>1, <2>3, <3>4 DEF FilesOf, At, HasListed, RowOf
  <2>11. HistoryConsistent'
    <3>1. \A g \in Elements : attachment'[g] # None =>
             Belongs(current', message', attachment'[g])
      BY <1>0, <2>5, HistoryParts
    <3> QED
      BY <1>0, <3>1, HistoryParts
  <2>12. RowsInv' /\ AttachmentHasFile'
    <3>1. RowsInv'
      BY <1>0, <2>5 DEF RowsInv
    <3>2. \A g \in Elements : attachment'[g] # None => <<attachment'[g].row, g>> \in files
      BY <1>0, <2>5 DEF AttachmentHasFile
    <3> QED
      BY <1>0, <3>1, <3>2 DEF AttachmentHasFile
  <2>13. FileAccounted'
    <3>1. /\ {c} \in SUBSET Calls /\ files' \subseteq Paths /\ files' \ files = {}
          /\ lost \subseteq lost' /\ \A d \in {c} : Holds(d) = {}
      BY <1>0, <1>1 DEF TypeOK
    <3>2. ASSUME NEW path \in files', RowOf(attachment[path[2]]) = path[1],
                 attachment'[path[2]] # attachment[path[2]]
          PROVE  Accounted(path)'
      <4>1. path = <<row, e>>
        BY <1>3, <2>5, <3>1, <3>2, RowParts
      <4>2. path \in Holds(c)'
        BY <2>1, <2>3, <4>1 DEF Holds
      <4> QED
        BY <4>2 DEF Accounted
    <3> QED
      BY <2>3, <3>1, <3>2, AccountedSuffices
  <2> QED
    BY <2>3, <2>6, <2>8, <2>9, <2>10, <2>11, <2>12, <2>13 DEF StepOK
<1> QED
  BY <1>2, <1>3 DEF WriteUnelement

(* A step that touches the feedback alone. *)
LEMMA FeedbackStep ==
    ASSUME IInv, NEW C \in SUBSET Calls, NEW f \in Feedbacks, NEW new \in ChildRows \cup {None},
           feedback' = [feedback EXCEPT ![f] = new],
           new # None => Belongs(current, message, new),
           UNCHANGED <<rows, message, attachment, disk>>,
           call' \in [Calls -> CallRecords],
           \A d \in Calls : call'[d].pc # "idle" => call'[d].row # None,
           \A d \in Calls \ C : call'[d] = call[d],
           \A c \in C : /\ CallOf(c)' /\ FilesOf(c)' /\ Holds(c) = {}
                        /\ \A e \in Elements : ~IsUpload(c, e)'
    PROVE  StepOK(C)
<1>0. /\ TypeOK /\ HistoryConsistent /\ RowsInv /\ AttachmentHasFile
      /\ UNCHANGED <<current, opened, provided, message, attachment, files, uploaded, lost>>
  BY DEF IInv, rows, disk
<1>1. /\ feedback' \in [Feedbacks -> ChildRows \cup {None}] /\ feedback'[f] = new
      /\ \A g \in Feedbacks \ {f} : feedback'[g] = feedback[g]
  BY <1>0 DEF TypeOK
<1>2. TypeOK'
  BY <1>0, <1>1 DEF TypeOK
<1>3. Frame(C)
  <2>1. \A t \in Threads : opened[t] <= opened'[t]
    BY <1>0 DEF TypeOK
  <2>2. files \ files' = {}
    BY <1>0
  <2> QED
    BY <1>0, <2>1, <2>2 DEF Frame, Live
<1>4. HistoryConsistent'
  <2>1. \A g \in Feedbacks : feedback'[g] # None =>
           Belongs(current', message', feedback'[g])
    BY <1>0, <1>1, HistoryParts
  <2> QED
    BY <1>0, <2>1, HistoryParts
<1>5. RowsInv' /\ AttachmentHasFile'
  BY <1>0 DEF RowsInv, AttachmentHasFile
<1>6. FileAccounted'
  <2>1. files' \subseteq Paths /\ files' \ files = {} /\ lost \subseteq lost'
    BY <1>0 DEF TypeOK
  <2> QED
    BY <1>0, <2>1, AccountedSuffices
<1> QED
  BY <1>2, <1>3, <1>4, <1>5, <1>6 DEF StepOK

LEMMA UnrateStep ==
    ASSUME IInv, NEW u \in Users, NEW f \in Feedbacks, Unrate(u, f)
    PROVE  StepOK({})
<1>1. /\ feedback' = [feedback EXCEPT ![f] = None] /\ call' = call
      /\ UNCHANGED <<rows, message, attachment, disk>>
  BY DEF Unrate
<1>2. /\ call \in [Calls -> CallRecords]
      /\ \A d \in Calls : call[d].pc # "idle" => call[d].row # None
  BY DEF IInv, TypeOK
<1> QED
  BY <1>1, <1>2, FeedbackStep

LEMMA WriteRateStep ==
    ASSUME IInv, NEW c \in Calls, WriteRate(c)
    PROVE  StepOK({c})
<1> DEFINE f == call[c].item
           row == call[c].row
           new == [row |-> row, step |-> call[c].step]
<1>0. /\ TypeOK /\ CallOf(c) /\ At(c, "rate", "write")
  BY DEF IInv, CallInv, WriteRate
<1>1. /\ f \in Feedbacks /\ row \in Rows /\ call[c].step \in Steps \cup {None}
      /\ Holds(c) = {}
  BY <1>0 DEF CallOf, At, TypeOK, CallRecords, Holds
<1>2. CASE WriteFails(c)
  BY <1>0, <1>2, WriteFailsStep DEF At
<1>3. ASSUME Live(row), InRow(call[c].step, row), End(c),
             feedback' = [feedback EXCEPT ![f] = new],
             UNCHANGED <<rows, message, attachment, disk>>
      PROVE  StepOK({c})
  <2>1. /\ call' \in [Calls -> CallRecords] /\ call'[c] = NoCall
        /\ \A d \in Calls \ {c} : call'[d] = call[d]
        /\ \A d \in Calls : call'[d].pc # "idle" => call'[d].row # None
        /\ CallOf(c)' /\ FilesOf(c)'
    BY <1>0, <1>3, EndFrame
  <2>2. new \in ChildRows /\ Belongs(current, message, new)
    BY <1>1, <1>3 DEF ChildRows, Belongs, Live, InRow
  <2>3. \A e \in Elements : ~IsUpload(c, e)'
    BY <2>1, NoCallType DEF IsUpload
  <2> HIDE DEF new, f
  <2> QED
    BY <1>1, <1>3, <2>1, <2>2, <2>3, FeedbackStep
<1> QED
  BY <1>2, <1>3 DEF WriteRate

LEMMA WriteStepOK ==
    ASSUME IInv, NEW c \in Calls, Write(c)
    PROVE  StepOK({c})
BY WriteStepStep, WriteUnstepStep, WriteElementStep, WriteUnelementStep,
   WriteRateStep, WriteFailsStep DEF Write

LEMMA RowPaths ==
    ASSUME NEW row \in Rows
    PROVE  PathsOf(row) \subseteq Paths
BY DEF PathsOf, Paths

(* A deletion whose page was not full knows all the files but the lost. *)
LEMMA ListStep ==
    ASSUME IInv, NEW c \in Calls, ListAttachments(c)
    PROVE  StepOK({c})
<1> DEFINE row == call[c].row
           all == PathsOf(row)
<1>0. /\ TypeOK /\ CallOf(c) /\ FilesOf(c) /\ At(c, "delete", "list")
      /\ RowsInv /\ \A d \in Calls : FilesOf(d)
      /\ UNCHANGED <<current, opened, provided, message, attachment, feedback,
                     files, uploaded, lost>>
  BY DEF IInv, CallInv, ListAttachments, rows, children, disk
<1>1. /\ row \in Rows /\ row # None /\ call[c] \in CallRecords /\ Holds(c) = {}
  BY <1>0, RowParts DEF CallOf, At, TypeOK, Holds
<1>2. all \subseteq Paths
  BY <1>1, RowPaths
<1>3. PICK page \in Pages(all) :
         call' = [call EXCEPT ![c].paths = page, ![c].pc = "provider"]
  BY DEF ListAttachments
<1>4. page \subseteq all /\ (page = all \/ Cardinality(page) = PageSize)
  BY DEF Pages
<1>5. lost \subseteq lost' /\ lost' \subseteq Paths
  BY <1>0 DEF TypeOK
<1> DEFINE new == [call[c] EXCEPT !.paths = page, !.pc = "provider"]
<1>6. /\ new \in CallRecords /\ new.op = "delete" /\ new.pc = "provider"
      /\ new.user = call[c].user /\ new.row = row /\ new.item = call[c].item
      /\ new.step = call[c].step /\ new.paths = page
  BY <1>0, <1>1, <1>2, <1>4 DEF CallRecords, At
<1>7. call' = [call EXCEPT ![c] = new]
  BY <1>0, <1>3 DEF TypeOK
<1> HIDE DEF new
<1>8. /\ call' \in [Calls -> CallRecords] /\ call'[c] = new
      /\ \A d \in Calls \ {c} : call'[d] = call[d]
  BY <1>0, <1>6, <1>7 DEF TypeOK
<1>9. \A d \in Calls : call'[d].pc # "idle" => call'[d].row # None
  <2>1. \A d \in Calls : call[d].pc # "idle" => call[d].row # None
    BY <1>0 DEF TypeOK
  <2> QED
    BY <1>1, <1>6, <1>8, <2>1
<1>10. TypeOK'
  BY <1>0, <1>5, <1>8, <1>9 DEF TypeOK
<1>11. \A d \in Calls, e \in Elements : IsUpload(d, e)' <=> IsUpload(d, e)
  BY <1>0, <1>6, <1>8 DEF IsUpload, At
<1>12. Frame({c})
  BY <1>0, <1>5, <1>8, <1>11, QuietFrame DEF rows, children
<1>13. RowsInv' /\ HistoryConsistent' /\ AttachmentHasFile'
  BY <1>0, TablesKept DEF rows, children
<1>14. FileAccounted'
  <2>1. /\ {c} \in SUBSET Calls /\ files' \subseteq Paths /\ files' \ files = {}
        /\ attachment' = attachment /\ \A d \in {c} : Holds(d) = {}
    BY <1>0, <1>1 DEF TypeOK
  <2> QED
    BY <1>5, <1>8, <2>1, AccountedSuffices
<1>15. CallOf(c)'
  BY <1>0, <1>6, <1>8, NoCallType DEF CallOf, At
<1>16. FilesOf(c)'
  <2>1. ASSUME NEW path \in page
        PROVE  /\ path[1] = row /\ path[2] \in Elements
               /\ RowOf(attachment[path[2]]) = row /\ attachment[path[2]] # None
    <3>1. PICK e \in Elements : path = <<row, e>> /\ RowOf(attachment[e]) = row
      BY <1>4, <2>1 DEF PathsOf
    <3>2. attachment[e] # None
      BY <1>1, <3>1 DEF RowOf
    <3> QED
      BY <3>1, <3>2
  <2>2. ASSUME NEW path \in page
        PROVE  /\ path[2] \in uploaded' /\ RowOf(attachment'[path[2]]) \in {None, row}
               /\ \A d \in Calls : ~IsUpload(d, path[2])'
    <3>1. /\ path[2] \in Elements /\ RowOf(attachment[path[2]]) = row
          /\ attachment[path[2]] # None
      BY <2>1, <2>2
    <3>2. \A d \in Calls : ~IsUpload(d, path[2])
      BY <1>0, <3>1 DEF FilesOf, IsUpload
    <3>3. path[2] \in uploaded' /\ RowOf(attachment'[path[2]]) = row
      BY <1>0, <3>1 DEF RowsInv
    <3> QED
      BY <1>11, <3>1, <3>2, <3>3
  <2>3. Cardinality(page) # PageSize =>
           \A e \in Elements : RowOf(attachment'[e]) = row => <<row, e>> \in page \cup lost'
    BY <1>0, <1>4 DEF PathsOf
  <2> QED
    BY <1>6, <1>8, <2>1, <2>2, <2>3 DEF FilesOf, At, HasListed
<1> QED
  BY <1>8, <1>10, <1>12, <1>13, <1>14, <1>15, <1>16 DEF StepOK

(* The Conversation goes, and the row stays without it. *)
LEMMA DeleteProviderStep ==
    ASSUME IInv, NEW c \in Calls, DeleteProvider(c)
    PROVE  StepOK({c})
<1> DEFINE row == call[c].row
<1>0. /\ TypeOK /\ CallOf(c) /\ FilesOf(c) /\ At(c, "delete", "provider")
      /\ RowsInv /\ HistoryConsistent /\ AttachmentHasFile
      /\ UNCHANGED <<current, opened, message, attachment, feedback, files, uploaded, lost>>
  BY DEF IInv, CallInv, DeleteProvider, children, disk
<1>1. row \in Rows /\ row[1] \in Threads /\ row # None /\ Holds(c) = {}
  BY <1>0, RowParts DEF CallOf, At, Holds
<1>2. CASE End(c) /\ UNCHANGED provided
  BY <1>0, <1>1, <1>2, EndStep DEF TypeOK, rows, children
<1>3. ASSUME provided' = [provided EXCEPT ![row[1]] = FALSE], GoTo(c, "row")
      PROVE  StepOK({c})
  <2>1. /\ call' \in [Calls -> CallRecords]
        /\ \A d \in Calls \ {c} : call'[d] = call[d]
        /\ call'[c].op = "delete" /\ call'[c].pc = "row"
        /\ call'[c].user = call[c].user /\ call'[c].row = row
        /\ call'[c].step = call[c].step /\ call'[c].item = call[c].item
        /\ call'[c].paths = call[c].paths
        /\ \A d \in Calls : call'[d].pc # "idle" => call'[d].row # None
    BY <1>0, <1>1, <1>3, GoToFrame DEF At
  <2>2. /\ provided' \in [Threads -> BOOLEAN] /\ provided'[row[1]] = FALSE
        /\ \A t \in Threads : t # row[1] => provided'[t] = provided[t]
    BY <1>0, <1>1, <1>3 DEF TypeOK
  <2>3. TypeOK'
    BY <1>0, <2>1, <2>2 DEF TypeOK
  <2>4. \A d \in Calls, e \in Elements : IsUpload(d, e)' <=> IsUpload(d, e)
    BY <1>0, <2>1 DEF IsUpload, At
  <2>5. Frame({c})
    <3>1. \A t \in Threads : opened[t] <= opened'[t]
      BY <1>0 DEF TypeOK
    <3>2. files \ files' = {}
      BY <1>0
    <3>3. \A r \in Rows : provided'[r[1]] => provided[r[1]]
      BY <2>2, RowParts
    <3>4. \A r \in Rows : Live(r)' <=> Live(r)
      BY <1>0 DEF Live
    <3> QED
      BY <1>0, <2>1, <2>4, <3>1, <3>2, <3>3, <3>4 DEF Frame
  <2>6. RowsInv' /\ AttachmentHasFile' /\ HistoryConsistent'
    BY <1>0, HistoryParts DEF RowsInv, AttachmentHasFile
  <2>7. FileAccounted'
    <3>1. /\ {c} \in SUBSET Calls /\ files' \subseteq Paths /\ files' \ files = {}
          /\ lost \subseteq lost' /\ attachment' = attachment /\ \A d \in {c} : Holds(d) = {}
      BY <1>0, <1>1 DEF TypeOK
    <3> QED
      BY <2>1, <3>1, AccountedSuffices
  <2>8. CallOf(c)'
    BY <1>0, <2>1, NoCallType DEF CallOf, At
  <2>9. FilesOf(c)'
    BY <1>0, <2>1, <2>2, <2>4 DEF FilesOf, At, HasListed, IsUpload
  <2> QED
    BY <2>1, <2>3, <2>5, <2>6, <2>7, <2>8, <2>9 DEF StepOK
<1> QED
  BY <1>2, <1>3 DEF DeleteProvider

(* The row goes with all its records, whose files are lost or listed. *)
LEMMA DeleteRowStep ==
    ASSUME IInv, NEW c \in Calls, DeleteRow(c)
    PROVE  StepOK({c})
<1> DEFINE row == call[c].row
<1>0. /\ TypeOK /\ CallOf(c) /\ FilesOf(c) /\ At(c, "delete", "row")
      /\ RowsInv /\ HistoryConsistent /\ AttachmentHasFile
      /\ UNCHANGED <<opened, provided, files, uploaded>>
  BY DEF IInv, CallInv, DeleteRow
<1>1. row \in Rows /\ row[1] \in Threads /\ row # None /\ Holds(c) = {}
  BY <1>0, RowParts DEF CallOf, At, Holds
<1>2. CASE End(c) /\ UNCHANGED <<current, children, lost>>
  BY <1>0, <1>1, <1>2, EndStep DEF TypeOK, rows
<1>3. ASSUME lost' = IF Cardinality(call[c].paths) = PageSize
                     THEN lost \cup (PathsOf(row) \ call[c].paths) ELSE lost,
             current' = IF Live(row) THEN [current EXCEPT ![row[1]] = 0] ELSE current,
             Cascade(row), GoTo(c, "unlink")
      PROVE  StepOK({c})
  <2>1. /\ call' \in [Calls -> CallRecords]
        /\ \A d \in Calls \ {c} : call'[d] = call[d]
        /\ call'[c].op = "delete" /\ call'[c].pc = "unlink"
        /\ call'[c].user = call[c].user /\ call'[c].row = row
        /\ call'[c].step = call[c].step /\ call'[c].item = call[c].item
        /\ call'[c].paths = call[c].paths
        /\ \A d \in Calls : call'[d].pc # "idle" => call'[d].row # None
    BY <1>0, <1>1, <1>3, GoToFrame DEF At
  <2>2. /\ current' \in [Threads -> 0 .. MaxRows]
        /\ \A t \in Threads : current'[t] \in {current[t], 0}
        /\ \A t \in Threads : current'[t] # current[t] => t = row[1] /\ Live(row)
    BY <1>0, <1>1, <1>3, HistoryAssumption DEF TypeOK
  <2>3. /\ message' \in [Steps -> MessageRows \cup {None}]
        /\ \A s \in Steps : message'[s] = IF RowOf(message[s]) = row THEN None ELSE message[s]
    BY <1>0, <1>3 DEF TypeOK, Cascade
  <2>4. /\ attachment' \in [Elements -> ChildRows \cup {None}]
        /\ \A e \in Elements : attachment'[e] =
              IF RowOf(attachment[e]) = row THEN None ELSE attachment[e]
    BY <1>0, <1>3 DEF TypeOK, Cascade
  <2>5. /\ feedback' \in [Feedbacks -> ChildRows \cup {None}]
        /\ \A f \in Feedbacks : feedback'[f] =
              IF RowOf(feedback[f]) = row THEN None ELSE feedback[f]
    BY <1>0, <1>3 DEF TypeOK, Cascade
  <2>0. lost \subseteq lost' /\ lost' \subseteq Paths
    BY <1>0, <1>1, <1>3, RowPaths DEF TypeOK
  <2>6. TypeOK'
    BY <1>0, <2>0, <2>1, <2>2, <2>3, <2>4, <2>5 DEF TypeOK
  <2>7. \A d \in Calls, e \in Elements : IsUpload(d, e)' <=> IsUpload(d, e)
    BY <1>0, <2>1 DEF IsUpload, At
  <2>8. Frame({c})
    <3>1. \A t \in Threads : opened[t] <= opened'[t]
      BY <1>0 DEF TypeOK
    <3>2. files \ files' = {}
      BY <1>0
    <3>3. ASSUME NEW r \in Rows, Live(r)'
          PROVE  Live(r)
      <4>1. r[1] \in Threads /\ r[2] # 0
        BY RowParts, HistoryAssumption
      <4> QED
        BY <2>2, <3>3, <4>1 DEF Live
    <3> QED
      BY <1>0, <2>0, <2>1, <2>4, <2>7, <3>1, <3>2, <3>3 DEF Frame
  <2>9. RowsInv' /\ AttachmentHasFile'
    <3>1. \A t \in Threads : current'[t] <= opened[t]
      BY <1>0, <2>2, HistoryAssumption DEF RowsInv, TypeOK
    <3>2. \A e \in Elements : attachment'[e] # None =>
             e \in uploaded /\ <<attachment'[e].row, e>> \in files
      BY <1>0, <2>4 DEF RowsInv, AttachmentHasFile
    <3> QED
      BY <1>0, <3>1, <3>2 DEF RowsInv, AttachmentHasFile
  <2>10. HistoryConsistent'
    <3>1. ASSUME NEW r \in Rows, current[r[1]] = r[2], r # row
          PROVE  current'[r[1]] = r[2]
      <4>1. r[1] \in Threads /\ (r[1] = row[1] /\ r[2] = row[2] => r = row)
        BY <1>1, RowParts
      <4> QED
        BY <2>2, <3>1, <4>1 DEF Live
    <3>2. ASSUME NEW record \in ChildRows, Belongs(current, message, record), record.row # row
          PROVE  Belongs(current', message', record)
      <4>1. record.row \in Rows /\ record.step \in Steps \cup {None}
        BY DEF ChildRows
      <4> QED
        BY <2>3, <3>1, <3>2, <4>1 DEF Belongs
    <3>3. \A s \in Steps : message'[s] # None => current'[message'[s].row[1]] = message'[s].row[2]
      <4>1. ASSUME NEW s \in Steps, message'[s] # None
            PROVE  message'[s] = message[s] /\ message[s].row \in Rows /\ message[s].row # row
        BY <1>0, <1>1, <2>3, <4>1, Records
      <4> QED
        BY <1>0, <3>1, <4>1, HistoryParts
    <3>4. \A e \in Elements : attachment'[e] # None => Belongs(current', message', attachment'[e])
      <4>1. ASSUME NEW e \in Elements, attachment'[e] # None
            PROVE  /\ attachment'[e] = attachment[e] /\ attachment[e] \in ChildRows
                   /\ attachment[e].row # row
        BY <1>0, <1>1, <2>4, <4>1, Records
      <4> QED
        BY <1>0, <3>2, <4>1, HistoryParts
    <3>5. \A f \in Feedbacks : feedback'[f] # None => Belongs(current', message', feedback'[f])
      <4>1. ASSUME NEW f \in Feedbacks, feedback'[f] # None
            PROVE  /\ feedback'[f] = feedback[f] /\ feedback[f] \in ChildRows
                   /\ feedback[f].row # row
        BY <1>0, <1>1, <2>5, <4>1, Records
      <4> QED
        BY <1>0, <3>2, <4>1, HistoryParts
    <3> QED
      BY <3>3, <3>4, <3>5, HistoryParts
  <2>11. FileAccounted'
    <3>1. /\ {c} \in SUBSET Calls /\ files' \subseteq Paths /\ files' \ files = {}
          /\ lost \subseteq lost' /\ \A d \in {c} : Holds(d) = {}
      BY <1>0, <1>1, <2>0 DEF TypeOK
    <3>2. ASSUME NEW path \in files', RowOf(attachment[path[2]]) = path[1],
                 attachment'[path[2]] # attachment[path[2]]
          PROVE  Accounted(path)'
      <4>1. path[1] \in Rows /\ path[2] \in Elements /\ path = <<path[1], path[2]>>
        BY <3>1, RowParts
      <4>2. path[1] = row
        BY <2>4, <3>2, <4>1
      <4>3. path \in call[c].paths \cup lost'
        <5>1. CASE Cardinality(call[c].paths) = PageSize
          BY <1>3, <3>2, <4>1, <4>2, <5>1 DEF PathsOf
        <5>2. CASE Cardinality(call[c].paths) # PageSize
          BY <1>0, <2>0, <3>2, <4>1, <4>2, <5>2 DEF FilesOf, HasListed, At
        <5> QED
          BY <5>1, <5>2
      <4>4. call[c].paths = Holds(c)'
        BY <2>1 DEF Holds, At
      <4> QED
        BY <4>3, <4>4 DEF Accounted
    <3> QED
      BY <2>1, <3>1, <3>2, AccountedSuffices
  <2>12. CallOf(c)'
    BY <1>0, <2>1, NoCallType DEF CallOf, At
  <2>13. FilesOf(c)'
    <3>1. ASSUME NEW path \in call[c].paths
          PROVE  /\ path[1] = row /\ path[2] \in uploaded
                 /\ \A d \in Calls : ~IsUpload(d, path[2])'
                 /\ attachment'[path[2]] = None
      <4>1. /\ path[1] = row /\ path[2] \in uploaded /\ path[2] \in Elements
            /\ \A d \in Calls : ~IsUpload(d, path[2])
            /\ RowOf(attachment[path[2]]) \in {None, row}
        BY <1>0, <3>1 DEF FilesOf, TypeOK
      <4> QED
        BY <1>0, <2>4, <2>7, <4>1, Records
    <3> QED
      BY <1>0, <2>1, <3>1 DEF FilesOf, At, HasListed, RowOf
  <2> QED
    BY <2>1, <2>6, <2>8, <2>9, <2>10, <2>11, <2>12, <2>13 DEF StepOK
<1> QED
  BY <1>2, <1>3 DEF DeleteRow

(* The files go that no record names any longer. *)
LEMMA UnlinkStep ==
    ASSUME IInv, NEW c \in Calls, Unlink(c)
    PROVE  StepOK({c})
<1> DEFINE paths == call[c].paths
<1>0. /\ TypeOK /\ FilesOf(c) /\ call[c].pc = "unlink" /\ files' = files \ paths
      /\ AttachmentHasFile /\ End(c)
      /\ UNCHANGED <<current, opened, provided, message, attachment, feedback,
                     uploaded, lost>>
  BY DEF IInv, CallInv, Unlink, rows, children
<1>1. /\ call' \in [Calls -> CallRecords] /\ call'[c] = NoCall
      /\ \A d \in Calls \ {c} : call'[d] = call[d]
      /\ \A d \in Calls : call'[d].pc # "idle" => call'[d].row # None
      /\ CallOf(c)' /\ FilesOf(c)'
  BY <1>0, EndFrame
<1>2. TypeOK'
  BY <1>0, <1>1 DEF TypeOK
<1>3. Frame({c})
  <2>1. \A e \in Elements : ~IsUpload(c, e)'
    BY <1>1, NoCallType DEF IsUpload
  <2>2. \A t \in Threads : opened[t] <= opened'[t]
    BY <1>0 DEF TypeOK
  <2> QED
    BY <1>0, <1>1, <2>1, <2>2 DEF Frame, Live
<1>4. RowsInv' /\ HistoryConsistent'
  BY <1>0, HistoryParts DEF IInv, RowsInv
<1>5. AttachmentHasFile'
  <2>1. ASSUME NEW e \in Elements, attachment[e] # None
        PROVE  <<attachment[e].row, e>> \in files'
    BY <1>0, <2>1 DEF AttachmentHasFile, FilesOf
  <2> QED
    BY <1>0, <2>1 DEF AttachmentHasFile
<1>6. FileAccounted'
  <2>1. /\ {c} \in SUBSET Calls /\ files' \subseteq Paths /\ files' \ files = {}
        /\ lost \subseteq lost' /\ attachment' = attachment
        /\ \A d \in {c} : Holds(d) \cap files' = {}
    BY <1>0 DEF TypeOK, Holds, At
  <2> QED
    BY <1>1, <2>1, AccountedSuffices
<1> QED
  BY <1>1, <1>2, <1>3, <1>4, <1>5, <1>6 DEF StepOK

(* Fewer rows than MaxRows have been inserted: the thread has a next one. *)
LEMMA RowsLeft ==
    ASSUME TypeOK, NEW t \in Threads,
           Cardinality({row \in Rows : row[2] <= opened[row[1]]}) < MaxRows
    PROVE  opened[t] + 1 \in 0 .. MaxRows
<1> DEFINE inserted == {row \in Rows : row[2] <= opened[row[1]]}
           f == [n \in 1 .. MaxRows |-> <<t, n>>]
<1>0. MaxRows \in Nat \ {0} /\ opened[t] \in 0 .. MaxRows
  BY HistoryAssumption DEF TypeOK
<1> SUFFICES ASSUME opened[t] = MaxRows
             PROVE  FALSE
  BY <1>0
<1>1. IsFiniteSet(inserted)
  <2>1. IsFiniteSet(1 .. MaxRows)
    BY <1>0, FS_Interval
  <2>2. IsFiniteSet(Rows)
    BY <2>1, HistoryAssumption, FS_Product DEF Rows
  <2> QED
    BY <2>2, FS_Subset
<1>2. f \in Injection(1 .. MaxRows, inserted)
  <2>1. \A n \in 1 .. MaxRows : <<t, n>> \in inserted
    BY <1>0, RowParts
  <2> QED
    BY <2>1 DEF Injection, IsInjective
<1>3. Cardinality(1 .. MaxRows) <= Cardinality(inserted)
  BY <1>1, <1>2, FS_Injection
<1>4. Cardinality(1 .. MaxRows) = MaxRows
  BY <1>0, FS_Interval
<1>5. Cardinality(inserted) \in Nat /\ Cardinality(inserted) < MaxRows
  BY <1>1, FS_CardinalityType
<1> QED
  BY <1>0, <1>3, <1>4, <1>5

(* A new row has a number of its own, so nothing belongs to it yet. *)
LEMMA OpenStep ==
    ASSUME IInv, NEW t \in Threads, Open(t)
    PROVE  StepOK({})
<1>0. /\ TypeOK /\ RowsInv /\ HistoryConsistent /\ AttachmentHasFile /\ current[t] = 0
      /\ opened' = [opened EXCEPT ![t] = @ + 1]
      /\ current' = [current EXCEPT ![t] = opened'[t]]
      /\ provided' = [provided EXCEPT ![t] = TRUE]
      /\ UNCHANGED <<message, attachment, feedback, files, uploaded, lost, call>>
  BY DEF IInv, Open, children, disk
<1>1. opened[t] + 1 \in 0 .. MaxRows
  BY <1>0, RowsLeft DEF Open
<1>2. /\ opened' \in [Threads -> 0 .. MaxRows] /\ opened'[t] = opened[t] + 1
      /\ current' \in [Threads -> 0 .. MaxRows] /\ current'[t] = opened[t] + 1
      /\ provided' \in [Threads -> BOOLEAN]
      /\ \A s \in Threads \ {t} : /\ opened'[s] = opened[s] /\ current'[s] = current[s]
                                  /\ provided'[s] = provided[s]
      /\ opened[t] \in Nat
  BY <1>0, <1>1 DEF TypeOK
<1>3. TypeOK'
  BY <1>0, <1>2 DEF TypeOK
<1>4. Frame({})
  <2>1. \A s \in Threads : opened[s] <= opened'[s]
    BY <1>0, <1>2 DEF TypeOK
  <2>2. files \ files' = {}
    BY <1>0
  <2>3. ASSUME NEW row \in Rows, row[2] <= opened[row[1]], Live(row)'
        PROVE  Live(row) /\ provided'[row[1]] = provided[row[1]]
    <3>1. row[1] \in Threads /\ row[2] \in Nat
      BY RowParts, HistoryAssumption
    <3>2. row[1] # t
      BY <1>2, <2>3, <3>1 DEF Live
    <3> QED
      BY <1>2, <2>3, <3>1, <3>2 DEF Live
  <2> QED
    BY <1>0, <2>1, <2>2, <2>3 DEF Frame
<1>5. RowsInv' /\ AttachmentHasFile'
  <2>1. \A s \in Threads : current'[s] <= opened'[s]
    BY <1>0, <1>2 DEF RowsInv
  <2> QED
    BY <1>0, <2>1 DEF RowsInv, AttachmentHasFile
<1>6. HistoryConsistent'
  <2>1. ASSUME NEW row \in Rows, current[row[1]] = row[2]
        PROVE  current'[row[1]] = row[2]
    <3>1. row[1] \in Threads /\ row[2] # 0
      BY RowParts, HistoryAssumption
    <3> QED
      BY <1>0, <1>2, <2>1, <3>1
  <2>2. ASSUME NEW record \in ChildRows, Belongs(current, message, record)
        PROVE  Belongs(current', message', record)
    BY <1>0, <2>1, <2>2 DEF Belongs, ChildRows
  <2> QED
    BY <1>0, <2>1, <2>2, HistoryParts, Records
<1>7. FileAccounted'
  <2>1. /\ files' \subseteq Paths /\ files' \ files = {} /\ lost \subseteq lost'
        /\ attachment' = attachment /\ call' = call
    BY <1>0 DEF TypeOK
  <2> QED
    BY <2>1, AccountedSuffices
<1> QED
  BY <1>3, <1>4, <1>5, <1>6, <1>7 DEF StepOK

-----------------------------------------------------------------------------
(* The inductive invariant *)

LEMMA InitIInv ==
    Init => IInv
<1> SUFFICES ASSUME Init
             PROVE  IInv
  OBVIOUS
<1>1. /\ current = [t \in Threads |-> 0] /\ opened = [t \in Threads |-> 0]
      /\ provided = [t \in Threads |-> FALSE]
      /\ message = [s \in Steps |-> None] /\ attachment = [e \in Elements |-> None]
      /\ feedback = [f \in Feedbacks |-> None]
      /\ files = {} /\ uploaded = {} /\ lost = {} /\ call = [c \in Calls |-> NoCall]
  BY DEF Init
<1>2. TypeOK
  BY <1>1, NoCallType, HistoryAssumption DEF TypeOK
<1>3. CallInv
  <2>1. \A c \in Calls : CallOf(c)
    BY <1>1, NoCallType DEF CallOf
  <2>2. \A c \in Calls : FilesOf(c)
    BY <1>1, NoCallType DEF FilesOf, At, HasListed
  <2> QED
    BY <2>1, <2>2 DEF CallInv
<1>4. RowsInv /\ HistoryConsistent /\ AttachmentHasFile /\ FileAccounted
  BY <1>1 DEF RowsInv, HistoryConsistent, AttachmentHasFile, FileAccounted
<1> QED
  BY <1>2, <1>3, <1>4 DEF IInv

(* Every action is a step of one call, or of none. *)
LEMMA NextOK ==
    ASSUME IInv, Next
    PROVE  \E C \in SUBSET Calls : StepOK(C)
<1>1. ASSUME NEW t \in Threads, Open(t) PROVE StepOK({})
  BY <1>1, OpenStep
<1>2. ASSUME NEW u \in Users, NEW f \in Feedbacks, Unrate(u, f) PROVE StepOK({})
  BY <1>2, UnrateStep
<1>3. ASSUME NEW c \in Calls, NEW u \in Users,
             \/ \E s \in Steps : BeginStep(c, u, s)
             \/ \E t \in Threads, e \in Elements : BeginElement(c, u, t, e)
             \/ \E e \in Elements : BeginUnelement(c, u, e)
             \/ \E s \in Steps, f \in Feedbacks : BeginRate(c, u, s, f)
             \/ \E t \in Threads : BeginDelete(c, u, t)
      PROVE  StepOK({c})
  BY <1>3, BeginStepStep, BeginElementStep, BeginUnelementStep, BeginRateStep,
     BeginDeleteStep
<1>4. ASSUME NEW c \in Calls, CheckOwner(c) \/ CheckMessage(c) PROVE StepOK({c})
  BY <1>4, CheckOwnerStep, CheckMessageStep
<1>5. ASSUME NEW c \in Calls, Write(c) PROVE StepOK({c})
  BY <1>5, WriteStepOK
<1>6. ASSUME NEW c \in Calls,
             ListAttachments(c) \/ DeleteProvider(c) \/ DeleteRow(c) \/ Unlink(c)
      PROVE  StepOK({c})
  BY <1>6, ListStep, DeleteProviderStep, DeleteRowStep, UnlinkStep
<1>7. ASSUME NEW c \in Calls, Cancel(c) PROVE StepOK({c})
  BY <1>7, CancelStep
<1>8. {} \in SUBSET Calls /\ \A c \in Calls : {c} \in SUBSET Calls
  OBVIOUS
<1> QED
  BY <1>1, <1>2, <1>3, <1>4, <1>5, <1>6, <1>7, <1>8 DEF Next

LEMMA NextIInv ==
    IInv /\ [Next]_vars => IInv'
<1>1. ASSUME IInv, Next PROVE IInv'
  BY <1>1, NextOK, StepOKSuffices
<1>2. ASSUME IInv, UNCHANGED vars PROVE IInv'
  <2>1. UNCHANGED <<current, opened, provided, message, attachment, feedback,
                    files, uploaded, lost, call>>
    BY <1>2 DEF vars, rows, children, disk
  <2>2. TypeOK'
    BY <1>2, <2>1 DEF IInv, TypeOK
  <2>3. Frame({})
    <3>1. \A t \in Threads : opened[t] <= opened'[t]
      BY <1>2, <2>1 DEF IInv, TypeOK
    <3> QED
      BY <2>1, <3>1 DEF Frame, Live
  <2>4. RowsInv' /\ HistoryConsistent' /\ AttachmentHasFile'
    BY <1>2, TablesKept DEF vars, disk
  <2>5. FileAccounted'
    BY <1>2, <2>1 DEF IInv, FileAccounted, Holds, At
  <2> QED
    BY <1>2, <2>2, <2>3, <2>4, <2>5, StepOKSuffices DEF StepOK
<1> QED
  BY <1>1, <1>2

LEMMA Inductive ==
    Spec => []IInv
BY InitIInv, NextIInv, PTL DEF Spec

(* Rows, records, files and calls stay well formed. *)
THEOREM HistoryTyped ==
    Spec => []TypeOK
BY Inductive, PTL DEF IInv

(* No interleaving of the calls of the data layer leaves a message, an     *)
(* attachment or feedback without its conversation, or with a message of   *)
(* another one (the repository's checks under the row lock).               *)
THEOREM HistoryStaysConsistent ==
    Spec => []HistoryConsistent
BY Inductive, PTL DEF IInv

(* An attachment in the history always has its file: copied before the     *)
(* record (_upsert_element), removed after it (delete_element and          *)
(* delete_thread).                                                         *)
THEOREM AttachmentsHaveFiles ==
    Spec => []AttachmentHasFile
BY Inductive, PTL DEF IInv

(* A file is left behind only in the five ways "lost" records.             *)
THEOREM FilesAreAccounted ==
    Spec => []FileAccounted
BY Inductive, PTL DEF IInv

-----------------------------------------------------------------------------
(* Whose content a step changes *)

(* A call that has checked the owner, and then changes a record of its     *)
(* row, works for the owner of that record.                                *)
LEMMA OwnerOf ==
    ASSUME IInv, NEW c \in Calls, call[c].pc \notin {"idle", "owner"},
           call'[c] # call[c], NEW old, NEW new,
           old # None /\ new # old => old.row = call[c].row
    PROVE  ChangedByOwner(old, new)
BY DEF IInv, CallInv, CallOf, ChangedByOwner

(* The records a call changes are those of its row. *)
LEMMA OwnersStep ==
    ASSUME IInv, Next
    PROVE  ChangedByOwners
<1>0. /\ TypeOK /\ HistoryConsistent /\ \A c \in Calls : CallOf(c) /\ FilesOf(c)
      /\ call \in [Calls -> CallRecords]
  BY DEF IInv, CallInv, TypeOK
<1>1. ASSUME UNCHANGED children
      PROVE  ChangedByOwners
  BY <1>1 DEF ChangedByOwners, ChangedByOwner, children
<1>2. ASSUME NEW u \in Users, NEW f \in Feedbacks, Unrate(u, f)
      PROVE  ChangedByOwners
  <2>1. /\ UNCHANGED <<message, attachment>> /\ Owner[feedback[f].row[1]] = u
        /\ \A g \in Feedbacks \ {f} : feedback'[g] = feedback[g]
    BY <1>0, <1>2 DEF Unrate, TypeOK
  <2>2. ChangedByOwner(feedback[f], feedback'[f])
    BY <1>2, <2>1 DEF ChangedByOwner
  <2> QED
    BY <2>1, <2>2 DEF ChangedByOwners, ChangedByOwner
<1>3. ASSUME NEW c \in Calls, call[c].pc \notin {"idle", "owner"}, call'[c] # call[c],
             \A s \in Steps : message[s] # None /\ message'[s] # message[s]
                => message[s].row = call[c].row,
             \A e \in Elements : attachment[e] # None /\ attachment'[e] # attachment[e]
                => attachment[e].row = call[c].row,
             \A f \in Feedbacks : feedback[f] # None /\ feedback'[f] # feedback[f]
                => feedback[f].row = call[c].row
      PROVE  ChangedByOwners
  BY <1>3, OwnerOf DEF ChangedByOwners
<1>4. ASSUME NEW c \in Calls, End(c), call[c].pc # "idle"
      PROVE  call'[c] # call[c]
  BY <1>0, <1>4, NoCallType DEF End
<1>5. ASSUME NEW c \in Calls, WriteStep(c), ~WriteFails(c) PROVE ChangedByOwners
  <2> DEFINE s == call[c].step
  <2>1. /\ call[c].pc = "write" /\ s \in Steps /\ End(c) /\ OwnMessage(s, call[c].row)
        /\ UNCHANGED <<attachment, feedback>>
        /\ \A r \in Steps \ {s} : message'[r] = message[r]
    BY <1>0, <1>5 DEF WriteStep, At, CallOf, TypeOK
  <2>2. message[s] # None => message[s].row = call[c].row
    BY <1>0, <2>1, Records DEF OwnMessage
  <2> QED
    BY <1>3, <1>4, <2>1, <2>2
<1>6. ASSUME NEW c \in Calls, WriteUnstep(c), ~WriteFails(c) PROVE ChangedByOwners
  <2> DEFINE s == call[c].step
  <2>1. /\ call[c].pc = "write" /\ s \in Steps /\ End(c) /\ RowOf(message[s]) = call[c].row
        /\ message' = [message EXCEPT ![s] = None] /\ feedback' = Unreferenced(s)
        /\ attachment' = [e \in Elements |->
                             IF attachment[e] # None /\ attachment[e].step = s
                             THEN None ELSE attachment[e]]
    BY <1>0, <1>6 DEF WriteUnstep, At, CallOf, DeletesStep
  <2>2. \A r \in Steps : message[r] # None /\ message'[r] # message[r]
           => message[r].row = call[c].row
    BY <1>0, <2>1, Records DEF TypeOK
  <2>3. \A e \in Elements : attachment[e] # None /\ attachment'[e] # attachment[e]
           => attachment[e].row = call[c].row
    <3>1. ASSUME NEW e \in Elements, attachment[e] # None, attachment[e].step = s
          PROVE  attachment[e].row = RowOf(message[s])
      BY <1>0, <2>1, <3>1, HistoryAssumption, HistoryParts DEF Belongs
    <3> QED
      BY <2>1, <3>1
  <2>4. \A f \in Feedbacks : feedback[f] # None /\ feedback'[f] # feedback[f]
           => feedback[f].row = call[c].row
    <3>1. ASSUME NEW f \in Feedbacks, feedback[f] # None, feedback[f].step = s
          PROVE  feedback[f].row = RowOf(message[s])
      BY <1>0, <2>1, <3>1, HistoryAssumption, HistoryParts DEF Belongs
    <3> QED
      BY <2>1, <3>1 DEF Unreferenced
  <2> QED
    BY <1>3, <1>4, <2>1, <2>2, <2>3, <2>4
<1>7. ASSUME NEW c \in Calls, WriteElement(c), ~WriteFails(c) PROVE ChangedByOwners
  <2>1. /\ call[c].pc = "write" /\ End(c) /\ attachment[call[c].item] = None
        /\ UNCHANGED <<message, feedback>>
        /\ \A e \in Elements : e # call[c].item => attachment'[e] = attachment[e]
    BY <1>0, <1>7 DEF WriteElement, At, FilesOf, TypeOK
  <2> QED
    BY <1>3, <1>4, <2>1
<1>8. ASSUME NEW c \in Calls, WriteUnelement(c), attachment' # attachment
      PROVE  ChangedByOwners
  <2> DEFINE e == call[c].item
  <2>1. /\ call[c].pc = "write" /\ RowOf(attachment[e]) = call[c].row
        /\ call' = [call EXCEPT ![c].pc = "unlink", ![c].paths = {<<call[c].row, e>>}]
        /\ attachment' = [attachment EXCEPT ![e] = None] /\ e \in Elements
        /\ UNCHANGED <<message, feedback>>
    BY <1>0, <1>8 DEF WriteUnelement, At, CallOf
  <2>2. call'[c] # call[c]
    BY <1>0, <2>1 DEF CallRecords
  <2>3. \A g \in Elements : attachment[g] # None /\ attachment'[g] # attachment[g]
           => attachment[g].row = call[c].row
    BY <1>0, <2>1, Records DEF TypeOK
  <2> QED
    BY <1>3, <2>1, <2>2, <2>3
<1>9. ASSUME NEW c \in Calls, WriteRate(c), ~WriteFails(c) PROVE ChangedByOwners
  <2> DEFINE f == call[c].item
  <2>1. /\ call[c].pc = "write" /\ f \in Feedbacks /\ End(c)
        /\ RowOf(feedback[f]) \in {None, call[c].row}
        /\ UNCHANGED <<message, attachment>>
        /\ \A g \in Feedbacks \ {f} : feedback'[g] = feedback[g]
    BY <1>0, <1>9 DEF WriteRate, At, CallOf, TypeOK
  <2>2. feedback[f] # None => feedback[f].row = call[c].row
    BY <1>0, <2>1, Records
  <2> QED
    BY <1>3, <1>4, <2>1, <2>2
<1>10. ASSUME NEW c \in Calls, DeleteRow(c), ~UNCHANGED children PROVE ChangedByOwners
  <2>1. /\ call[c].pc = "row" /\ Cascade(call[c].row) /\ GoTo(c, "unlink")
    BY <1>10 DEF DeleteRow, At, children
  <2>2. call'[c] # call[c]
    BY <1>0, <2>1 DEF GoTo, CallRecords
  <2>3. /\ \A s \in Steps : message'[s] # message[s] => RowOf(message[s]) = call[c].row
        /\ \A e \in Elements : attachment'[e] # attachment[e]
              => RowOf(attachment[e]) = call[c].row
        /\ \A f \in Feedbacks : feedback'[f] # feedback[f]
              => RowOf(feedback[f]) = call[c].row
    BY <2>1 DEF Cascade
  <2> QED
    BY <1>0, <1>3, <2>1, <2>2, <2>3, Records
<1>11. ASSUME NEW c \in Calls, WriteFails(c) PROVE UNCHANGED children
  BY <1>11 DEF WriteFails
<1>12. ASSUME NEW c \in Calls, NEW u \in Users,
             \/ \E s \in Steps : BeginStep(c, u, s)
             \/ \E t \in Threads, e \in Elements : BeginElement(c, u, t, e)
             \/ \E e \in Elements : BeginUnelement(c, u, e)
             \/ \E s \in Steps, f \in Feedbacks : BeginRate(c, u, s, f)
             \/ \E t \in Threads : BeginDelete(c, u, t)
       PROVE  UNCHANGED children
  BY <1>12 DEF BeginStep, BeginElement, BeginUnelement, BeginRate, BeginDelete, Begin
<1>13. ASSUME NEW c \in Calls, \/ CheckOwner(c) \/ CheckMessage(c) \/ ListAttachments(c)
                               \/ DeleteProvider(c) \/ Unlink(c) \/ Cancel(c)
       PROVE  UNCHANGED children
  BY <1>13 DEF CheckOwner, CheckMessage, ListAttachments, DeleteProvider, Unlink, Cancel
<1>14. ASSUME NEW t \in Threads, Open(t) PROVE UNCHANGED children
  BY <1>14 DEF Open
<1>15. ASSUME NEW c \in Calls, Write(c) PROVE ChangedByOwners
  <2>1. ASSUME WriteUnelement(c), attachment' = attachment PROVE UNCHANGED children
    BY <2>1 DEF WriteUnelement, children
  <2> QED
    BY <1>1, <1>5, <1>6, <1>7, <1>8, <1>9, <1>11, <1>15, <2>1 DEF Write
<1> QED
  BY <1>1, <1>2, <1>10, <1>12, <1>13, <1>14, <1>15 DEF Next

(* What a thread contains is changed for its owner alone, whatever ids the *)
(* client sends and whatever happens between the check and the write.      *)
THEOREM OwnersChangeOnly ==
    Spec => OwnersOnly
<1>1. IInv /\ [Next]_vars => [ChangedByOwners]_vars
  BY OwnersStep
<1> QED
  BY <1>1, Inductive, PTL DEF Spec, OwnersOnly

-----------------------------------------------------------------------------
(* The promise to a thread *)

LEMMA LifeInit ==
    Init => \A t \in Threads : Life(t)!Init
BY DEF Init, Life!Init

LEMMA LifeStep ==
    IInv /\ [Next]_vars => \A t \in Threads : [Life(t)!Next]_(Life(t)!vars)
<1> SUFFICES ASSUME IInv, [Next]_vars, NEW t \in Threads
             PROVE  [Life(t)!Next]_(Life(t)!vars)
  OBVIOUS
<1>0. TypeOK /\ \A c \in Calls : CallOf(c) /\ FilesOf(c)
  BY DEF IInv, CallInv
<1>1. ASSUME UNCHANGED rows
      PROVE  [Life(t)!Next]_(Life(t)!vars)
  BY <1>1 DEF rows, Life!vars
<1>2. ASSUME NEW s \in Threads, Open(s)
      PROVE  [Life(t)!Next]_(Life(t)!vars)
  <2>1. CASE s = t
    BY <1>0, <1>2, <2>1 DEF Open, TypeOK, Life!Next, Life!Open
  <2>2. CASE s # t
    BY <1>0, <1>2, <2>2 DEF Open, TypeOK, Life!vars
  <2> QED
    BY <2>1, <2>2
<1>3. ASSUME NEW c \in Calls, DeleteProvider(c)
      PROVE  [Life(t)!Next]_(Life(t)!vars)
  <2> DEFINE row == call[c].row
  <2>1. UNCHANGED <<current, opened>>
    BY <1>3 DEF DeleteProvider
  <2>2. CASE UNCHANGED provided
    BY <1>1, <2>1, <2>2 DEF rows
  <2>3. CASE provided[row[1]] /\ provided' = [provided EXCEPT ![row[1]] = FALSE]
    <3>1. CASE row[1] = t
      BY <1>0, <2>1, <2>3, <3>1 DEF TypeOK, Life!Next, Life!Unprovide
    <3>2. CASE row[1] # t
      BY <1>0, <2>1, <2>3, <3>2 DEF TypeOK, Life!vars
    <3> QED
      BY <3>1, <3>2
  <2> QED
    BY <1>3, <2>2, <2>3 DEF DeleteProvider
<1>4. ASSUME NEW c \in Calls, DeleteRow(c)
      PROVE  [Life(t)!Next]_(Life(t)!vars)
  <2> DEFINE row == call[c].row
  <2>1. UNCHANGED <<opened, provided>> /\ At(c, "delete", "row")
    BY <1>4 DEF DeleteRow
  <2>2. CASE UNCHANGED current
    BY <1>1, <2>1, <2>2 DEF rows
  <2>3. CASE Live(row) /\ current' = [current EXCEPT ![row[1]] = 0]
    <3>1. row \in Rows /\ row[2] # 0
      BY <1>0, <2>1, RowParts, HistoryAssumption DEF CallOf, At
    <3>2. CASE row[1] = t
      <4>1. ~provided[t] /\ current[t] # 0
        BY <1>0, <2>1, <2>3, <3>1, <3>2 DEF FilesOf, Live
      <4> QED
        BY <1>0, <2>1, <2>3, <3>2, <4>1 DEF TypeOK, Life!Next, Life!Remove
    <3>3. CASE row[1] # t
      BY <1>0, <2>1, <2>3, <3>3 DEF TypeOK, Life!vars
    <3> QED
      BY <3>2, <3>3
  <2> QED
    BY <1>4, <2>2, <2>3 DEF DeleteRow
<1>5. ASSUME NEW c \in Calls, Write(c) PROVE UNCHANGED rows
  BY <1>5 DEF Write, WriteStep, WriteUnstep, WriteElement, WriteUnelement, WriteRate,
     WriteFails
<1>6. ASSUME NEW c \in Calls, NEW u \in Users,
             \/ \E s \in Steps : BeginStep(c, u, s)
             \/ \E s \in Threads, e \in Elements : BeginElement(c, u, s, e)
             \/ \E e \in Elements : BeginUnelement(c, u, e)
             \/ \E s \in Steps, f \in Feedbacks : BeginRate(c, u, s, f)
             \/ \E s \in Threads : BeginDelete(c, u, s)
      PROVE  UNCHANGED rows
  BY <1>6 DEF BeginStep, BeginElement, BeginUnelement, BeginRate, BeginDelete, Begin
<1>7. ASSUME NEW c \in Calls, \/ CheckOwner(c) \/ CheckMessage(c) \/ ListAttachments(c)
                              \/ Unlink(c) \/ Cancel(c)
      PROVE  UNCHANGED rows
  BY <1>7 DEF CheckOwner, CheckMessage, ListAttachments, Unlink, Cancel
<1>8. ASSUME NEW u \in Users, NEW f \in Feedbacks, Unrate(u, f) PROVE UNCHANGED rows
  BY <1>8 DEF Unrate
<1>9. UNCHANGED vars => UNCHANGED rows
  BY DEF vars
<1> QED
  BY <1>1, <1>2, <1>3, <1>4, <1>5, <1>6, <1>7, <1>8, <1>9 DEF Next

(* The data layer keeps ThreadLife's promise to every thread: its row goes *)
(* only after its Conversation, and is never brought back.                 *)
THEOREM HistoryKeepsLife ==
    Spec => LifeSpec
BY LifeInit, LifeStep, Inductive, PTL DEF Spec, LifeSpec

=============================================================================
