--------------------------- MODULE ChatTurnsProofs ---------------------------
(***************************************************************************)
(* Proofs about ChatTurns, for every number of calls, websocket sessions,  *)
(* Conversations, runs and models.  Two arguments do not meet: one about   *)
(* the rows that calls and sessions still know and the Conversations they  *)
(* name (RowsInv, ConvOf), one about the runs of turns (RunOf).            *)
(***************************************************************************)
EXTENDS ChatTurns, TLAPS

(* The rows that are there, cached or in the hands of a call. *)
KnownRows ==
    ({thread} \cup {socket[s].cached : s \in Sockets} \cup {call[c].row : c \in Calls})
        \ {None}

(* A number names one Conversation, and only the row that is there has one *)
(* that is open.                                                           *)
RowsInv ==
    /\ \A a \in KnownRows :
          /\ a.id <= opened /\ provider[a.conv] # "unused"
          /\ provider[a.conv] = "open" => Exists(a)
    /\ \A a, b \in KnownRows : a.id = b.id <=> a.conv = b.conv

(* A call in progress is one of a session. *)
CallOf(c) ==
    LET k == call[c]
    IN  /\ k.pc # "idle" => k.op # "none" /\ k.socket \in Sockets
        /\ k.pc \in {"insert", "undo"} <=> k.conv # None
        /\ k.pc \in {"stream", "finish", "answer", "fail", "sorry"} <=> k.run # None

(* A Conversation that has no row yet is known to the call that created it *)
(* alone, and one that has no row any more is deleted.                     *)
ConvOf(c) ==
    LET k == call[c]
    IN  /\ k.conv # None =>
              /\ provider[k.conv] # "unused"
              /\ \A d \in Calls : call[d].conv = k.conv => d = c
        /\ k.pc = "insert" => /\ provider[k.conv] = "open"
                              /\ \A a \in KnownRows : a.conv # k.conv
        /\ k.pc = "undo" => \/ k.conv \in stray
                            \/ \A a \in KnownRows : a.conv # k.conv
        /\ k.pc = "row" => provider[k.row.conv] = "deleted"

(* What a run holds before the reply of a turn that has got to pc: it is   *)
(* recorded by then, unless the record has failed, and not before.         *)
Due(pc, a) ==
    \/ a.status = "erased"
    \/ /\ a.shown \in {"nothing", "partial"}
       /\ \/ a.status = "started" /\ (pc \in {"answer", "sorry"} => a.hit)
          \/ a.status = "completed" /\ pc = "answer"
          \/ a.status = "failed" /\ pc = "sorry"

(* A run is written by one call, and a reply follows the record of it. *)
RunOf(c) ==
    LET k == call[c]
    IN  k.run # None =>
          /\ run[k.run].status # "unused"
          /\ \A d \in Calls : call[d].run = k.run => d = c
          /\ Due(k.pc, run[k.run])

IInv ==
    /\ TypeOK /\ \A c \in Calls : CallOf(c)
    /\ RowsInv /\ (\A c \in Calls : ConvOf(c)) /\ ConversationAccounted
    /\ (\A c \in Calls : RunOf(c)) /\ RunClosedWithTurn

-----------------------------------------------------------------------------
(* Runs *)

Finishing == {"stream", "finish", "answer", "fail", "sorry"}

(* A run that the end of its turn has settled. *)
Closed(r) ==
    \/ run[r].status = "erased"
    \/ run[r].status = "completed" /\ run[r].shown = "answer"
    \/ run[r].status = "failed" /\ run[r].shown = "sorry"
    \/ /\ run[r].hit
       /\ run[r].status = "completed" => run[r].shown # "sorry"
       /\ run[r].status = "failed" => run[r].shown # "answer"

RunsOK == (\A c \in Calls : RunOf(c)) /\ RunClosedWithTurn

(* A run is written in one field, unless it has gone with its row. *)
LEMMA SetRunFacts ==
    ASSUME TypeOK, NEW r \in Runs
    PROVE  /\ \A status \in {"completed", "failed"} : SetRun(r, "status", status) =>
                 /\ run' \in [Runs -> RunRows]
                 /\ \A q \in Runs \ {r} : run'[q] = run[q]
                 /\ run'[r] = IF run[r].status = "erased" THEN run[r]
                              ELSE [run[r] EXCEPT !.status = status]
           /\ \A shown \in {"partial", "answer", "sorry"} : SetRun(r, "shown", shown) =>
                 /\ run' \in [Runs -> RunRows]
                 /\ \A q \in Runs \ {r} : run'[q] = run[q]
                 /\ run'[r] = IF run[r].status = "erased" THEN run[r]
                              ELSE [run[r] EXCEPT !.shown = shown]
           /\ SetRun(r, "tools", TRUE) =>
                 /\ run' \in [Runs -> RunRows]
                 /\ \A q \in Runs \ {r} : run'[q] = run[q]
                 /\ run'[r] = IF run[r].status = "erased" THEN run[r]
                              ELSE [run[r] EXCEPT !.tools = TRUE]
           /\ SetRun(r, "hit", TRUE) =>
                 /\ run' \in [Runs -> RunRows]
                 /\ \A q \in Runs \ {r} : run'[q] = run[q]
                 /\ run'[r] = IF run[r].status = "erased" THEN run[r]
                              ELSE [run[r] EXCEPT !.hit = TRUE]
<1>1. run \in [Runs -> RunRows] /\ run[r] \in RunRows
  BY DEF TypeOK
<1>2. ASSUME NEW status \in {"completed", "failed"}
      PROVE  /\ [run[r] EXCEPT !.status = status] \in RunRows
             /\ SetRun(r, "status", status) =>
                   run' = IF run[r].status = "erased" THEN run
                          ELSE [run EXCEPT ![r] = [run[r] EXCEPT !.status = status]]
  BY <1>1 DEF SetRun, RunRows
<1>3. ASSUME NEW shown \in {"partial", "answer", "sorry"}
      PROVE  /\ [run[r] EXCEPT !.shown = shown] \in RunRows
             /\ SetRun(r, "shown", shown) =>
                   run' = IF run[r].status = "erased" THEN run
                          ELSE [run EXCEPT ![r] = [run[r] EXCEPT !.shown = shown]]
  BY <1>1 DEF SetRun, RunRows
<1>4. /\ [run[r] EXCEPT !.tools = TRUE] \in RunRows
      /\ SetRun(r, "tools", TRUE) =>
            run' = IF run[r].status = "erased" THEN run
                   ELSE [run EXCEPT ![r] = [run[r] EXCEPT !.tools = TRUE]]
  BY <1>1 DEF SetRun, RunRows
<1>5. /\ [run[r] EXCEPT !.hit = TRUE] \in RunRows
      /\ SetRun(r, "hit", TRUE) =>
            run' = IF run[r].status = "erased" THEN run
                   ELSE [run EXCEPT ![r] = [run[r] EXCEPT !.hit = TRUE]]
  BY <1>1 DEF SetRun, RunRows
<1> QED
  BY <1>1, <1>2, <1>3, <1>4, <1>5

LEMMA StruckRun ==
    ASSUME TypeOK, NEW r \in Runs, run[r].status # "unused", SetRun(r, "hit", TRUE)
    PROVE  /\ \A q \in Runs \ {r} : run'[q] = run[q]
           /\ run'[r].status = "erased" \/ run'[r].hit
           /\ run'[r].status = run[r].status /\ run'[r].shown = run[r].shown
<1>1. run[r] \in RunRows
  BY DEF TypeOK
<1>2. /\ \A q \in Runs \ {r} : run'[q] = run[q]
      /\ run'[r] = IF run[r].status = "erased" THEN run[r]
                   ELSE [run[r] EXCEPT !.hit = TRUE]
  BY SetRunFacts
<1>3. CASE run[r].status = "erased"
  BY <1>2, <1>3
<1>4. CASE run[r].status # "erased"
  <2>1. run'[r] = [run[r] EXCEPT !.hit = TRUE]
    BY <1>2, <1>4
  <2>2. run'[r].status = run[r].status /\ run'[r].hit /\ run'[r].shown = run[r].shown
    BY <1>1, <2>1 DEF RunRows
  <2> QED
    BY <1>2, <2>2
<1> QED
  BY <1>3, <1>4

(* A step of no turn keeps the runs, but for those that go with a row. *)
LEMMA RunsKept ==
    ASSUME IInv,
           \A r \in Runs :
              \/ run'[r] = run[r]
              \/ run[r].status # "unused" /\ run'[r].status = "erased",
           \A d \in Calls :
              /\ call'[d].run = call[d].run
              /\ call[d].run # None => call'[d].pc = call[d].pc
    PROVE  RunsOK'
<1>0. \A d \in Calls : RunOf(d) /\ call[d].run \in Runs \cup {None}
  BY DEF IInv, TypeOK, CallRecords
<1>1. ASSUME NEW c \in Calls
      PROVE  RunOf(c)'
  <2> SUFFICES ASSUME call[c].run # None
               PROVE  RunOf(c)'
    BY DEF RunOf
  <2> DEFINE r == call[c].run
  <2>1. /\ r \in Runs /\ run[r].status # "unused" /\ call'[c].run = r
        /\ call'[c].pc = call[c].pc /\ \A d \in Calls : call[d].run = r => d = c
        /\ Due(call[c].pc, run[r])
    BY <1>0 DEF RunOf
  <2>2. run'[r] = run[r] \/ run'[r].status = "erased"
    BY <2>1
  <2>3. \A d \in Calls : call'[d].run = r => d = c
    BY <2>1
  <2> HIDE DEF r
  <2> QED
    BY <2>1, <2>2, <2>3 DEF RunOf, Due
<1>2. RunClosedWithTurn'
  BY DEF IInv, RunClosedWithTurn
<1> QED
  BY <1>1, <1>2 DEF RunsOK

(* A step of a turn writes the run of its call alone. *)
LEMMA RunsMove ==
    ASSUME IInv, NEW c \in Calls, NEW r \in Runs, call[c].run = r,
           \A d \in Calls \ {c} : call'[d] = call[d],
           \A q \in Runs \ {r} : run'[q] = run[q],
           run'[r].status # "unused",
           \/ call'[c].run = r /\ Due(call'[c].pc, run'[r])
           \/ call'[c].run = None /\ Closed(r)'
    PROVE  RunsOK'
<1>0. /\ \A d \in Calls : RunOf(d) /\ call[d].run \in Runs \cup {None}
      /\ \A d \in Calls : call[d].run = r => d = c
      /\ r # None
  BY TurnsAssumption DEF IInv, TypeOK, CallRecords, RunOf
<1>1. RunOf(c)'
  BY <1>0 DEF RunOf
<1>2. ASSUME NEW d \in Calls \ {c}
      PROVE  RunOf(d)'
  BY <1>0 DEF RunOf
<1>3. RunClosedWithTurn'
  <2> SUFFICES ASSUME NEW q \in Runs, run'[q].status \in {"started", "completed", "failed"},
                      \A d \in Calls : call'[d].run # q
               PROVE  Closed(q)'
    BY DEF RunClosedWithTurn, Closed
  <2>1. CASE q = r
    BY <2>1
  <2>2. CASE q # r
    <3>1. run'[q] = run[q] /\ \A d \in Calls : call[d].run # q
      BY <2>2
    <3> QED
      BY <3>1 DEF IInv, RunClosedWithTurn, Closed
  <2> QED
    BY <2>1, <2>2
<1> QED
  BY <1>1, <1>2, <1>3 DEF RunsOK

(* The end of a call and a mere move of it. *)
LEMMA EndFrame ==
    ASSUME TypeOK, NEW c \in Calls, End(c)
    PROVE  /\ call' \in [Calls -> CallRecords] /\ call'[c] = NoCall
           /\ \A d \in Calls \ {c} : call'[d] = call[d]
           /\ NoCall.op = "none" /\ NoCall.pc = "idle" /\ NoCall.row = None
           /\ NoCall.conv = None /\ NoCall.run = None
BY TurnsAssumption DEF TypeOK, End, NoCall, CallRecords

LEMMA GoToFrame ==
    ASSUME TypeOK, NEW c \in Calls,
           NEW pc \in {"create", "undo", "stream", "finish", "answer", "fail", "sorry", "row"},
           GoTo(c, pc)
    PROVE  /\ call' \in [Calls -> CallRecords]
           /\ \A d \in Calls \ {c} : call'[d] = call[d]
           /\ call'[c].op = call[c].op /\ call'[c].pc = pc
           /\ call'[c].socket = call[c].socket /\ call'[c].row = call[c].row
           /\ call'[c].conv = call[c].conv /\ call'[c].run = call[c].run
           /\ call'[c].model = call[c].model
<1>1. call[c] \in CallRecords /\ call' = [call EXCEPT ![c] = [call[c] EXCEPT !.pc = pc]]
  BY DEF TypeOK, GoTo
<1> DEFINE new == [call[c] EXCEPT !.pc = pc]
<1>2. /\ new \in CallRecords
      /\ new.op = call[c].op /\ new.pc = pc /\ new.socket = call[c].socket
      /\ new.row = call[c].row /\ new.conv = call[c].conv
      /\ new.run = call[c].run /\ new.model = call[c].model
  BY <1>1 DEF CallRecords
<1>3. call' = [call EXCEPT ![c] = new]
  BY <1>1
<1> HIDE DEF new
<1> QED
  BY <1>2, <1>3 DEF TypeOK

(* What a call in the middle of its turn relies on. *)
LEMMA TurnFacts ==
    ASSUME IInv, NEW c \in Calls, call[c].pc \in Finishing
    PROVE  /\ call[c].run \in Runs /\ run[call[c].run] \in RunRows
           /\ run[call[c].run].status # "unused"
           /\ Due(call[c].pc, run[call[c].run])
<1>1. TypeOK /\ CallOf(c) /\ RunOf(c)
  BY DEF IInv
<1>2. call[c].run # None /\ call[c].run \in Runs
  BY <1>1 DEF CallOf, TypeOK, CallRecords, Finishing
<1> QED
  BY <1>1, <1>2 DEF RunOf, TypeOK

(* start_prompt_run takes a run of its own. *)
LEMMA BeginRuns ==
    ASSUME IInv, NEW c \in Calls, Begin(c)
    PROVE  RunsOK'
<1>0. TypeOK /\ At(c, "begin") /\ call[c].run = None /\ \A d \in Calls : RunOf(d)
  BY DEF IInv, CallOf, Begin, At
<1>1. CASE UNCHANGED run /\ End(c)
  BY <1>0, <1>1, RunsKept, EndFrame
<1>2. ASSUME NEW r \in Runs, run[r].status = "unused",
             \A q \in Runs \ {r} : run'[q] = run[q],
             run'[r].status = "started", run'[r].shown = "nothing",
             \A d \in Calls \ {c} : call'[d] = call[d],
             \/ call'[c].run = r /\ call'[c].pc = "stream"
             \/ call'[c].run = None /\ run'[r].hit
      PROVE  RunsOK'
  <2>1. \A d \in Calls : call[d].run # r
    BY <1>0, <1>2, TurnsAssumption DEF RunOf
  <2>2. \A d \in Calls \ {c} : RunOf(d)'
    <3>1. ASSUME NEW d \in Calls \ {c}, call[d].run # None
          PROVE  /\ call[d].run \in Runs /\ run'[call[d].run] = run[call[d].run]
                 /\ call'[c].run # call[d].run
      BY <1>0, <1>2, <2>1, <3>1 DEF TypeOK, CallRecords
    <3> QED
      BY <1>0, <1>2, <3>1 DEF RunOf
  <2>3. RunOf(c)'
    BY <1>2, <2>1 DEF RunOf, Due
  <2>4. RunClosedWithTurn'
    <3> SUFFICES ASSUME NEW q \in Runs, run'[q].status \in {"started", "completed", "failed"},
                        \A d \in Calls : call'[d].run # q
                 PROVE  Closed(q)'
      BY DEF RunClosedWithTurn, Closed
    <3>1. CASE q = r
      BY <1>2, <3>1 DEF Closed
    <3>2. CASE q # r
      <4>1. run'[q] = run[q] /\ \A d \in Calls : call[d].run # q
        BY <1>0, <1>2, <3>2, TurnsAssumption
      <4> QED
        BY <4>1 DEF IInv, RunClosedWithTurn, Closed
    <3> QED
      BY <3>1, <3>2
  <2> QED
    BY <2>2, <2>3, <2>4 DEF RunsOK
<1>3. ASSUME NEW r \in Runs, run[r].status = "unused",
             \/ /\ run' = [run EXCEPT ![r] = StartedRun(call[c].row)]
                /\ call' = [call EXCEPT ![c] = [@ EXCEPT !.pc = "stream", !.run = r]]
             \/ /\ End(c)
                /\ run' = [run EXCEPT ![r] = [StartedRun(call[c].row) EXCEPT !.hit = TRUE]]
      PROVE  RunsOK'
  <2>1. StartedRun(call[c].row).status = "started" /\ StartedRun(call[c].row).shown = "nothing"
    BY DEF StartedRun, UnusedRun
  <2>2. /\ [StartedRun(call[c].row) EXCEPT !.hit = TRUE].status = "started"
        /\ [StartedRun(call[c].row) EXCEPT !.hit = TRUE].shown = "nothing"
    BY <2>1 DEF StartedRun, UnusedRun
  <2>3. [StartedRun(call[c].row) EXCEPT !.hit = TRUE].hit
    BY DEF StartedRun, UnusedRun
  <2>4. CASE /\ run' = [run EXCEPT ![r] = StartedRun(call[c].row)]
             /\ call' = [call EXCEPT ![c] = [@ EXCEPT !.pc = "stream", !.run = r]]
    <3>1. call'[c].run = r /\ call'[c].pc = "stream" /\ \A d \in Calls \ {c} : call'[d] = call[d]
      BY <1>0, <2>4 DEF TypeOK, CallRecords
    <3>2. run'[r].status = "started" /\ run'[r].shown = "nothing" /\ \A q \in Runs \ {r} : run'[q] = run[q]
      BY <1>0, <2>1, <2>4 DEF TypeOK
    <3> QED
      BY <1>2, <1>3, <3>1, <3>2
  <2>5. CASE /\ End(c)
             /\ run' = [run EXCEPT ![r] = [StartedRun(call[c].row) EXCEPT !.hit = TRUE]]
    <3>1. call'[c].run = None /\ \A d \in Calls \ {c} : call'[d] = call[d]
      BY <1>0, <2>5, EndFrame
    <3>2. /\ run'[r].status = "started" /\ run'[r].shown = "nothing" /\ run'[r].hit
          /\ \A q \in Runs \ {r} : run'[q] = run[q]
      BY <1>0, <2>2, <2>3, <2>5 DEF TypeOK
    <3> QED
      BY <1>2, <1>3, <3>1, <3>2
  <2> QED
    BY <1>3, <2>4, <2>5
<1> QED
  BY <1>1, <1>3 DEF Begin

(* What the stream writes of a run is not its status. *)
LEMMA RunKeepsStatus ==
    ASSUME TypeOK, NEW r \in Runs,
           \/ SetRun(r, "shown", "partial")
           \/ SetRun(r, "tools", TRUE) \/ SetRun(r, "hit", TRUE)
    PROVE  /\ \A q \in Runs \ {r} : run'[q] = run[q]
           /\ run'[r].status = run[r].status
           /\ run'[r].shown \in {run[r].shown, "partial"}
<1>1. /\ \A q \in Runs \ {r} : run'[q] = run[q]
      /\ \/ run'[r] = run[r]
         \/ run'[r] = [run[r] EXCEPT !.shown = "partial"]
         \/ run'[r] = [run[r] EXCEPT !.tools = TRUE]
         \/ run'[r] = [run[r] EXCEPT !.hit = TRUE]
  BY SetRunFacts
<1>2. run[r] \in RunRows
  BY DEF TypeOK, RunRows
<1>3. /\ [run[r] EXCEPT !.shown = "partial"].status = run[r].status
      /\ [run[r] EXCEPT !.tools = TRUE].status = run[r].status
      /\ [run[r] EXCEPT !.hit = TRUE].status = run[r].status
      /\ [run[r] EXCEPT !.shown = "partial"].shown = "partial"
      /\ [run[r] EXCEPT !.tools = TRUE].shown = run[r].shown
      /\ [run[r] EXCEPT !.hit = TRUE].shown = run[r].shown
  BY <1>2 DEF RunRows
<1> QED
  BY <1>1, <1>3

(* The stream, up to its end. *)
LEMMA StreamRuns ==
    ASSUME IInv, NEW c \in Calls, Delta(c) \/ Tool(c) \/ Streamed(c)
    PROVE  RunsOK'
<1> DEFINE r == call[c].run
<1>0. TypeOK /\ call[c].pc = "stream"
  BY DEF IInv, Delta, Tool, Streamed, At
<1>1. /\ r \in Runs /\ run[r] \in RunRows /\ run[r].status # "unused"
      /\ Due("stream", run[r])
  BY <1>0, TurnFacts DEF Finishing
<1>2. /\ \A q \in Runs \ {r} : run'[q] = run[q]
      /\ run'[r].status = run[r].status
      /\ run'[r].shown \in {run[r].shown, "partial"}
  <2>1. \/ UNCHANGED run \/ SetRun(r, "shown", "partial")
        \/ SetRun(r, "tools", TRUE) \/ SetRun(r, "hit", TRUE)
    BY DEF Delta, Tool, Streamed, RecordToolRun
  <2> HIDE DEF r
  <2> QED
    BY <1>0, <1>1, <2>1, RunKeepsStatus
<1>3. /\ \A d \in Calls \ {c} : call'[d] = call[d]
      /\ call'[c].run = r /\ call'[c].pc \in {"stream", "finish", "fail"}
  BY <1>0, GoToFrame DEF Delta, Tool, Streamed
<1>4. Due(call'[c].pc, run'[r])
  BY <1>1, <1>2, <1>3 DEF Due
<1> QED
  BY <1>1, <1>2, <1>3, <1>4, RunsMove

(* _safe_finish comes before the reply. *)
LEMMA FinishRuns ==
    ASSUME IInv, NEW c \in Calls, Finish(c) \/ Fail(c)
    PROVE  RunsOK'
<1> DEFINE r == call[c].run
<1>0. TypeOK /\ call[c].pc \in {"finish", "fail"}
  BY DEF IInv, Finish, Fail, At
<1>1. /\ r \in Runs /\ run[r] \in RunRows /\ run[r].status # "unused"
      /\ \/ run[r].status = "erased"
         \/ run[r].status = "started" /\ run[r].shown \in {"nothing", "partial"}
  BY <1>0, TurnFacts DEF Finishing, Due
<1>2. ASSUME NEW status \in {"completed", "failed"}, NEW next \in {"answer", "sorry"},
             status = "completed" <=> next = "answer", SafeFinish(c, status, next)
      PROVE  RunsOK'
  <2>1. /\ \A d \in Calls \ {c} : call'[d] = call[d]
        /\ call'[c].run = r /\ call'[c].pc = next
    BY <1>0, <1>2, GoToFrame DEF SafeFinish
  <2>2. CASE SetRun(r, "status", status)
    <3>1. /\ \A q \in Runs \ {r} : run'[q] = run[q]
          /\ \/ run'[r].status = "erased"
             \/ /\ run[r].status # "erased"
                /\ run'[r].status = status /\ run'[r].shown = run[r].shown
      <4>1. /\ [run[r] EXCEPT !.status = status].status = status
            /\ [run[r] EXCEPT !.status = status].shown = run[r].shown
        BY <1>1 DEF RunRows
      <4>2. /\ \A q \in Runs \ {r} : run'[q] = run[q]
            /\ run'[r] = IF run[r].status = "erased" THEN run[r]
                         ELSE [run[r] EXCEPT !.status = status]
        BY <1>0, <1>1, <1>2, <2>2, SetRunFacts
      <4> QED
        BY <4>1, <4>2
    <3>2. run'[r].status # "unused" /\ Due(next, run'[r])
      BY <1>1, <1>2, <3>1 DEF Due
    <3> QED
      BY <1>1, <2>1, <3>1, <3>2, RunsMove
  <2>3. CASE SetRun(r, "hit", TRUE)
    <3>1. /\ \A q \in Runs \ {r} : run'[q] = run[q]
          /\ run'[r].status = "erased" \/ run'[r].hit
          /\ run'[r].status = run[r].status /\ run'[r].shown = run[r].shown
      BY <1>0, <1>1, <2>3, StruckRun
    <3>2. run'[r].status # "unused" /\ Due(next, run'[r])
      BY <1>1, <3>1 DEF Due
    <3> QED
      BY <1>1, <2>1, <3>1, <3>2, RunsMove
  <2> QED
    BY <1>2, <2>2, <2>3 DEF SafeFinish
<1> QED
  BY <1>2 DEF Finish, Fail

(* The reply is the one that the record of the run calls for. *)
LEMMA ReplyRuns ==
    ASSUME IInv, NEW c \in Calls, Reply(c)
    PROVE  RunsOK'
<1> DEFINE r == call[c].run
<1>0. /\ TypeOK /\ call[c].pc \in {"answer", "sorry"} /\ End(c)
      /\ SetRun(r, "shown", call[c].pc)
  BY DEF IInv, Reply
<1>1. /\ r \in Runs /\ run[r] \in RunRows /\ run[r].status # "unused"
      /\ Due(call[c].pc, run[r])
  BY <1>0, TurnFacts DEF Finishing
<1>2. call'[c].run = None /\ \A d \in Calls \ {c} : call'[d] = call[d]
  BY <1>0, EndFrame
<1>3. /\ \A q \in Runs \ {r} : run'[q] = run[q]
      /\ run'[r] = IF run[r].status = "erased" THEN run[r]
                   ELSE [run[r] EXCEPT !.shown = call[c].pc]
  BY <1>0, <1>1, SetRunFacts
<1>4. CASE run[r].status = "erased"
  BY <1>1, <1>2, <1>3, <1>4, RunsMove DEF Closed
<1>5. CASE run[r].status # "erased"
  <2>1. /\ run'[r].status = run[r].status /\ run'[r].hit = run[r].hit
        /\ run'[r].shown = call[c].pc
    BY <1>1, <1>3, <1>5 DEF RunRows
  <2>2. \/ run[r].status = "started" /\ run[r].hit
        \/ run[r].status = "completed" /\ call[c].pc = "answer"
        \/ run[r].status = "failed" /\ call[c].pc = "sorry"
    BY <1>0, <1>1, <1>5 DEF Due
  <2>3. run'[r].status # "unused"
    BY <1>1, <2>1
  <2>4. \A q \in {r} : Closed(q)'
    BY <2>1, <2>2 DEF Closed
  <2> QED
    BY <1>1, <1>2, <1>3, <2>3, <2>4, RunsMove
<1> QED
  BY <1>4, <1>5

(* A turn that is stopped strikes its run. *)
LEMMA CancelRuns ==
    ASSUME IInv, NEW c \in Calls, Cancel(c)
    PROVE  RunsOK'
<1> DEFINE r == call[c].run
<1>0. /\ TypeOK /\ End(c) /\ (IF r = None THEN UNCHANGED run ELSE SetRun(r, "hit", TRUE))
      /\ CallOf(c)
  BY DEF IInv, Cancel
<1>1. call'[c].run = None /\ \A d \in Calls \ {c} : call'[d] = call[d]
  BY <1>0, EndFrame
<1>2. CASE r = None
  BY <1>0, <1>1, <1>2, RunsKept
<1>3. CASE r # None
  <2>1. /\ r \in Runs /\ run[r] \in RunRows /\ run[r].status # "unused"
        /\ run[r].status = "erased" \/ run[r].shown \in {"nothing", "partial"}
    BY <1>0, <1>3, TurnFacts DEF CallOf, Finishing, Due
  <2>4. SetRun(r, "hit", TRUE)
    BY <1>0, <1>3
  <2>2. /\ \A q \in Runs \ {r} : run'[q] = run[q]
        /\ run'[r].status = "erased" \/ run'[r].hit
        /\ run'[r].status = run[r].status /\ run'[r].shown = run[r].shown
    BY <1>0, <2>1, <2>4, StruckRun
  <2>3. \A q \in {r} : Closed(q)'
    BY <2>1, <2>2 DEF Closed
  <2> QED
    BY <1>1, <2>1, <2>2, <2>3, RunsMove
<1> QED
  BY <1>2, <1>3

-----------------------------------------------------------------------------
(* Rows, calls and sessions *)

AllOps == {"start", "resume", "message", "settings", "update", "delete"}

LEMMA RowFacts ==
    /\ \A row \in ThreadRows :
          /\ row # None /\ row.id \in Nat \ {0} /\ row.conv \in Conversations
          /\ row.model \in Models
          /\ \A m \in Models : /\ [row EXCEPT !.model = m] \in ThreadRows
                               /\ [row EXCEPT !.model = m].id = row.id
                               /\ [row EXCEPT !.model = m].conv = row.conv
    /\ NewSocket \in SocketRecords /\ NewSocket.cached = None
    /\ \A v \in Conversations : v # None
    /\ Ops \subseteq AllOps
BY NoneAssumption, TurnsAssumption DEF ThreadRows, NewSocket, SocketRecords, AllOps

(* Who knows a row. *)
LEMMA Known ==
    ASSUME TypeOK
    PROVE  /\ KnownRows \subseteq ThreadRows
           /\ thread # None => thread \in KnownRows
           /\ \A c \in Calls : call[c].row # None => call[c].row \in KnownRows
           /\ \A s \in Sockets : socket[s].cached # None => socket[s].cached \in KnownRows
BY DEF TypeOK, KnownRows, CallRecords, SocketRecords

(* A call goes on with a row, or ends with it in the session. *)
LEMMA ProceedFrame ==
    ASSUME TypeOK, NEW c \in Calls, NEW row \in ThreadRows,
           call[c].op \in AllOps, call[c].socket \in Sockets, call[c].run = None,
           Proceed(c, row)
    PROVE  /\ call' \in [Calls -> CallRecords]
           /\ \A d \in Calls \ {c} : call'[d] = call[d]
           /\ call'[c].conv = None /\ call'[c].run = None
           /\ \/ call'[c].pc = "idle" /\ call'[c].row = None
              \/ /\ call'[c].pc \in {"begin", "write", "provider"}
                 /\ call'[c].row = row /\ call'[c].op = call[c].op
                 /\ call'[c].socket = call[c].socket
           /\ socket' \in [Sockets -> SocketRecords]
           /\ \A s \in Sockets : socket'[s].cached \in {socket[s].cached, row}
<1>0. row.model \in Models /\ call[c] \in CallRecords
  BY RowFacts DEF TypeOK
<1>1. CASE call[c].op \in {"start", "resume"}
  <2>1. End(c) /\ Cache(call[c].socket, row)
    BY <1>1 DEF Proceed
  <2>2. [cached |-> row, model |-> row.model] \in SocketRecords
    BY <1>0 DEF SocketRecords
  <2>3. /\ socket' \in [Sockets -> SocketRecords]
        /\ \A s \in Sockets : socket'[s].cached \in {socket[s].cached, row}
    BY <2>1, <2>2 DEF Cache, TypeOK
  <2> QED
    BY <2>1, <2>3, EndFrame
<1>2. CASE call[c].op \notin {"start", "resume"}
  <2> DEFINE pc == CASE call[c].op = "message" -> "begin"
                     [] call[c].op \in {"settings", "update"} -> "write"
                     [] call[c].op = "delete" -> "provider"
             new == [call[c] EXCEPT !.row = row, !.conv = None, !.pc = pc]
  <2>1. pc \in {"begin", "write", "provider"}
    BY <1>2 DEF AllOps
  <2> HIDE DEF pc
  <2>2. /\ new \in CallRecords /\ new.row = row /\ new.conv = None /\ new.pc = pc
        /\ new.op = call[c].op /\ new.socket = call[c].socket /\ new.run = None
    BY <1>0, <2>1 DEF CallRecords
  <2>3. call' = [call EXCEPT ![c] = new] /\ socket' = socket
    BY <1>2 DEF Proceed, pc
  <2> HIDE DEF new
  <2>4. /\ call' \in [Calls -> CallRecords] /\ call'[c] = new
        /\ \A d \in Calls \ {c} : call'[d] = call[d]
    BY <2>2, <2>3 DEF TypeOK
  <2> QED
    BY <2>1, <2>2, <2>3, <2>4 DEF TypeOK
<1> QED
  BY <1>1, <1>2

(* A callback arrives with what its session has cached. *)
LEMMA ArriveFrame ==
    ASSUME TypeOK, NEW c \in Calls, NEW s \in Sockets, NEW op \in Ops, NEW m \in Models,
           Arrive(c, s, op, m)
    PROVE  /\ call' \in [Calls -> CallRecords]
           /\ \A d \in Calls \ {c} : call'[d] = call[d]
           /\ call'[c].conv = None /\ call'[c].run = None /\ call'[c].op = op
           /\ call'[c].socket = s /\ call[c].pc = "idle"
           /\ \/ call'[c].pc = "lookup" /\ call'[c].row = None
              \/ /\ call'[c].pc \in {"begin", "write"}
                 /\ socket[s].cached # None /\ call'[c].row = socket[s].cached
<1> DEFINE fresh == op \notin {"message", "settings"} \/ socket[s].cached = None
           row == IF fresh THEN None ELSE socket[s].cached
           pc == CASE fresh -> "lookup"
                   [] ~fresh /\ op = "message" -> "begin"
                   [] ~fresh /\ op = "settings" -> "write"
           new == [NoCall EXCEPT !.op = op, !.socket = s, !.model = m, !.row = row, !.pc = pc]
<1>1. pc \in {"lookup", "begin", "write"} /\ (pc = "lookup" <=> fresh)
  BY DEF AllOps
<1>2. row \in ThreadRows \cup {None} /\ (fresh => row = None)
      /\ (~fresh => row = socket[s].cached /\ socket[s].cached # None)
  BY DEF TypeOK, SocketRecords
<1>3. call' = [call EXCEPT ![c] = new] /\ call[c].pc = "idle"
  BY DEF Arrive, At
<1> HIDE DEF pc, row, fresh
<1>4. op \in AllOps
  BY RowFacts
<1>5. /\ new \in CallRecords /\ new.op = op /\ new.socket = s /\ new.row = row
      /\ new.pc = pc /\ new.conv = None /\ new.run = None
  BY <1>1, <1>2, <1>4 DEF NoCall, CallRecords, AllOps
<1> HIDE DEF new
<1>6. /\ call' \in [Calls -> CallRecords] /\ call'[c] = new
      /\ \A d \in Calls \ {c} : call'[d] = call[d]
  BY <1>3, <1>5 DEF TypeOK
<1> QED
  BY <1>1, <1>2, <1>3, <1>5, <1>6

-----------------------------------------------------------------------------
(* Rows and Conversations *)

RowsOK == RowsInv /\ (\A c \in Calls : ConvOf(c)) /\ ConversationAccounted

(* Facts about the rows a step still knows. *)
SameRows ==
    \A a \in KnownRows' : \E b \in KnownRows : a.id = b.id /\ a.conv = b.conv

(* No step makes a Conversation one that was not used, and only one that   *)
(* was not is created.                                                     *)
ProviderMoves ==
    \A v \in Conversations : \/ provider'[v] = provider[v]
                             \/ provider[v] = "unused" /\ provider'[v] = "open"
                             \/ provider[v] # "unused" /\ provider'[v] = "deleted"

(* A step that inserts no row. *)
LEMMA RowsKept ==
    ASSUME IInv, NEW C \in SUBSET Calls, SameRows, ProviderMoves,
           \A d \in Calls \ C : call'[d] = call[d],
           opened' = opened, stray \subseteq stray',
           \A a \in KnownRows : Exists(a) => Exists(a)' \/ provider'[a.conv] # "open",
           \A d \in Calls \ C : At(d, "insert") =>
                                   provider'[call[d].conv] = provider[call[d].conv],
           \A c \in C : \/ call'[c].conv \in {None, call[c].conv}
                        \/ provider[call'[c].conv] = "unused"
    PROVE  RowsInv' /\ \A d \in Calls \ C : ConvOf(d)'
<1>0. /\ TypeOK /\ RowsInv /\ \A c \in Calls : CallOf(c) /\ ConvOf(c)
      /\ KnownRows \subseteq ThreadRows
  BY Known DEF IInv
<1>1. RowsInv'
  <2>1. ASSUME NEW a \in KnownRows'
        PROVE  /\ a.id <= opened' /\ provider'[a.conv] # "unused"
               /\ provider'[a.conv] = "open" => Exists(a)'
    <3>1. PICK b \in KnownRows : a.id = b.id /\ a.conv = b.conv
      BY DEF SameRows
    <3>2. b.conv \in Conversations
      BY <1>0, RowFacts
    <3>3. /\ b.id <= opened /\ provider[b.conv] # "unused"
          /\ provider[b.conv] = "open" => Exists(b)
      BY <1>0 DEF RowsInv
    <3>4. /\ provider'[b.conv] # "unused"
          /\ provider'[b.conv] = "open" => provider[b.conv] = "open"
      BY <3>2, <3>3 DEF ProviderMoves
    <3>5. Exists(b)' => Exists(a)'
      BY <3>1 DEF Exists
    <3> QED
      BY <3>1, <3>3, <3>4, <3>5
  <2>2. ASSUME NEW a \in KnownRows', NEW b \in KnownRows'
        PROVE  a.id = b.id <=> a.conv = b.conv
    <3>1. PICK a0 \in KnownRows : a.id = a0.id /\ a.conv = a0.conv
      BY DEF SameRows
    <3>2. PICK b0 \in KnownRows : b.id = b0.id /\ b.conv = b0.conv
      BY DEF SameRows
    <3> QED
      BY <1>0, <3>1, <3>2 DEF RowsInv
  <2> QED
    BY <2>1, <2>2 DEF RowsInv
<1>2. ASSUME NEW d \in Calls \ C
      PROVE  ConvOf(d)'
  <2> DEFINE k == call[d]
  <2>0. ConvOf(d) /\ call'[d] = k /\ k \in CallRecords
    BY <1>0 DEF TypeOK
  <2>1. k.conv # None =>
           /\ k.conv \in Conversations /\ provider'[k.conv] # "unused"
           /\ \A e \in Calls : call'[e].conv = k.conv => e = d
    <3> SUFFICES ASSUME k.conv # None
                 PROVE  /\ k.conv \in Conversations /\ provider'[k.conv] # "unused"
                        /\ \A e \in Calls : call'[e].conv = k.conv => e = d
      OBVIOUS
    <3>1. /\ k.conv \in Conversations /\ provider[k.conv] # "unused"
          /\ \A e \in Calls : call[e].conv = k.conv => e = d
      BY <2>0 DEF ConvOf, CallRecords
    <3>2. provider'[k.conv] # "unused"
      BY <3>1 DEF ProviderMoves
    <3>3. ASSUME NEW e \in Calls, call'[e].conv = k.conv
          PROVE  e = d
      BY <3>1, <3>3
    <3> QED
      BY <3>1, <3>2, <3>3
  <2>2. (\A a \in KnownRows : a.conv # k.conv) => \A a \in KnownRows' : a.conv # k.conv
    BY DEF SameRows
  <2>3. k.pc = "insert" => /\ provider'[k.conv] = "open"
                           /\ \A a \in KnownRows' : a.conv # k.conv
    BY <2>0, <2>2 DEF ConvOf, At
  <2>4. k.pc = "undo" => k.conv \in stray' \/ \A a \in KnownRows' : a.conv # k.conv
    BY <2>0, <2>2 DEF ConvOf
  <2>5. k.pc = "row" => provider'[k.row.conv] = "deleted"
    <3>1. k.pc = "row" => k.row \in ThreadRows /\ provider[k.row.conv] = "deleted"
      BY <1>0, <2>0 DEF ConvOf, TypeOK, CallRecords
    <3> QED
      BY <3>1, RowFacts DEF ProviderMoves
  <2> QED
    BY <2>0, <2>1, <2>3, <2>4, <2>5 DEF ConvOf
<1> QED
  BY <1>1, <1>2

(* What a step must show of the Conversations it has to do with. *)
LEMMA AccountedSuffices ==
    ASSUME IInv, NEW C \in SUBSET Calls,
           \A d \in Calls \ C : call'[d] = call[d], stray \subseteq stray',
           \A v \in Conversations : provider'[v] = "open" =>
              provider[v] = "open" \/ \E c \in C : v \in Holds(c)',
           \A c \in C : \A v \in Holds(c) : provider'[v] = "open" =>
              v \in stray' \/ v \in Holds(c)' \/ (thread' # None /\ thread'.conv = v),
           thread # None =>
              \/ thread' # None /\ thread'.conv = thread.conv
              \/ thread' = None /\ provider'[thread.conv] # "open",
           thread' # None =>
              \/ provider'[thread'.conv] = "open"
              \/ thread'.conv \in stray'
              \/ \E c \in C : At(c, "row")' /\ call'[c].row.conv = thread'.conv
              \/ /\ thread # None /\ thread'.conv = thread.conv
                 /\ provider'[thread.conv] = provider[thread.conv]
                 /\ \A c \in C : At(c, "row") => call[c].row.conv # thread.conv
    PROVE  ConversationAccounted'
<1>0. ConversationAccounted
  BY DEF IInv
<1>1. ASSUME NEW v \in Conversations, provider'[v] = "open"
      PROVE  \/ v \in stray'
             \/ thread' # None /\ thread'.conv = v
             \/ \E c \in Calls : v \in Holds(c)'
  <2>1. CASE \E c \in C : v \in Holds(c)'
    BY <2>1
  <2>2. CASE provider[v] = "open"
    <3>1. CASE v \in stray
      BY <3>1
    <3>2. CASE thread # None /\ thread.conv = v
      BY <1>1, <3>2
    <3>3. ASSUME NEW d \in Calls, v \in Holds(d)
          PROVE  \/ v \in stray'
                 \/ thread' # None /\ thread'.conv = v
                 \/ \E c \in Calls : v \in Holds(c)'
      <4>1. CASE d \in C
        BY <1>1, <3>3, <4>1
      <4>2. CASE d \notin C
        <5>1. Holds(d)' = Holds(d)
          BY <4>2 DEF Holds, At
        <5> QED
          BY <3>3, <5>1
      <4> QED
        BY <4>1, <4>2
    <3> QED
      BY <1>0, <2>2, <3>1, <3>2, <3>3 DEF ConversationAccounted
  <2> QED
    BY <1>1, <2>1, <2>2
<1>2. ASSUME thread' # None, provider'[thread'.conv] # "open"
      PROVE  \/ thread'.conv \in stray'
             \/ \E c \in Calls : At(c, "row")' /\ call'[c].row.conv = thread'.conv
  <2>1. CASE /\ thread # None /\ thread'.conv = thread.conv
             /\ provider'[thread.conv] = provider[thread.conv]
             /\ \A c \in C : At(c, "row") => call[c].row.conv # thread.conv
    <3>1. \/ thread.conv \in stray
          \/ \E c \in Calls : At(c, "row") /\ call[c].row.conv = thread.conv
      BY <1>0, <1>2, <2>1 DEF ConversationAccounted
    <3>2. ASSUME NEW c \in Calls, At(c, "row"), call[c].row.conv = thread.conv
          PROVE  At(c, "row")' /\ call'[c].row.conv = thread'.conv
      <4>1. c \notin C
        BY <2>1, <3>2
      <4> QED
        BY <2>1, <3>2, <4>1 DEF At
    <3> QED
      BY <2>1, <3>1, <3>2
  <2> QED
    BY <1>2, <2>1
<1> QED
  BY <1>1, <1>2 DEF ConversationAccounted

(* A step that only moves calls, between the rows that are known. *)
LEMMA RowsQuiet ==
    ASSUME IInv, NEW C \in SUBSET Calls, KnownRows' \subseteq KnownRows,
           UNCHANGED <<thread, opened, provider>>, stray \subseteq stray',
           \A d \in Calls \ C : call'[d] = call[d],
           \A c \in C : /\ call'[c].conv = None
                        /\ call'[c].pc \notin {"insert", "undo", "row"}
                        /\ Holds(c) \subseteq stray'
    PROVE  RowsOK'
<1>1. SameRows /\ ProviderMoves
  BY DEF SameRows, ProviderMoves
<1>2. RowsInv' /\ \A d \in Calls \ C : ConvOf(d)'
  BY <1>1, RowsKept DEF Exists
<1>3. \A c \in C : ConvOf(c)'
  BY DEF ConvOf
<1>4. ConversationAccounted'
  <2>1. ASSUME thread' # None
        PROVE  \/ provider'[thread'.conv] = "open"
               \/ thread'.conv \in stray'
               \/ \E c \in C : At(c, "row")' /\ call'[c].row.conv = thread'.conv
               \/ /\ thread # None /\ thread'.conv = thread.conv
                  /\ provider'[thread.conv] = provider[thread.conv]
                  /\ \A c \in C : At(c, "row") => call[c].row.conv # thread.conv
    <3>1. \A c \in C : At(c, "row") => call[c].row.conv \in stray'
      BY DEF Holds
    <3>2. thread' = thread /\ provider' = provider
      OBVIOUS
    <3> QED
      BY <2>1, <3>1, <3>2
  <2>2. \A v \in Conversations : provider'[v] = "open" =>
           provider[v] = "open" \/ \E c \in C : v \in Holds(c)'
    OBVIOUS
  <2>3. \A c \in C : \A v \in Holds(c) : provider'[v] = "open" =>
           v \in stray' \/ v \in Holds(c)' \/ (thread' # None /\ thread'.conv = v)
    OBVIOUS
  <2>4. thread # None => \/ thread' # None /\ thread'.conv = thread.conv
                         \/ thread' = None /\ provider'[thread.conv] # "open"
    OBVIOUS
  <2> QED
    BY <2>1, <2>2, <2>3, <2>4, AccountedSuffices
<1> QED
  BY <1>2, <1>3, <1>4 DEF RowsOK

-----------------------------------------------------------------------------
(* The steps *)

(* A step of the calls C keeps the invariant. *)
StepOK(C) ==
    /\ TypeOK' /\ \A d \in Calls \ C : call'[d] = call[d]
    /\ \A c \in C : CallOf(c)'
    /\ RowsOK' /\ RunsOK'

(* The rows that are known after a step. *)
LEMMA KnownAfter ==
    ASSUME TypeOK, NEW C \in SUBSET Calls, NEW R, KnownRows \subseteq R,
           \A d \in Calls \ C : call'[d] = call[d],
           thread' \in R \cup {None},
           \A s \in Sockets : socket'[s].cached \in R \cup {None},
           \A c \in C : call'[c].row \in R \cup {None}
    PROVE  KnownRows' \subseteq R
<1>1. \A c \in Calls : call'[c].row \in R \cup {None}
  BY Known
<1> QED
  BY <1>1 DEF KnownRows

(* A step of one call that leaves the rows and the Conversations. *)
LEMMA QuietCall ==
    ASSUME IInv, NEW c \in Calls, UNCHANGED <<thread, opened, provider>>,
           stray \subseteq stray', \A d \in Calls \ {c} : call'[d] = call[d],
           \A s \in Sockets : socket'[s].cached \in KnownRows \cup {None},
           call'[c].row \in KnownRows \cup {None}, call'[c].conv = None,
           call'[c].pc \notin {"insert", "undo", "row"}, Holds(c) \subseteq stray'
    PROVE  RowsOK'
<1> DEFINE C == {c}
<1>1. C \in SUBSET Calls /\ \A d \in Calls \ C : call'[d] = call[d]
  OBVIOUS
<1>2. /\ thread' \in KnownRows \cup {None} /\ TypeOK
      /\ \A d \in C : call'[d].row \in KnownRows \cup {None}
  BY Known DEF IInv
<1>3. \A d \in C : /\ call'[d].conv = None
                   /\ call'[d].pc \notin {"insert", "undo", "row"}
                   /\ Holds(d) \subseteq stray'
  OBVIOUS
<1> HIDE DEF C
<1>4. KnownRows' \subseteq KnownRows
  BY <1>1, <1>2, KnownAfter
<1> QED
  BY <1>1, <1>3, <1>4, RowsQuiet

LEMMA ArriveStep ==
    ASSUME IInv, NEW c \in Calls, NEW s \in Sockets, NEW op \in Ops, NEW m \in Models,
           Arrive(c, s, op, m)
    PROVE  StepOK({c})
<1>0. /\ TypeOK /\ (\A d \in Calls : CallOf(d)) /\ op \in AllOps
      /\ UNCHANGED <<thread, opened, provider, run, socket, stray>>
  BY RowFacts DEF IInv, Arrive
<1>1. /\ call' \in [Calls -> CallRecords]
      /\ \A d \in Calls \ {c} : call'[d] = call[d]
      /\ call'[c].conv = None /\ call'[c].run = None /\ call'[c].op = op
      /\ call'[c].socket = s /\ call[c].pc = "idle"
      /\ call'[c].pc \in {"lookup", "begin", "write"}
      /\ call'[c].row \in {None, socket[s].cached}
      /\ call'[c].pc # "lookup" => call'[c].row # None
  BY <1>0, ArriveFrame
<1>2. TypeOK'
  BY <1>0, <1>1 DEF TypeOK
<1>3. CallOf(c)'
  BY <1>0, <1>1 DEF CallOf, AllOps
<1>4. call[c].conv = None /\ call[c].run = None /\ Holds(c) = {}
  BY <1>0, <1>1 DEF CallOf, Holds, At
<1>5. /\ \A r \in Sockets : socket'[r].cached \in KnownRows \cup {None}
      /\ call'[c].row \in KnownRows \cup {None}
  BY <1>0, <1>1, Known
<1>6. RowsOK'
  BY <1>0, <1>1, <1>4, <1>5, QuietCall
<1>7. RunsOK'
  BY <1>0, <1>1, <1>4, RunsKept
<1> QED
  BY <1>1, <1>2, <1>3, <1>6, <1>7 DEF StepOK

(* get_thread_by_chainlit_id *)
LEMMA LookupStep ==
    ASSUME IInv, NEW c \in Calls, Lookup(c)
    PROVE  StepOK({c})
<1>0. /\ TypeOK /\ CallOf(c) /\ call[c].pc = "lookup"
      /\ UNCHANGED <<thread, opened, provider, run, stray>>
  BY DEF IInv, Lookup, At
<1>1. /\ call[c].conv = None /\ call[c].run = None /\ Holds(c) = {}
      /\ call[c].op \in AllOps /\ call[c].socket \in Sockets
      /\ call[c].row \in KnownRows \cup {None}
  <2>1. call[c] \in CallRecords
    BY <1>0 DEF TypeOK
  <2> QED
    BY <1>0, <2>1, Known DEF CallOf, Holds, At, CallRecords, AllOps
<1>2. ASSUME call' \in [Calls -> CallRecords],
             \A d \in Calls \ {c} : call'[d] = call[d],
             call'[c].conv = None, call'[c].run = None,
             \/ call'[c].pc = "idle" /\ call'[c].row = None
             \/ /\ call'[c].pc \in {"begin", "write", "provider"}
                /\ call'[c].row # None /\ call'[c].row = thread
                /\ call'[c].op = call[c].op /\ call'[c].socket = call[c].socket
             \/ /\ call'[c].pc = "create" /\ call'[c].row = call[c].row
                /\ call'[c].op = call[c].op /\ call'[c].socket = call[c].socket,
             socket' \in [Sockets -> SocketRecords],
             \A s \in Sockets : socket'[s].cached \in {socket[s].cached, thread}
      PROVE  StepOK({c})
  <2>1. TypeOK'
    BY <1>0, <1>2 DEF TypeOK
  <2>2. CallOf(c)'
    BY <1>1, <1>2 DEF CallOf, AllOps
  <2>3. /\ \A r \in Sockets : socket'[r].cached \in KnownRows \cup {None}
        /\ call'[c].row \in KnownRows \cup {None}
    <3>1. thread \in KnownRows \cup {None}
      BY <1>0, Known
    <3> QED
      BY <1>0, <1>1, <1>2, <3>1, Known
  <2>4. RowsOK'
    BY <1>0, <1>1, <1>2, <2>3, QuietCall
  <2>5. RunsOK'
    BY <1>0, <1>1, <1>2, RunsKept
  <2> QED
    BY <1>2, <2>1, <2>2, <2>4, <2>5 DEF StepOK
<1>3. CASE thread # None /\ Proceed(c, thread)
  <2>1. thread \in ThreadRows
    BY <1>0, <1>3 DEF TypeOK
  <2> QED
    BY <1>0, <1>1, <1>2, <1>3, <2>1, ProceedFrame
<1>4. CASE UNCHANGED socket /\ GoTo(c, "create")
  <2>1. socket' \in [Sockets -> SocketRecords]
    BY <1>0, <1>4 DEF TypeOK
  <2> QED
    BY <1>0, <1>1, <1>2, <1>4, <2>1, GoToFrame
<1>5. CASE UNCHANGED socket /\ End(c)
  <2>1. socket' \in [Sockets -> SocketRecords]
    BY <1>0, <1>5 DEF TypeOK
  <2> QED
    BY <1>0, <1>1, <1>2, <1>5, <2>1, EndFrame
<1> QED
  BY <1>3, <1>4, <1>5 DEF Lookup

(* The steps of a turn and its end write no row. *)
LEMMA TurnStep ==
    ASSUME IInv, NEW c \in Calls, Turn(c)
    PROVE  StepOK({c})
<1>0. /\ TypeOK /\ CallOf(c) /\ UNCHANGED <<thread, opened, provider, socket, stray>>
      /\ call[c].pc \in Finishing \cup {"begin"} /\ call[c] \in CallRecords
  BY DEF IInv, Turn, Begin, Delta, Tool, Streamed, Finish, Fail, Reply, SafeFinish, At,
     Finishing, TypeOK
<1>1. /\ call[c].conv = None /\ Holds(c) = {} /\ call[c].row \in KnownRows \cup {None}
      /\ call[c].op # "none" /\ call[c].socket \in Sockets
      /\ call[c].pc \in Finishing => call[c].run \in Runs /\ call[c].run # None
  BY <1>0, Known DEF CallOf, Holds, At, Finishing, CallRecords
<1>2. RunsOK'
  BY BeginRuns, StreamRuns, FinishRuns, ReplyRuns DEF Turn
<1>3. run' \in [Runs -> RunRows]
  <2>1. CASE Begin(c)
    <3>1. \/ UNCHANGED run
          \/ \E r \in Runs : \/ run' = [run EXCEPT ![r] = StartedRun(call[c].row)]
                             \/ run' = [run EXCEPT ![r] =
                                          [StartedRun(call[c].row) EXCEPT !.hit = TRUE]]
      BY <2>1 DEF Begin
    <3>2. call[c].row # None
      BY <1>0, <2>1 DEF Begin, At, TypeOK
    <3>3. call[c].row.id \in Nat
      BY <1>1, <3>2, <1>0, Known, RowFacts
    <3>4. /\ StartedRun(call[c].row) \in RunRows
          /\ [StartedRun(call[c].row) EXCEPT !.hit = TRUE] \in RunRows
      BY <3>3 DEF StartedRun, UnusedRun, RunRows
    <3> HIDE DEF StartedRun
    <3> QED
      BY <1>0, <3>1, <3>4 DEF TypeOK
  <2>2. CASE ~Begin(c)
    <3>1. call[c].run \in Runs
      BY <1>0, <1>1, <2>2 DEF Turn, Delta, Tool, Streamed, Finish, Fail, Reply, At, Finishing
    <3>2. \/ UNCHANGED run
          \/ \E status \in {"completed", "failed"} : SetRun(call[c].run, "status", status)
          \/ \E shown \in {"partial", "answer", "sorry"} : SetRun(call[c].run, "shown", shown)
          \/ SetRun(call[c].run, "tools", TRUE)
          \/ SetRun(call[c].run, "hit", TRUE)
      BY <2>2 DEF Turn, Delta, Tool, Streamed, Finish, Fail, Reply, SafeFinish, RecordToolRun
    <3> QED
      BY <1>0, <3>1, <3>2, SetRunFacts DEF TypeOK
  <2> QED
    BY <2>1, <2>2
<1>4. ASSUME call' \in [Calls -> CallRecords],
             \A d \in Calls \ {c} : call'[d] = call[d],
             call'[c].conv = None,
             \/ call'[c] = NoCall
             \/ /\ call'[c].pc \in Finishing /\ call'[c].run \in Runs
                /\ call'[c].row = call[c].row /\ call'[c].op = call[c].op
                /\ call'[c].socket = call[c].socket
                /\ call'[c].pc = "stream" => call[c].row # None
      PROVE  StepOK({c})
  <2>1. TypeOK'
    BY <1>0, <1>3, <1>4 DEF TypeOK, NoCall, Finishing
  <2>2. CallOf(c)'
    BY <1>1, <1>4, TurnsAssumption DEF CallOf, NoCall, Finishing
  <2>3. call'[c].row \in KnownRows \cup {None}
    BY <1>1, <1>4 DEF NoCall
  <2>4. call'[c].pc \notin {"insert", "undo", "row"}
    BY <1>4 DEF NoCall, Finishing
  <2>5. \A s \in Sockets : socket'[s].cached \in KnownRows \cup {None}
    BY <1>0, Known
  <2>6. RowsOK'
    BY <1>0, <1>1, <1>4, <2>3, <2>4, <2>5, QuietCall
  <2> QED
    BY <1>2, <1>4, <2>1, <2>2, <2>6 DEF StepOK
<1>5. CASE End(c)
  BY <1>0, <1>4, <1>5, EndFrame
<1>6. CASE UNCHANGED call /\ call[c].pc \in Finishing
  BY <1>0, <1>1, <1>4, <1>6 DEF TypeOK
<1>7. ASSUME NEW pc \in {"finish", "answer", "fail", "sorry"}, GoTo(c, pc),
             call[c].pc \in Finishing
      PROVE  StepOK({c})
  BY <1>0, <1>1, <1>4, <1>7, GoToFrame DEF Finishing
<1>8. ASSUME NEW r \in Runs, call[c].pc = "begin",
             call' = [call EXCEPT ![c] = [@ EXCEPT !.pc = "stream", !.run = r]]
      PROVE  StepOK({c})
  <2> DEFINE new == [call[c] EXCEPT !.pc = "stream", !.run = r]
  <2>1. /\ new \in CallRecords /\ new.pc = "stream" /\ new.run = r
        /\ new.row = call[c].row /\ new.op = call[c].op /\ new.socket = call[c].socket
        /\ new.conv = None
    BY <1>0, <1>1 DEF CallRecords
  <2>2. call' = [call EXCEPT ![c] = new]
    BY <1>8
  <2> HIDE DEF new
  <2>3. /\ call' \in [Calls -> CallRecords] /\ call'[c] = new
        /\ \A d \in Calls \ {c} : call'[d] = call[d]
    BY <1>0, <2>1, <2>2 DEF TypeOK
  <2>4. call[c].row # None
    BY <1>0, <1>8 DEF TypeOK
  <2> QED
    BY <1>4, <2>1, <2>3, <2>4 DEF Finishing
<1>9. CASE Begin(c)
  BY <1>5, <1>8, <1>9 DEF Begin, At
<1>10. CASE Delta(c) \/ Tool(c) \/ Streamed(c)
  BY <1>6, <1>7, <1>10 DEF Delta, Tool, Streamed, At, Finishing
<1>11. CASE Finish(c) \/ Fail(c) \/ Reply(c)
  BY <1>5, <1>7, <1>11 DEF Finish, Fail, Reply, SafeFinish, At, Finishing
<1> QED
  BY <1>9, <1>10, <1>11 DEF Turn

(* What the call held is separated from it. *)
LEMMA CancelStep ==
    ASSUME IInv, NEW c \in Calls, Cancel(c)
    PROVE  StepOK({c})
<1>0. /\ TypeOK /\ CallOf(c) /\ UNCHANGED <<thread, opened, provider, socket>> /\ End(c)
      /\ stray' = stray \cup Holds(c) /\ call[c] \in CallRecords
  BY DEF IInv, Cancel, TypeOK
<1>1. /\ call' \in [Calls -> CallRecords] /\ call'[c] = NoCall
      /\ \A d \in Calls \ {c} : call'[d] = call[d]
      /\ NoCall.op = "none" /\ NoCall.pc = "idle" /\ NoCall.row = None
      /\ NoCall.conv = None /\ NoCall.run = None
  BY <1>0, EndFrame
<1>2. run' \in [Runs -> RunRows]
  <2>1. CASE call[c].run = None
    BY <1>0, <2>1 DEF Cancel, TypeOK
  <2>2. CASE call[c].run # None
    BY <1>0, <2>2, SetRunFacts DEF Cancel, CallRecords
  <2> QED
    BY <2>1, <2>2
<1>3. Holds(c) \subseteq Conversations
  <2>1. At(c, "row") => call[c].row \in ThreadRows
    BY <1>0 DEF TypeOK, At, CallRecords
  <2> QED
    BY <1>0, <2>1, RowFacts DEF Holds, CallRecords
<1>4. TypeOK'
  BY <1>0, <1>1, <1>2, <1>3 DEF TypeOK
<1>5. CallOf(c)'
  BY <1>1 DEF CallOf
<1>6. RowsOK'
  BY <1>0, <1>1, Known, QuietCall
<1>7. RunsOK'
  BY CancelRuns
<1> QED
  BY <1>1, <1>4, <1>5, <1>6, <1>7 DEF StepOK

(* A new websocket session has cached nothing. *)
LEMMA DisconnectStep ==
    ASSUME IInv, NEW s \in Sockets, Disconnect(s)
    PROVE  StepOK({})
<1>0. /\ TypeOK /\ UNCHANGED <<thread, opened, provider, run, call, stray>>
      /\ socket' = [socket EXCEPT ![s] = NewSocket]
  BY DEF IInv, Disconnect
<1>1. socket' \in [Sockets -> SocketRecords]
      /\ \A r \in Sockets : socket'[r].cached \in {socket[r].cached, None}
  BY <1>0, RowFacts DEF TypeOK
<1>2. TypeOK'
  BY <1>0, <1>1 DEF TypeOK
<1>3. KnownRows' \subseteq KnownRows
  BY <1>0, <1>1 DEF KnownRows
<1>4. RowsOK'
  <2>1. /\ {} \in SUBSET Calls /\ \A d \in Calls \ {} : call'[d] = call[d]
        /\ stray \subseteq stray'
    BY <1>0
  <2> QED
    BY <1>0, <1>3, <2>1, RowsQuiet
<1>5. RunsOK'
  BY <1>0, RunsKept
<1> QED
  BY <1>0, <1>2, <1>4, <1>5 DEF StepOK

(* conversations.create: the new Conversation is known to its call alone. *)
LEMMA CreateStep ==
    ASSUME IInv, NEW c \in Calls, Create(c)
    PROVE  StepOK({c})
<1>0. /\ TypeOK /\ CallOf(c) /\ call[c].pc = "create" /\ call[c] \in CallRecords
      /\ UNCHANGED <<thread, opened, run, socket>>
      /\ RowsInv /\ \A d \in Calls : ConvOf(d)
  BY DEF IInv, Create, At, TypeOK
<1>1. /\ call[c].conv = None /\ call[c].run = None /\ Holds(c) = {}
      /\ call[c].row \in KnownRows \cup {None}
      /\ call[c].op # "none" /\ call[c].socket \in Sockets
  BY <1>0, Known DEF CallOf, Holds, At
<1>2. CASE End(c) /\ UNCHANGED <<provider, stray>>
  <2>1. /\ call' \in [Calls -> CallRecords] /\ call'[c] = NoCall
        /\ \A d \in Calls \ {c} : call'[d] = call[d]
        /\ NoCall.op = "none" /\ NoCall.pc = "idle" /\ NoCall.row = None
        /\ NoCall.conv = None /\ NoCall.run = None
    BY <1>0, <1>2, EndFrame
  <2>2. TypeOK'
    BY <1>0, <1>2, <2>1 DEF TypeOK
  <2>3. CallOf(c)'
    BY <2>1 DEF CallOf
  <2>4. RowsOK'
    BY <1>0, <1>1, <1>2, <2>1, Known, QuietCall
  <2>5. RunsOK'
    BY <1>0, <1>1, <2>1, RunsKept
  <2> QED
    BY <2>1, <2>2, <2>3, <2>4, <2>5 DEF StepOK
<1>3. ASSUME NEW v \in Conversations, provider[v] = "unused",
             provider' = [provider EXCEPT ![v] = "open"],
             call' \in [Calls -> CallRecords], \A d \in Calls \ {c} : call'[d] = call[d],
             call'[c].run = None, call'[c].row \in {call[c].row, None},
             \/ /\ call'[c].pc = "insert" /\ call'[c].conv = v
                /\ call'[c].op = call[c].op /\ call'[c].socket = call[c].socket
                /\ UNCHANGED stray
             \/ call'[c] = NoCall /\ stray' = stray \cup {v}
      PROVE  StepOK({c})
  <2>1. /\ provider' \in [Conversations -> {"unused", "open", "deleted"}]
        /\ provider'[v] = "open"
        /\ \A w \in Conversations : w # v => provider'[w] = provider[w]
    BY <1>0, <1>3 DEF TypeOK
  <2>2. /\ NoCall.op = "none" /\ NoCall.pc = "idle" /\ NoCall.row = None
        /\ NoCall.conv = None /\ NoCall.run = None
    BY DEF NoCall
  <2>3. TypeOK'
    BY <1>0, <1>3, <2>1, <2>2 DEF TypeOK
  <2>4. CallOf(c)'
    BY <1>1, <1>3, <2>2, RowFacts DEF CallOf
  <2>5. KnownRows' \subseteq KnownRows
    <3>1. thread' \in KnownRows \cup {None} /\ \A s \in Sockets :
             socket'[s].cached \in KnownRows \cup {None}
      BY <1>0, Known
    <3>2. call'[c].row \in KnownRows \cup {None}
      BY <1>1, <1>3
    <3> QED
      BY <1>0, <1>3, <3>1, <3>2 DEF KnownRows
  <2>6. /\ {c} \in SUBSET Calls /\ SameRows /\ ProviderMoves /\ opened' = opened
        /\ stray \subseteq stray'
    BY <1>0, <1>3, <2>1, <2>5 DEF SameRows, ProviderMoves
  <2>7. \A a \in KnownRows : Exists(a) => Exists(a)' \/ provider'[a.conv] # "open"
    BY <1>0 DEF Exists
  <2>8. \A d \in Calls \ {c} : At(d, "insert") =>
           provider'[call[d].conv] = provider[call[d].conv]
    <3>1. ASSUME NEW d \in Calls, At(d, "insert")
          PROVE  call[d].conv \in Conversations /\ provider[call[d].conv] = "open"
      <4>1. call[d].conv \in Conversations \cup {None} /\ call[d].conv # None
        BY <3>1 DEF IInv, CallOf, TypeOK, CallRecords, At
      <4> QED
        BY <1>0, <3>1, <4>1 DEF ConvOf, At
    <3> QED
      BY <1>3, <2>1, <3>1
  <2>9. call'[c].conv = None \/ provider[call'[c].conv] = "unused"
    BY <1>3, <2>2
  <2>10. RowsInv' /\ \A d \in Calls \ {c} : ConvOf(d)'
    BY <1>3, <2>6, <2>7, <2>8, <2>9, RowsKept
  <2>11. ConvOf(c)'
    <3>1. CASE call'[c] = NoCall
      BY <2>2, <3>1 DEF ConvOf
    <3>2. CASE call'[c].pc = "insert" /\ call'[c].conv = v
      <4>1. \A d \in Calls : call'[d].conv = v => d = c
        BY <1>0, <1>3, RowFacts DEF ConvOf
      <4>2. \A a \in KnownRows' : a.conv # v
        BY <1>0, <1>3, <2>5 DEF RowsInv
      <4> QED
        BY <2>1, <3>2, <4>1, <4>2 DEF ConvOf
    <3> QED
      BY <1>3, <3>1, <3>2
  <2>12. ConversationAccounted'
    <3>1. ASSUME NEW w \in Conversations, provider'[w] = "open"
          PROVE  \/ w \in stray'
                 \/ thread' # None /\ thread'.conv = w
                 \/ \E d \in Calls : w \in Holds(d)'
      <4>1. CASE w = v
        BY <1>3, <4>1, RowFacts DEF Holds, At
      <4>2. CASE w # v
        <5>1. \/ w \in stray
              \/ thread # None /\ thread.conv = w
              \/ \E d \in Calls : w \in Holds(d)
          BY <2>1, <3>1, <4>2 DEF IInv, ConversationAccounted
        <5>2. \A d \in Calls : w \in Holds(d) => w \in Holds(d)'
          <6>1. \A d \in Calls \ {c} : Holds(d)' = Holds(d)
            BY <1>3 DEF Holds, At
          <6> QED
            BY <1>1, <6>1
        <5> QED
          BY <1>0, <1>3, <5>1, <5>2
      <4> QED
        BY <4>1, <4>2
    <3>2. ASSUME thread' # None, provider'[thread'.conv] # "open"
          PROVE  \/ thread'.conv \in stray'
                 \/ \E d \in Calls : At(d, "row")' /\ call'[d].row.conv = thread'.conv
      <4>1. thread.conv \in Conversations
        BY <1>0, <3>2, Known, RowFacts
      <4>2. \/ thread.conv \in stray
            \/ \E d \in Calls : At(d, "row") /\ call[d].row.conv = thread.conv
        BY <1>0, <1>3, <2>1, <3>2, <4>1 DEF IInv, ConversationAccounted
      <4>3. \A d \in Calls : At(d, "row") => At(d, "row")' /\ call'[d] = call[d]
        BY <1>0, <1>3 DEF At
      <4> QED
        BY <1>0, <1>3, <4>2, <4>3
    <3> QED
      BY <3>1, <3>2 DEF ConversationAccounted
  <2>13. RunsOK'
    BY <1>0, <1>1, <1>3, RunsKept
  <2> QED
    BY <1>3, <2>3, <2>4, <2>10, <2>11, <2>12, <2>13 DEF RowsOK, StepOK
<1>4. ASSUME NEW v \in Conversations, provider[v] = "unused",
             provider' = [provider EXCEPT ![v] = "open"],
             call' = [call EXCEPT ![c] = [@ EXCEPT !.pc = "insert", !.conv = v]],
             UNCHANGED stray
      PROVE  StepOK({c})
  <2> DEFINE new == [call[c] EXCEPT !.pc = "insert", !.conv = v]
  <2>1. /\ new \in CallRecords /\ new.pc = "insert" /\ new.conv = v
        /\ new.row = call[c].row /\ new.op = call[c].op /\ new.socket = call[c].socket
        /\ new.run = None
    BY <1>0, <1>1 DEF CallRecords
  <2>2. call' = [call EXCEPT ![c] = new]
    BY <1>4
  <2> HIDE DEF new
  <2>3. /\ call' \in [Calls -> CallRecords] /\ call'[c] = new
        /\ \A d \in Calls \ {c} : call'[d] = call[d]
    BY <1>0, <2>1, <2>2 DEF TypeOK
  <2> QED
    BY <1>3, <1>4, <2>1, <2>3
<1>5. ASSUME NEW v \in Conversations, provider[v] = "unused",
             provider' = [provider EXCEPT ![v] = "open"], End(c), stray' = stray \cup {v}
      PROVE  StepOK({c})
  BY <1>0, <1>3, <1>5, EndFrame
<1> QED
  BY <1>2, <1>4, <1>5 DEF Create

(* The except clause of start_conversation. *)
LEMMA UndoStep ==
    ASSUME IInv, NEW c \in Calls, Undo(c)
    PROVE  StepOK({c})
<1> DEFINE v == call[c].conv
<1>0. /\ TypeOK /\ CallOf(c) /\ call[c].pc = "undo" /\ End(c)
      /\ UNCHANGED <<thread, opened, run, socket>>
      /\ RowsInv /\ \A d \in Calls : ConvOf(d)
      /\ stray \subseteq stray' /\ stray' \subseteq stray \cup {v}
  BY DEF IInv, Undo, At
<1>1. /\ v \in Conversations /\ call[c].run = None /\ Holds(c) = {v}
      /\ provider[v] # "unused" /\ \A d \in Calls : call[d].conv = v => d = c
      /\ v \in stray \/ \A a \in KnownRows : a.conv # v
  BY <1>0 DEF CallOf, Holds, At, TypeOK, CallRecords, ConvOf
<1>2. /\ call' \in [Calls -> CallRecords] /\ call'[c] = NoCall
      /\ \A d \in Calls \ {c} : call'[d] = call[d]
      /\ NoCall.op = "none" /\ NoCall.pc = "idle" /\ NoCall.row = None
      /\ NoCall.conv = None /\ NoCall.run = None
  BY <1>0, EndFrame
<1>3. /\ provider' \in [Conversations -> {"unused", "open", "deleted"}]
      /\ \A w \in Conversations : w # v => provider'[w] = provider[w]
      /\ provider'[v] = "deleted" \/ (provider' = provider /\ v \in stray')
  BY <1>0, <1>1 DEF Undo, TypeOK
<1> HIDE DEF v
<1>4. TypeOK'
  BY <1>0, <1>1, <1>2, <1>3 DEF TypeOK
<1>5. CallOf(c)'
  BY <1>2 DEF CallOf
<1>6. KnownRows' \subseteq KnownRows
  <2>1. \A d \in Calls : call'[d].row \in KnownRows \cup {None}
    BY <1>0, <1>2, Known
  <2> QED
    BY <1>0, <2>1 DEF KnownRows
<1>7. /\ {c} \in SUBSET Calls /\ SameRows /\ ProviderMoves /\ opened' = opened
      /\ \A d \in Calls \ {c} : call'[d] = call[d]
  BY <1>0, <1>1, <1>2, <1>3, <1>6 DEF SameRows, ProviderMoves
<1>8. \A a \in KnownRows : Exists(a) => Exists(a)' \/ provider'[a.conv] # "open"
  BY <1>0 DEF Exists
<1>9. \A d \in Calls \ {c} : At(d, "insert") =>
         provider'[call[d].conv] = provider[call[d].conv]
  <2>1. \A d \in Calls : At(d, "insert") => call[d].conv \in Conversations
    BY RowFacts DEF IInv, CallOf, TypeOK, CallRecords, At
  <2> QED
    BY <1>1, <1>3, <2>1 DEF v
<1>10. \A d \in {c} : \/ call'[d].conv \in {None, call[d].conv}
                      \/ provider[call'[d].conv] = "unused"
  BY <1>2
<1>11. RowsInv' /\ \A d \in Calls \ {c} : ConvOf(d)'
  BY <1>0, <1>7, <1>8, <1>9, <1>10, RowsKept
<1>12. ConvOf(c)'
  BY <1>2 DEF ConvOf
<1>13. ConversationAccounted'
  <2>1. \A w \in Conversations : provider'[w] = "open" =>
           provider[w] = "open" \/ \E d \in {c} : w \in Holds(d)'
    BY <1>3
  <2>2. \A d \in {c} : \A w \in Holds(d) : provider'[w] = "open" =>
           w \in stray' \/ w \in Holds(d)' \/ (thread' # None /\ thread'.conv = w)
    BY <1>1, <1>3
  <2>3. thread # None => \/ thread' # None /\ thread'.conv = thread.conv
                         \/ thread' = None /\ provider'[thread.conv] # "open"
    BY <1>0
  <2>4. ASSUME thread' # None
        PROVE  \/ provider'[thread'.conv] = "open"
               \/ thread'.conv \in stray'
               \/ \E d \in {c} : At(d, "row")' /\ call'[d].row.conv = thread'.conv
               \/ /\ thread # None /\ thread'.conv = thread.conv
                  /\ provider'[thread.conv] = provider[thread.conv]
                  /\ \A d \in {c} : At(d, "row") => call[d].row.conv # thread.conv
    <3>1. thread' = thread /\ thread \in KnownRows /\ thread.conv \in Conversations
      BY <1>0, <2>4, Known, RowFacts
    <3>2. CASE thread.conv = v
      BY <1>0, <1>1, <3>1, <3>2
    <3>3. CASE thread.conv # v
      BY <1>0, <1>3, <2>4, <3>1, <3>3 DEF At
    <3> QED
      BY <3>2, <3>3
  <2> QED
    BY <1>0, <1>7, <2>1, <2>2, <2>3, <2>4, AccountedSuffices
<1>14. RunsOK'
  BY <1>0, <1>1, <1>2, RunsKept
<1> QED
  BY <1>2, <1>4, <1>5, <1>11, <1>12, <1>13, <1>14 DEF RowsOK, StepOK

(* A row that is saved keeps its number and its Conversation. *)
LEMMA SavedRow ==
    ASSUME IInv, NEW row \in KnownRows, NEW m \in Models
    PROVE  /\ Saved(row, m) \in ThreadRows \cup {None}
           /\ Saved(row, m) = None <=> thread = None
           /\ thread # None => /\ Saved(row, m).id = thread.id
                               /\ Saved(row, m).conv = thread.conv
           /\ Exists(row) => Saved(row, m) \in ThreadRows
<1>0. TypeOK /\ RowsInv /\ row \in ThreadRows
  BY Known DEF IInv
<1>1. CASE Exists(row)
  <2>1. thread # None /\ thread \in KnownRows /\ thread.id = row.id
    BY <1>0, <1>1, Known DEF Exists
  <2>2. thread.conv = row.conv
    BY <1>0, <2>1 DEF RowsInv
  <2>3. Saved(row, m) = [row EXCEPT !.model = m]
    BY <1>1 DEF Saved
  <2>4. /\ [row EXCEPT !.model = m] \in ThreadRows
        /\ [row EXCEPT !.model = m].id = row.id /\ [row EXCEPT !.model = m].conv = row.conv
    BY <1>0, RowFacts
  <2> QED
    BY <2>1, <2>2, <2>3, <2>4, RowFacts
<1>2. CASE ~Exists(row)
  BY <1>0, <1>2 DEF Saved, TypeOK
<1> QED
  BY <1>1, <1>2

(* update_settings, whoever calls it. *)
LEMMA WriteStep ==
    ASSUME IInv, NEW c \in Calls, call[c].pc = "write", End(c),
           UNCHANGED <<opened, provider, run, stray>>,
           thread' \in ThreadRows \cup {None}, thread' = None <=> thread = None,
           thread # None => thread'.id = thread.id /\ thread'.conv = thread.conv,
           socket' \in [Sockets -> SocketRecords],
           \A s \in Sockets : socket'[s].cached \in {socket[s].cached, thread'}
    PROVE  StepOK({c})
<1>0. /\ TypeOK /\ CallOf(c) /\ RowsInv /\ call[c].conv = None /\ call[c].run = None
      /\ Holds(c) = {}
  BY DEF IInv, CallOf, Holds, At
<1>2. /\ call' \in [Calls -> CallRecords] /\ call'[c] = NoCall
      /\ \A d \in Calls \ {c} : call'[d] = call[d]
      /\ NoCall.op = "none" /\ NoCall.pc = "idle" /\ NoCall.row = None
      /\ NoCall.conv = None /\ NoCall.run = None
  BY <1>0, EndFrame
<1>4. TypeOK'
  BY <1>0, <1>2 DEF TypeOK
<1>5. CallOf(c)'
  BY <1>2 DEF CallOf
<1>6. KnownRows' \subseteq KnownRows \cup {thread'}
  <2>1. \A d \in Calls : call'[d].row \in KnownRows \cup {None}
    BY <1>0, <1>2, Known
  <2>2. \A s \in Sockets : socket'[s].cached \in KnownRows \cup {None, thread'}
    BY <1>0, Known
  <2> QED
    BY <2>1, <2>2 DEF KnownRows
<1>7. SameRows
  <2>1. None \notin KnownRows'
    BY DEF KnownRows
  <2>2. ASSUME NEW a \in KnownRows'
        PROVE  \E b \in KnownRows : a.id = b.id /\ a.conv = b.conv
    <3>1. CASE a \in KnownRows
      BY <3>1
    <3>2. CASE a = thread'
      <4>1. thread \in KnownRows /\ a.id = thread.id /\ a.conv = thread.conv
        BY <1>0, <2>1, <3>2, Known
      <4> QED
        BY <4>1
    <3> QED
      BY <1>6, <3>1, <3>2
  <2> QED
    BY <2>2 DEF SameRows
<1>8. /\ {c} \in SUBSET Calls /\ ProviderMoves /\ opened' = opened
      /\ \A d \in Calls \ {c} : call'[d] = call[d] /\ stray \subseteq stray'
  BY <1>2 DEF ProviderMoves
<1>9. \A a \in KnownRows : Exists(a) => Exists(a)' \/ provider'[a.conv] # "open"
  BY DEF Exists
<1>10. \A d \in {c} : \/ call'[d].conv \in {None, call[d].conv}
                      \/ provider[call'[d].conv] = "unused"
  BY <1>2
<1>11. RowsInv' /\ \A d \in Calls \ {c} : ConvOf(d)'
  <2>1. \A d \in Calls \ {c} : At(d, "insert") =>
           provider'[call[d].conv] = provider[call[d].conv]
    OBVIOUS
  <2> QED
    BY <1>2, <1>7, <1>8, <1>9, <1>10, <2>1, RowsKept
<1>12. ConvOf(c)'
  BY <1>2 DEF ConvOf
<1>13. ConversationAccounted'
  <2>1. \A w \in Conversations : provider'[w] = "open" =>
           provider[w] = "open" \/ \E d \in {c} : w \in Holds(d)'
    OBVIOUS
  <2>2. \A d \in {c} : \A w \in Holds(d) : provider'[w] = "open" =>
           w \in stray' \/ w \in Holds(d)' \/ (thread' # None /\ thread'.conv = w)
    BY <1>0
  <2>3. thread # None => \/ thread' # None /\ thread'.conv = thread.conv
                         \/ thread' = None /\ provider'[thread.conv] # "open"
    OBVIOUS
  <2>4. thread' # None =>
               \/ provider'[thread'.conv] = "open"
               \/ thread'.conv \in stray'
               \/ \E d \in {c} : At(d, "row")' /\ call'[d].row.conv = thread'.conv
               \/ /\ thread # None /\ thread'.conv = thread.conv
                  /\ provider'[thread.conv] = provider[thread.conv]
                  /\ \A d \in {c} : At(d, "row") => call[d].row.conv # thread.conv
    BY DEF At
  <2>5. stray \subseteq stray'
    OBVIOUS
  <2> QED
    BY <1>2, <1>8, <2>1, <2>2, <2>3, <2>4, <2>5, AccountedSuffices
<1>14. RunsOK'
  BY <1>0, <1>2, RunsKept
<1> QED
  BY <1>2, <1>4, <1>5, <1>11, <1>12, <1>13, <1>14 DEF RowsOK, StepOK

(* on_settings_update *)
LEMMA WriteSettingsStep ==
    ASSUME IInv, NEW c \in Calls, WriteSettings(c)
    PROVE  StepOK({c})
<1> DEFINE row == call[c].row
           m == call[c].model
           s == call[c].socket
           cached == IF Exists(row) THEN thread' ELSE socket[s].cached
<1>0. /\ TypeOK /\ call[c].pc = "write" /\ End(c) /\ UNCHANGED <<opened, provider, run, stray>>
      /\ CallOf(c)
  BY DEF IInv, WriteSettings, At
<1>1. row \in KnownRows /\ m \in Models /\ s \in Sockets
  BY <1>0, Known DEF TypeOK, CallRecords, CallOf
<1>2. ASSUME thread' = Saved(row, m)
      PROVE  /\ thread' \in ThreadRows \cup {None} /\ (thread' = None <=> thread = None)
             /\ thread # None => thread'.id = thread.id /\ thread'.conv = thread.conv
             /\ Exists(row) => thread' \in ThreadRows
  BY <1>1, <1>2, SavedRow
<1>3. CASE /\ thread' = Saved(row, m)
           /\ socket' = [socket EXCEPT ![s] = [cached |-> cached, model |-> m]]
  <2>1. socket[s].cached \in ThreadRows \cup {None}
    BY <1>0, <1>1 DEF TypeOK, SocketRecords
  <2>2. cached \in ThreadRows \cup {None} /\ cached \in {socket[s].cached, thread'}
    BY <1>2, <1>3, <2>1
  <2> HIDE DEF cached, row, m, s
  <2>3. [cached |-> cached, model |-> m] \in SocketRecords
    BY <1>1, <2>2 DEF SocketRecords
  <2>4. /\ socket' \in [Sockets -> SocketRecords]
        /\ \A r \in Sockets : socket'[r].cached \in {socket[r].cached, thread'}
    BY <1>0, <1>1, <1>3, <2>2, <2>3 DEF TypeOK
  <2> QED
    BY <1>0, <1>2, <1>3, <2>4, WriteStep
<1>4. CASE thread' = Saved(row, m) /\ UNCHANGED socket
  BY <1>0, <1>2, <1>4, WriteStep DEF TypeOK
<1>5. CASE UNCHANGED <<thread, socket>>
  BY <1>0, <1>5, WriteStep DEF TypeOK
<1> QED
  BY <1>3, <1>4, <1>5 DEF WriteSettings

(* update_thread *)
LEMMA WriteDetailsStep ==
    ASSUME IInv, NEW c \in Calls, WriteDetails(c)
    PROVE  StepOK({c})
<1> DEFINE row == call[c].row
<1>0. /\ TypeOK /\ call[c].pc = "write" /\ End(c)
      /\ UNCHANGED <<opened, provider, run, socket, stray>> /\ CallOf(c)
  BY DEF IInv, WriteDetails, At
<1>1. row \in KnownRows /\ row.model \in Models /\ socket[call[c].socket].model \in Models
  BY <1>0, Known, RowFacts DEF TypeOK, CallRecords, SocketRecords, CallOf
<1>2. ASSUME NEW m \in Models, thread' = Saved(row, m)
      PROVE  StepOK({c})
  <2>1. /\ thread' \in ThreadRows \cup {None} /\ (thread' = None <=> thread = None)
        /\ thread # None => thread'.id = thread.id /\ thread'.conv = thread.conv
    BY <1>1, <1>2, SavedRow
  <2> QED
    BY <1>0, <2>1, WriteStep DEF TypeOK
<1>3. CASE UNCHANGED thread
  BY <1>0, <1>3, WriteStep DEF TypeOK
<1> QED
  BY <1>1, <1>2, <1>3 DEF WriteDetails

(* create_thread: the new row has a number and a Conversation of its own. *)
LEMMA InsertRow ==
    ASSUME IInv, NEW c \in Calls, NEW row \in ThreadRows,
           call[c].pc = "insert", thread = None, thread' = row,
           row.id = opened + 1, row.conv = call[c].conv, opened' = opened + 1,
           UNCHANGED <<provider, run>>,
           call' \in [Calls -> CallRecords], \A d \in Calls \ {c} : call'[d] = call[d],
           call'[c].run = None, call'[c].row \in {None, row, call[c].row},
           \/ call'[c].conv = None /\ call'[c].pc \notin {"insert", "undo", "row"}
              /\ stray' = stray
           \/ call'[c].conv = call[c].conv /\ call'[c].pc = "undo"
              /\ stray' = stray \cup {call[c].conv},
           socket' \in [Sockets -> SocketRecords],
           \A s \in Sockets : socket'[s].cached \in {socket[s].cached, row}
    PROVE  RowsOK' /\ RunsOK'
<1> DEFINE v == call[c].conv
<1>0. /\ TypeOK /\ RowsInv /\ \A d \in Calls : ConvOf(d)
      /\ KnownRows \subseteq ThreadRows /\ opened \in Nat
  BY Known DEF IInv, TypeOK
<1>1. /\ v # None /\ v \in Conversations /\ call[c].run = None /\ Holds(c) = {v}
      /\ provider[v] = "open" /\ \A d \in Calls : call[d].conv = v => d = c
      /\ \A a \in KnownRows : a.conv # v
  <2>1. CallOf(c) /\ ConvOf(c) /\ call[c] \in CallRecords
    BY DEF IInv, TypeOK
  <2> QED
    BY <2>1 DEF CallOf, ConvOf, CallRecords, Holds, At
<1>2. KnownRows' \subseteq KnownRows \cup {row} /\ row \in KnownRows'
  <2>1. \A d \in Calls : call'[d].row \in KnownRows \cup {None, row}
    BY <1>0, Known
  <2>2. \A s \in Sockets : socket'[s].cached \in KnownRows \cup {None, row}
    BY <1>0, Known
  <2>3. row # None
    BY RowFacts
  <2> QED
    BY <2>1, <2>2, <2>3 DEF KnownRows
<1> HIDE DEF v
<1>3. RowsInv'
  <2>1. ASSUME NEW a \in KnownRows
        PROVE  /\ a.id \in Nat /\ a.id <= opened /\ a.id # row.id /\ a.conv # row.conv
               /\ provider[a.conv] \notin {"unused", "open"}
    <3>1. a.id \in Nat /\ a.id <= opened /\ provider[a.conv] # "unused"
      BY <1>0, RowFacts DEF RowsInv
    <3>2. provider[a.conv] # "open"
      BY <1>0 DEF RowsInv, Exists
    <3> QED
      BY <1>0, <1>1, <3>1, <3>2 DEF v
  <2>2. ASSUME NEW a \in KnownRows'
        PROVE  /\ a.id <= opened' /\ provider'[a.conv] # "unused"
               /\ provider'[a.conv] = "open" => Exists(a)'
    <3>1. CASE a = row
      BY <1>0, <1>1, <3>1, RowFacts DEF Exists, v
    <3>2. CASE a \in KnownRows
      BY <1>0, <2>1, <3>2
    <3> QED
      BY <1>2, <3>1, <3>2
  <2>3. \A a, b \in KnownRows' : a.id = b.id <=> a.conv = b.conv
    BY <1>0, <1>2, <2>1 DEF RowsInv
  <2> QED
    BY <2>2, <2>3 DEF RowsInv
<1>4. ASSUME NEW d \in Calls \ {c}
      PROVE  ConvOf(d)'
  <2> DEFINE k == call[d]
  <2>1. ConvOf(d) /\ call'[d] = k
    BY <1>0
  <2>2. k.conv # v
    BY <1>1
  <2>3. (\A a \in KnownRows : a.conv # k.conv) => \A a \in KnownRows' : a.conv # k.conv
    BY <1>2, <2>2 DEF v
  <2>4. k.conv # None => \A e \in Calls : call'[e].conv = k.conv => e = d
    BY <2>1, <2>2 DEF ConvOf, v
  <2> HIDE DEF k
  <2> QED
    BY <2>1, <2>3, <2>4 DEF ConvOf, k
<1>5. ConvOf(c)'
  <2>1. CASE call'[c].conv = None /\ call'[c].pc \notin {"insert", "undo", "row"}
    BY <2>1 DEF ConvOf
  <2>2. CASE call'[c].conv = v /\ call'[c].pc = "undo" /\ v \in stray'
    BY <1>1, <2>2 DEF ConvOf
  <2> QED
    BY <2>1, <2>2 DEF v
<1>6. ConversationAccounted'
  <2>1. \A w \in Conversations : provider'[w] = "open" =>
           provider[w] = "open" \/ \E d \in {c} : w \in Holds(d)'
    OBVIOUS
  <2>2. \A d \in {c} : \A w \in Holds(d) : provider'[w] = "open" =>
           w \in stray' \/ w \in Holds(d)' \/ (thread' # None /\ thread'.conv = w)
    BY <1>1, RowFacts DEF v
  <2>3. thread # None => \/ thread' # None /\ thread'.conv = thread.conv
                         \/ thread' = None /\ provider'[thread.conv] # "open"
    OBVIOUS
  <2>4. thread' # None =>
               \/ provider'[thread'.conv] = "open"
               \/ thread'.conv \in stray'
               \/ \E d \in {c} : At(d, "row")' /\ call'[d].row.conv = thread'.conv
               \/ /\ thread # None /\ thread'.conv = thread.conv
                  /\ provider'[thread.conv] = provider[thread.conv]
                  /\ \A d \in {c} : At(d, "row") => call[d].row.conv # thread.conv
    BY <1>1 DEF v
  <2>5. {c} \in SUBSET Calls /\ stray \subseteq stray'
    OBVIOUS
  <2> QED
    BY <2>1, <2>2, <2>3, <2>4, <2>5, AccountedSuffices
<1>7. RunsOK'
  BY <1>1, RunsKept
<1> QED
  BY <1>3, <1>4, <1>5, <1>6, <1>7 DEF RowsOK

(* create_thread *)
LEMMA InsertStep ==
    ASSUME IInv, NEW c \in Calls, Insert(c)
    PROVE  StepOK({c})
<1> DEFINE v == call[c].conv
           row == [id |-> opened + 1, conv |-> v, model |-> DefaultModel]
<1>0. /\ TypeOK /\ CallOf(c) /\ call[c].pc = "insert" /\ UNCHANGED <<provider, run>>
      /\ call[c] \in CallRecords /\ opened \in Nat
      /\ RowsInv /\ \A d \in Calls : ConvOf(d)
  BY DEF IInv, Insert, At, TypeOK
<1>1. /\ v \in Conversations /\ call[c].run = None /\ Holds(c) = {v}
      /\ provider[v] = "open" /\ \A d \in Calls : call[d].conv = v => d = c
      /\ \A a \in KnownRows : a.conv # v
      /\ call[c].op \in AllOps /\ call[c].socket \in Sockets
      /\ call[c].row \in KnownRows \cup {None}
  BY <1>0, Known DEF CallOf, Holds, At, CallRecords, ConvOf, AllOps
<1>2. /\ row \in ThreadRows /\ row.id = opened + 1 /\ row.conv = v
  BY <1>0, <1>1, TurnsAssumption DEF ThreadRows
<1> HIDE DEF row
<1>3. CASE /\ thread = None /\ thread' = row /\ opened' = opened + 1
           /\ Proceed(c, row) /\ UNCHANGED stray
  <2>1. /\ call' \in [Calls -> CallRecords]
        /\ \A d \in Calls \ {c} : call'[d] = call[d]
        /\ call'[c].conv = None /\ call'[c].run = None
        /\ \/ call'[c].pc = "idle" /\ call'[c].row = None
           \/ /\ call'[c].pc \in {"begin", "write", "provider"}
              /\ call'[c].row = row /\ call'[c].op = call[c].op
              /\ call'[c].socket = call[c].socket
        /\ socket' \in [Sockets -> SocketRecords]
        /\ \A s \in Sockets : socket'[s].cached \in {socket[s].cached, row}
    BY <1>0, <1>1, <1>2, <1>3, ProceedFrame
  <2>2. TypeOK'
    BY <1>0, <1>2, <1>3, <2>1, RowFacts DEF TypeOK
  <2>3. CallOf(c)'
    BY <1>1, <2>1 DEF CallOf, AllOps
  <2>4. RowsOK' /\ RunsOK'
    BY <1>0, <1>2, <1>3, <2>1, InsertRow
  <2> QED
    BY <2>1, <2>2, <2>3, <2>4 DEF StepOK
<1>4. ASSUME GoTo(c, "undo")
      PROVE  /\ call' \in [Calls -> CallRecords]
             /\ \A d \in Calls \ {c} : call'[d] = call[d]
             /\ call'[c].conv = v /\ call'[c].run = None /\ call'[c].pc = "undo"
             /\ call'[c].row = call[c].row /\ CallOf(c)' /\ Holds(c)' = {v}
  <2>1. /\ call' \in [Calls -> CallRecords]
        /\ \A d \in Calls \ {c} : call'[d] = call[d]
        /\ call'[c].op = call[c].op /\ call'[c].pc = "undo"
        /\ call'[c].socket = call[c].socket /\ call'[c].row = call[c].row
        /\ call'[c].conv = v /\ call'[c].run = None
    BY <1>0, <1>1, <1>4, GoToFrame
  <2>2. CallOf(c)'
    BY <1>1, <2>1, RowFacts DEF CallOf, AllOps
  <2>3. Holds(c)' = {v}
    BY <1>1, <2>1, RowFacts DEF Holds, At
  <2> QED
    BY <2>1, <2>2, <2>3
<1>5. CASE /\ thread = None /\ thread' = row /\ opened' = opened + 1
           /\ GoTo(c, "undo") /\ UNCHANGED socket /\ stray' = stray \cup {v}
  <2>1. TypeOK'
    BY <1>0, <1>1, <1>2, <1>4, <1>5, RowFacts DEF TypeOK
  <2>2. socket' \in [Sockets -> SocketRecords]
    BY <1>0, <1>5 DEF TypeOK
  <2>4. RowsOK' /\ RunsOK'
    BY <1>0, <1>2, <1>4, <1>5, <2>2, InsertRow
  <2> QED
    BY <1>4, <1>5, <2>1, <2>4 DEF StepOK
<1>6. CASE GoTo(c, "undo") /\ UNCHANGED <<thread, opened, socket, stray>>
  <2>1. TypeOK'
    BY <1>0, <1>4, <1>6 DEF TypeOK
  <2>2. KnownRows' \subseteq KnownRows
    <3>1. \A d \in Calls : call'[d].row = call[d].row
      BY <1>4, <1>6
    <3> QED
      BY <1>6, <3>1 DEF KnownRows
  <2>3. /\ {c} \in SUBSET Calls /\ SameRows /\ ProviderMoves /\ opened' = opened
        /\ \A d \in Calls \ {c} : call'[d] = call[d] /\ stray \subseteq stray'
    BY <1>0, <1>4, <1>6, <2>2 DEF SameRows, ProviderMoves
  <2>4. /\ \A a \in KnownRows : Exists(a) => Exists(a)' \/ provider'[a.conv] # "open"
        /\ \A d \in Calls \ {c} : At(d, "insert") =>
              provider'[call[d].conv] = provider[call[d].conv]
        /\ \A d \in {c} : \/ call'[d].conv \in {None, call[d].conv}
                          \/ provider[call'[d].conv] = "unused"
    BY <1>0, <1>4, <1>6 DEF Exists
  <2>5. \A d \in Calls \ {c} : call'[d] = call[d]
    BY <1>4, <1>6
  <2>6. RowsInv' /\ \A d \in Calls \ {c} : ConvOf(d)'
    BY <1>6, <2>3, <2>4, <2>5, RowsKept
  <2>7. ConvOf(c)'
    <3>1. \A d \in Calls : call'[d].conv = v => d = c
      BY <1>1, <2>5
    <3> QED
      BY <1>0, <1>1, <1>4, <1>6, <2>2, <3>1 DEF ConvOf
  <2>8. ConversationAccounted'
    <3>1. /\ \A w \in Conversations : provider'[w] = "open" =>
                provider[w] = "open" \/ \E d \in {c} : w \in Holds(d)'
          /\ \A d \in {c} : \A w \in Holds(d) : provider'[w] = "open" =>
                w \in stray' \/ w \in Holds(d)' \/ (thread' # None /\ thread'.conv = w)
      BY <1>0, <1>1, <1>4, <1>6
    <3>2. thread # None => \/ thread' # None /\ thread'.conv = thread.conv
                           \/ thread' = None /\ provider'[thread.conv] # "open"
      BY <1>6
    <3>3. thread' # None =>
               \/ provider'[thread'.conv] = "open"
               \/ thread'.conv \in stray'
               \/ \E d \in {c} : At(d, "row")' /\ call'[d].row.conv = thread'.conv
               \/ /\ thread # None /\ thread'.conv = thread.conv
                  /\ provider'[thread.conv] = provider[thread.conv]
                  /\ \A d \in {c} : At(d, "row") => call[d].row.conv # thread.conv
      BY <1>0, <1>6 DEF At
    <3> QED
      BY <1>6, <2>3, <2>5, <3>1, <3>2, <3>3, AccountedSuffices
  <2>9. RunsOK'
    BY <1>0, <1>1, <1>4, <1>6, RunsKept
  <2> QED
    BY <1>4, <1>6, <2>1, <2>6, <2>7, <2>8, <2>9 DEF RowsOK, StepOK
<1> QED
  BY <1>3, <1>5, <1>6 DEF Insert, row

(* conversations.delete, of a Conversation that the row still has. *)
LEMMA DeleteProviderStep ==
    ASSUME IInv, NEW c \in Calls, DeleteProvider(c)
    PROVE  StepOK({c})
<1> DEFINE row == call[c].row
           v == row.conv
<1>0. /\ TypeOK /\ CallOf(c) /\ call[c].pc = "provider"
      /\ UNCHANGED <<thread, opened, run, socket>>
      /\ RowsInv /\ \A d \in Calls : ConvOf(d)
  BY DEF IInv, DeleteProvider, At
<1>1. /\ row \in KnownRows /\ row # None /\ v \in Conversations
      /\ call[c].conv = None /\ call[c].run = None /\ Holds(c) = {}
      /\ call[c].op # "none" /\ call[c].socket \in Sockets
  BY <1>0, Known, RowFacts DEF TypeOK, CallOf, Holds, At
<1>2. CASE End(c) /\ UNCHANGED <<provider, stray>>
  <2>1. /\ call' \in [Calls -> CallRecords] /\ call'[c] = NoCall
        /\ \A d \in Calls \ {c} : call'[d] = call[d]
        /\ NoCall.op = "none" /\ NoCall.pc = "idle" /\ NoCall.row = None
        /\ NoCall.conv = None /\ NoCall.run = None
    BY <1>0, <1>2, EndFrame
  <2>2. TypeOK'
    BY <1>0, <1>2, <2>1 DEF TypeOK
  <2>3. CallOf(c)'
    BY <2>1 DEF CallOf
  <2>4. RowsOK'
    BY <1>0, <1>1, <1>2, <2>1, Known, QuietCall
  <2>5. RunsOK'
    BY <1>0, <1>1, <2>1, RunsKept
  <2> QED
    BY <2>1, <2>2, <2>3, <2>4, <2>5 DEF StepOK
<1>3. ASSUME provider[v] = "open", provider' = [provider EXCEPT ![v] = "deleted"],
             call' \in [Calls -> CallRecords], \A d \in Calls \ {c} : call'[d] = call[d],
             call'[c].conv = None, call'[c].run = None, CallOf(c)',
             \/ call'[c].pc = "row" /\ call'[c].row = row /\ UNCHANGED stray
             \/ call'[c].pc = "idle" /\ call'[c].row = None /\ stray' = stray \cup {v}
      PROVE  StepOK({c})
  <2>0. row # None
    BY <1>1
  <2> HIDE DEF row
  <2>1. /\ provider' \in [Conversations -> {"unused", "open", "deleted"}]
        /\ provider'[v] = "deleted"
        /\ \A w \in Conversations : w # v => provider'[w] = provider[w]
    BY <1>0, <1>1, <1>3 DEF TypeOK
  <2>2. TypeOK'
    BY <1>0, <1>1, <1>3, <2>0, <2>1 DEF TypeOK
  <2>3. thread # None /\ thread \in KnownRows /\ thread.conv = v
    <3>1. Exists(row)
      BY <1>0, <1>1, <1>3 DEF RowsInv
    <3>2. thread # None /\ thread \in KnownRows
      BY <1>0, <3>1, Known DEF Exists
    <3> QED
      BY <1>0, <1>1, <3>1, <3>2 DEF RowsInv, Exists
  <2>4. KnownRows' \subseteq KnownRows
    <3>1. \A d \in Calls : call'[d].row \in KnownRows \cup {None}
      BY <1>0, <1>1, <1>3, Known
    <3> QED
      BY <1>0, <3>1 DEF KnownRows
  <2>5. /\ {c} \in SUBSET Calls /\ SameRows /\ ProviderMoves /\ opened' = opened
        /\ stray \subseteq stray'
    BY <1>0, <1>3, <2>1, <2>4 DEF SameRows, ProviderMoves
  <2>6. \A a \in KnownRows : Exists(a) => Exists(a)' \/ provider'[a.conv] # "open"
    BY <1>0 DEF Exists
  <2>7. ASSUME NEW d \in Calls \ {c}, At(d, "insert")
        PROVE  provider'[call[d].conv] = provider[call[d].conv]
    <3>1. call[d].conv \in Conversations
      BY <2>7, RowFacts DEF IInv, CallOf, TypeOK, CallRecords, At
    <3>2. call[d].conv # v
      BY <1>0, <1>1, <2>7 DEF ConvOf, At
    <3> QED
      BY <2>1, <3>1, <3>2
  <2>8. \A d \in {c} : \/ call'[d].conv \in {None, call[d].conv}
                       \/ provider[call'[d].conv] = "unused"
    BY <1>3
  <2>9. RowsInv' /\ \A d \in Calls \ {c} : ConvOf(d)'
    BY <1>3, <2>5, <2>6, <2>7, <2>8, RowsKept
  <2>10. ConvOf(c)'
    BY <1>3, <2>1 DEF ConvOf
  <2>11. ConversationAccounted'
    <3>1. /\ \A w \in Conversations : provider'[w] = "open" =>
                provider[w] = "open" \/ \E d \in {c} : w \in Holds(d)'
          /\ \A d \in {c} : \A w \in Holds(d) : provider'[w] = "open" =>
                w \in stray' \/ w \in Holds(d)' \/ (thread' # None /\ thread'.conv = w)
      BY <1>1, <2>1
    <3>2. thread # None => \/ thread' # None /\ thread'.conv = thread.conv
                           \/ thread' = None /\ provider'[thread.conv] # "open"
      BY <1>0
    <3>3. thread' # None =>
               \/ provider'[thread'.conv] = "open"
               \/ thread'.conv \in stray'
               \/ \E d \in {c} : At(d, "row")' /\ call'[d].row.conv = thread'.conv
               \/ /\ thread # None /\ thread'.conv = thread.conv
                  /\ provider'[thread.conv] = provider[thread.conv]
                  /\ \A d \in {c} : At(d, "row") => call[d].row.conv # thread.conv
      BY <1>0, <1>3, <2>3 DEF At
    <3> QED
      BY <1>3, <2>5, <3>1, <3>2, <3>3, AccountedSuffices
  <2>12. RunsOK'
    BY <1>0, <1>1, <1>3, RunsKept
  <2> QED
    BY <1>3, <2>2, <2>9, <2>10, <2>11, <2>12 DEF RowsOK, StepOK
<1>4. CASE /\ provider[v] = "open" /\ provider' = [provider EXCEPT ![v] = "deleted"]
           /\ GoTo(c, "row") /\ UNCHANGED stray
  <2>1. /\ call' \in [Calls -> CallRecords]
        /\ \A d \in Calls \ {c} : call'[d] = call[d]
        /\ call'[c].op = call[c].op /\ call'[c].pc = "row"
        /\ call'[c].socket = call[c].socket /\ call'[c].row = row
        /\ call'[c].conv = None /\ call'[c].run = None
    BY <1>0, <1>1, <1>4, GoToFrame
  <2>2. CallOf(c)'
    BY <1>1, <2>1 DEF CallOf
  <2> QED
    BY <1>3, <1>4, <2>1, <2>2
<1>5. CASE /\ provider[v] = "open" /\ provider' = [provider EXCEPT ![v] = "deleted"]
           /\ End(c) /\ stray' = stray \cup {v}
  <2>1. /\ call' \in [Calls -> CallRecords] /\ call'[c] = NoCall
        /\ \A d \in Calls \ {c} : call'[d] = call[d]
        /\ NoCall.op = "none" /\ NoCall.pc = "idle" /\ NoCall.row = None
        /\ NoCall.conv = None /\ NoCall.run = None
    BY <1>0, <1>5, EndFrame
  <2>2. CallOf(c)'
    BY <2>1 DEF CallOf
  <2> QED
    BY <1>3, <1>5, <2>1, <2>2
<1> QED
  BY <1>2, <1>4, <1>5 DEF DeleteProvider

(* The row goes, and the runs with it. *)
LEMMA DeleteRowStep ==
    ASSUME IInv, NEW c \in Calls, DeleteRow(c)
    PROVE  StepOK({c})
<1> DEFINE row == call[c].row
<1>0. /\ TypeOK /\ CallOf(c) /\ call[c].pc = "row" /\ End(c)
      /\ UNCHANGED <<opened, provider, socket>>
      /\ RowsInv /\ \A d \in Calls : ConvOf(d)
  BY DEF IInv, DeleteRow, At
<1>1. /\ row \in KnownRows /\ row.conv \in Conversations /\ provider[row.conv] = "deleted"
      /\ call[c].conv = None /\ call[c].run = None /\ Holds(c) = {row.conv}
  BY <1>0, Known, RowFacts DEF TypeOK, CallOf, Holds, At, ConvOf
<1>2. /\ call' \in [Calls -> CallRecords] /\ call'[c] = NoCall
      /\ \A d \in Calls \ {c} : call'[d] = call[d]
      /\ NoCall.op = "none" /\ NoCall.pc = "idle" /\ NoCall.row = None
      /\ NoCall.conv = None /\ NoCall.run = None
  BY <1>0, EndFrame
<1>3. CallOf(c)'
  BY <1>2 DEF CallOf
<1>4. CASE stray' = stray \cup {row.conv} /\ UNCHANGED <<thread, run>>
  <2>1. TypeOK'
    BY <1>0, <1>1, <1>2, <1>4 DEF TypeOK
  <2>2. RowsOK'
    BY <1>0, <1>1, <1>2, <1>4, Known, QuietCall
  <2>3. RunsOK'
    BY <1>0, <1>1, <1>2, <1>4, RunsKept
  <2> QED
    BY <1>2, <1>3, <2>1, <2>2, <2>3 DEF StepOK
<1>5. CASE /\ thread' = IF Exists(row) THEN None ELSE thread
           /\ run' = Erased(row) /\ UNCHANGED stray
  <2> HIDE DEF row
  <2>1. run' \in [Runs -> RunRows]
        /\ \A r \in Runs : \/ run'[r] = run[r]
                           \/ run[r].status # "unused" /\ run'[r].status = "erased"
    <3>1. /\ [UnusedRun EXCEPT !.status = "erased"] \in RunRows
          /\ [UnusedRun EXCEPT !.status = "erased"].status = "erased"
      BY DEF UnusedRun, RunRows
    <3>2. \A r \in Runs : run'[r] = IF run[r].status # "unused" /\ run[r].thread = row.id
                                    THEN [UnusedRun EXCEPT !.status = "erased"] ELSE run[r]
      BY <1>5 DEF Erased
    <3> QED
      BY <1>0, <1>5, <3>1, <3>2 DEF Erased, TypeOK
  <2>2. TypeOK'
    BY <1>0, <1>2, <1>5, <2>1 DEF TypeOK
  <2>3. ASSUME thread # None
        PROVE  /\ thread \in KnownRows
               /\ Exists(row) <=> thread.conv = row.conv
    BY <1>0, <1>1, <2>3, Known DEF RowsInv, Exists
  <2>4. KnownRows' \subseteq KnownRows
    <3>1. \A d \in Calls : call'[d].row \in KnownRows \cup {None}
      BY <1>0, <1>2, Known
    <3> QED
      BY <1>0, <1>5, <3>1 DEF KnownRows
  <2>5. /\ {c} \in SUBSET Calls /\ SameRows /\ ProviderMoves /\ opened' = opened
        /\ stray \subseteq stray'
    BY <1>0, <1>5, <2>4 DEF SameRows, ProviderMoves
  <2>6. ASSUME NEW a \in KnownRows, Exists(a)
        PROVE  Exists(a)' \/ provider'[a.conv] # "open"
    <3>1. CASE Exists(row)
      <4>1. a.id = row.id
        BY <2>6, <3>1 DEF Exists
      <4>2. a.conv = row.conv
        BY <1>0, <1>1, <4>1 DEF RowsInv
      <4> QED
        BY <1>0, <1>1, <4>2
    <3>2. CASE ~Exists(row)
      BY <1>5, <2>6, <3>2 DEF Exists
    <3> QED
      BY <3>1, <3>2
  <2>7. \A d \in Calls \ {c} : At(d, "insert") =>
           provider'[call[d].conv] = provider[call[d].conv]
    BY <1>0
  <2>8. \A d \in {c} : \/ call'[d].conv \in {None, call[d].conv}
                       \/ provider[call'[d].conv] = "unused"
    BY <1>2
  <2>9. RowsInv' /\ \A d \in Calls \ {c} : ConvOf(d)'
    BY <1>2, <2>5, <2>6, <2>7, <2>8, RowsKept
  <2>10. ConvOf(c)'
    BY <1>2 DEF ConvOf
  <2>11. ConversationAccounted'
    <3>1. /\ \A w \in Conversations : provider'[w] = "open" =>
                provider[w] = "open" \/ \E d \in {c} : w \in Holds(d)'
          /\ \A d \in {c} : \A w \in Holds(d) : provider'[w] = "open" =>
                w \in stray' \/ w \in Holds(d)' \/ (thread' # None /\ thread'.conv = w)
      BY <1>0, <1>1
    <3>2. thread # None => \/ thread' # None /\ thread'.conv = thread.conv
                           \/ thread' = None /\ provider'[thread.conv] # "open"
      BY <1>0, <1>1, <1>5, <2>3
    <3>3. thread' # None =>
               \/ provider'[thread'.conv] = "open"
               \/ thread'.conv \in stray'
               \/ \E d \in {c} : At(d, "row")' /\ call'[d].row.conv = thread'.conv
               \/ /\ thread # None /\ thread'.conv = thread.conv
                  /\ provider'[thread.conv] = provider[thread.conv]
                  /\ \A d \in {c} : At(d, "row") => call[d].row.conv # thread.conv
      BY <1>0, <1>5, <2>3 DEF row
    <3> QED
      BY <1>2, <2>5, <3>1, <3>2, <3>3, AccountedSuffices
  <2>12. RunsOK'
    BY <1>0, <1>1, <1>2, <2>1, RunsKept
  <2> QED
    BY <1>2, <1>3, <2>2, <2>9, <2>10, <2>11, <2>12 DEF RowsOK, StepOK
<1> QED
  BY <1>4, <1>5 DEF DeleteRow

-----------------------------------------------------------------------------
(* The invariant *)

(* The other calls are still calls of their sessions. *)
LEMMA StepOKSuffices ==
    ASSUME IInv, NEW C \in SUBSET Calls, StepOK(C)
    PROVE  IInv'
<1>1. ASSUME NEW d \in Calls
      PROVE  CallOf(d)'
  <2>1. CASE d \in C
    BY <2>1 DEF StepOK
  <2>2. CASE d \notin C
    <3>1. call'[d] = call[d] /\ CallOf(d)
      BY <2>2 DEF StepOK, IInv
    <3> QED
      BY <3>1 DEF CallOf
  <2> QED
    BY <2>1, <2>2
<1> QED
  BY <1>1 DEF StepOK, RowsOK, RunsOK, IInv

LEMMA InitIInv == Init => IInv
<1> SUFFICES ASSUME Init
             PROVE  IInv
  OBVIOUS
<1>1. /\ NoCall \in CallRecords /\ NoCall.op = "none" /\ NoCall.pc = "idle"
      /\ NoCall.row = None /\ NoCall.conv = None /\ NoCall.run = None
  BY TurnsAssumption DEF NoCall, CallRecords
<1>2. UnusedRun \in RunRows /\ UnusedRun.status = "unused"
  BY DEF UnusedRun, RunRows
<1>3. /\ \A c \in Calls : call[c] = NoCall
      /\ \A r \in Runs : run[r] = UnusedRun
      /\ \A v \in Conversations : provider[v] = "unused"
      /\ \A s \in Sockets : socket[s] = NewSocket
      /\ thread = None /\ opened = 0
  BY DEF Init
<1>4. TypeOK
  BY <1>1, <1>2, <1>3, RowFacts DEF Init, TypeOK
<1>5. KnownRows = {}
  BY <1>1, <1>3, RowFacts DEF KnownRows
<1>6. RowsInv /\ ConversationAccounted
  BY <1>3, <1>5 DEF RowsInv, ConversationAccounted
<1>7. \A c \in Calls : CallOf(c) /\ ConvOf(c) /\ RunOf(c)
  BY <1>1, <1>3 DEF CallOf, ConvOf, RunOf
<1>8. RunClosedWithTurn
  BY <1>2, <1>3 DEF RunClosedWithTurn
<1> QED
  BY <1>4, <1>6, <1>7, <1>8 DEF IInv

LEMMA NextIInv == IInv /\ [Next]_vars => IInv'
<1> SUFFICES ASSUME IInv, [Next]_vars
             PROVE  IInv'
  OBVIOUS
<1>1. ASSUME NEW c \in Calls, StepOK({c})
      PROVE  IInv'
  <2>1. {c} \in SUBSET Calls
    OBVIOUS
  <2> QED
    BY <1>1, <2>1, StepOKSuffices
<1>2. ASSUME NEW c \in Calls, NEW s \in Sockets, NEW op \in Ops, NEW m \in Models,
             Arrive(c, s, op, m)
      PROVE  IInv'
  BY <1>1, <1>2, ArriveStep
<1>3. ASSUME NEW c \in Calls, Lookup(c) \/ Create(c) \/ Insert(c) \/ Undo(c)
      PROVE  IInv'
  BY <1>1, <1>3, LookupStep, CreateStep, InsertStep, UndoStep
<1>4. ASSUME NEW c \in Calls, Turn(c)
      PROVE  IInv'
  BY <1>1, <1>4, TurnStep
<1>5. ASSUME NEW c \in Calls, WriteSettings(c) \/ WriteDetails(c)
      PROVE  IInv'
  BY <1>1, <1>5, WriteSettingsStep, WriteDetailsStep
<1>6. ASSUME NEW c \in Calls, DeleteProvider(c) \/ DeleteRow(c)
      PROVE  IInv'
  BY <1>1, <1>6, DeleteProviderStep, DeleteRowStep
<1>7. ASSUME NEW c \in Calls, Cancel(c)
      PROVE  IInv'
  BY <1>1, <1>7, CancelStep
<1>8. ASSUME NEW s \in Sockets, Disconnect(s)
      PROVE  IInv'
  <2>1. {} \in SUBSET Calls /\ StepOK({})
    BY <1>8, DisconnectStep
  <2> QED
    BY <2>1, StepOKSuffices
<1>9. CASE UNCHANGED vars
  BY <1>9 DEF vars, IInv, TypeOK, CallOf, RowsInv, KnownRows, Exists, ConvOf,
     ConversationAccounted, Holds, At, RunOf, RunClosedWithTurn
<1> QED
  BY <1>2, <1>3, <1>4, <1>5, <1>6, <1>7, <1>8, <1>9 DEF Next

LEMMA Inductive == Spec => []IInv
BY InitIInv, NextIInv, PTL DEF Spec

(* Rows, sessions and calls stay well formed; a Conversation is always the *)
(* row's, or in the hands of a call, or a fault has separated it; a run    *)
(* that no turn writes any more agrees with the reply of its turn.         *)
THEOREM TurnsTyped == Spec => []TypeOK
BY Inductive, PTL DEF IInv

(* Of two callbacks that both find no thread only one keeps its            *)
(* Conversation, and a lost commit or a cancelled call alone leaves one.   *)
THEOREM ConversationsStayAccounted == Spec => []ConversationAccounted
BY Inductive, PTL DEF IInv

(* The prompt run and the reply of a turn that is over agree, or a fault   *)
(* has cut one of them short; they never contradict one another.           *)
THEOREM RunsCloseWithTurns == Spec => []RunClosedWithTurn
BY Inductive, PTL DEF IInv

-----------------------------------------------------------------------------
(* ThreadLife *)

LEMMA LifeInit == Init => Life!Init
BY DEF Init, Life!Init

LEMMA LifeStep == IInv /\ [Next]_vars => [Life!Next]_Life!vars
<1> SUFFICES ASSUME IInv, [Next]_vars
             PROVE  [Life!Next]_Life!vars
  OBVIOUS
<1> DEFINE current == IF thread = None THEN 0 ELSE thread.id
           provided == thread # None /\ provider[thread.conv] = "open"
<1>0. /\ TypeOK /\ RowsInv /\ (\A c \in Calls : CallOf(c) /\ ConvOf(c))
      /\ thread # None => /\ thread \in KnownRows /\ thread.conv \in Conversations
                          /\ thread.id \in Nat \ {0}
                          /\ provider[thread.conv] # "unused"
  BY Known, RowFacts DEF IInv, RowsInv
<1>1. ASSUME UNCHANGED opened, thread' = None <=> thread = None,
             thread # None => /\ thread'.id = thread.id
                              /\ thread'.conv = thread.conv
                              /\ provider'[thread.conv] = provider[thread.conv]
      PROVE  [Life!Next]_Life!vars
  <2>1. current' = current /\ provided' = provided
    BY <1>1
  <2> QED
    BY <1>1, <2>1 DEF Life!vars
<1>2. ASSUME UNCHANGED <<opened, thread>>, NEW v \in Conversations,
             provider' = [provider EXCEPT ![v] = "deleted"]
      PROVE  [Life!Next]_Life!vars
  <2>1. CASE thread # None /\ thread.conv = v /\ provider[v] = "open"
    <3>1. provided /\ ~provided' /\ current' = current
      BY <1>0, <1>2, <2>1 DEF TypeOK
    <3> QED
      BY <1>2, <3>1 DEF Life!Next, Life!Unprovide
  <2>2. CASE ~(thread # None /\ thread.conv = v /\ provider[v] = "open")
    <3>1. current' = current /\ provided' = provided
      BY <1>0, <1>2, <2>2 DEF TypeOK
    <3> QED
      BY <1>2, <3>1 DEF Life!vars
  <2> QED
    BY <2>1, <2>2
<1>3. ASSUME UNCHANGED <<thread, opened, provider>>
      PROVE  [Life!Next]_Life!vars
  BY <1>1, <1>3
<1>4. ASSUME NEW c \in Calls, Create(c)
      PROVE  [Life!Next]_Life!vars
  <2>1. CASE UNCHANGED provider
    BY <1>3, <1>4, <2>1 DEF Create
  <2>2. ASSUME NEW v \in Conversations, provider[v] = "unused",
               provider' = [provider EXCEPT ![v] = "open"]
        PROVE  [Life!Next]_Life!vars
    BY <1>0, <1>1, <1>4, <2>2 DEF Create, TypeOK
  <2> QED
    BY <1>4, <2>1, <2>2 DEF Create
<1>5. ASSUME NEW c \in Calls, Insert(c)
      PROVE  [Life!Next]_Life!vars
  <2> DEFINE v == call[c].conv
             row == [id |-> opened + 1, conv |-> v, model |-> DefaultModel]
  <2>1. CASE UNCHANGED <<thread, opened>>
    BY <1>3, <1>5, <2>1 DEF Insert
  <2>2. CASE thread = None /\ thread' = row /\ opened' = opened + 1
    <3>1. v \in Conversations /\ provider[v] = "open"
      BY <1>0, <1>5 DEF Insert, At, CallOf, ConvOf, TypeOK, CallRecords
    <3>2. row \in ThreadRows
      BY <1>0, <3>1, TurnsAssumption DEF TypeOK, ThreadRows
    <3>3. row # None /\ row.id = opened + 1 /\ row.conv = v
      BY <3>2, RowFacts
    <3> HIDE DEF row
    <3>4. current = 0 /\ current' = opened' /\ provided' /\ opened' = opened + 1
      BY <1>5, <2>2, <3>1, <3>3 DEF Insert
    <3> QED
      BY <3>4 DEF Life!Next, Life!Open
  <2> QED
    BY <1>5, <2>1, <2>2 DEF Insert
<1>6. ASSUME NEW c \in Calls, Undo(c)
      PROVE  [Life!Next]_Life!vars
  <2>1. call[c].conv \in Conversations
    BY <1>0, <1>6 DEF Undo, At, CallOf, TypeOK, CallRecords
  <2> QED
    BY <1>2, <1>3, <1>6, <2>1 DEF Undo
<1>7. ASSUME NEW c \in Calls, WriteSettings(c) \/ WriteDetails(c)
      PROVE  [Life!Next]_Life!vars
  <2> DEFINE row == call[c].row
  <2>1. /\ row \in KnownRows /\ UNCHANGED <<opened, provider>>
        /\ call[c].model \in Models /\ row.model \in Models
        /\ socket[call[c].socket].model \in Models
    BY <1>0, <1>7, Known, RowFacts DEF WriteSettings, WriteDetails, At, TypeOK, CallOf,
       CallRecords, SocketRecords
  <2>2. ASSUME NEW m \in Models, thread' = Saved(row, m)
        PROVE  [Life!Next]_Life!vars
    <3>1. /\ thread' = None <=> thread = None
          /\ thread # None => thread'.id = thread.id /\ thread'.conv = thread.conv
      BY <2>1, <2>2, SavedRow
    <3> QED
      BY <1>1, <2>1, <3>1
  <2>3. CASE UNCHANGED thread
    BY <1>3, <2>1, <2>3
  <2> QED
    BY <1>7, <2>1, <2>2, <2>3 DEF WriteSettings, WriteDetails
<1>8. ASSUME NEW c \in Calls, DeleteProvider(c)
      PROVE  [Life!Next]_Life!vars
  <2>1. call[c].row.conv \in Conversations
    BY <1>0, <1>8, Known, RowFacts DEF DeleteProvider, At, TypeOK
  <2> QED
    BY <1>2, <1>3, <1>8, <2>1 DEF DeleteProvider
<1>9. ASSUME NEW c \in Calls, DeleteRow(c)
      PROVE  [Life!Next]_Life!vars
  <2> DEFINE row == call[c].row
  <2>1. row \in KnownRows /\ provider[row.conv] = "deleted" /\ UNCHANGED <<opened, provider>>
    BY <1>0, <1>9, Known DEF DeleteRow, At, TypeOK, ConvOf
  <2>2. CASE thread' = thread
    BY <1>3, <2>1, <2>2
  <2>3. CASE thread' = None /\ Exists(row)
    <3>1. thread # None /\ thread \in KnownRows /\ thread.id = row.id
      BY <1>0, <2>3 DEF Exists
    <3>2. thread.conv = row.conv
      BY <1>0, <2>1, <3>1 DEF RowsInv
    <3>3. current # 0 /\ ~provided /\ current' = 0 /\ ~provided'
      BY <1>0, <2>1, <2>3, <3>1, <3>2
    <3> QED
      BY <2>1, <3>3 DEF Life!Next, Life!Remove
  <2> QED
    BY <1>9, <2>2, <2>3 DEF DeleteRow
<1>10. CASE UNCHANGED vars
  BY <1>3, <1>10 DEF vars
<1>11. ASSUME NEW c \in Calls, Lookup(c) \/ Turn(c) \/ Cancel(c)
       PROVE  [Life!Next]_Life!vars
  BY <1>3, <1>11 DEF Lookup, Turn, Begin, Delta, Tool, Streamed, Finish, Fail, Reply,
     SafeFinish, Cancel
<1>12. ASSUME NEW c \in Calls, NEW s \in Sockets, NEW op \in Ops, NEW m \in Models,
              Arrive(c, s, op, m)
       PROVE  [Life!Next]_Life!vars
  BY <1>3, <1>12 DEF Arrive
<1>13. ASSUME NEW s \in Sockets, Disconnect(s)
       PROVE  [Life!Next]_Life!vars
  BY <1>3, <1>13 DEF Disconnect
<1> QED
  BY <1>4, <1>5, <1>6, <1>7, <1>8, <1>9, <1>10, <1>11, <1>12, <1>13 DEF Next

(* Stale sessions, late writes and failing calls do not bring the row back *)
(* or take it before the provider's Conversation.                          *)
THEOREM TurnsKeepLife == Spec => LifeSpec
BY LifeInit, LifeStep, Inductive, PTL DEF Spec, LifeSpec, Life!Spec

=============================================================================
