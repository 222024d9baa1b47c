----------------------------- MODULE OledProofs ------------------------------
(***************************************************************************)
(* The invariants of OledPrint for every set of clients, every priority of *)
(* theirs and of the queue task, every size of the heap, of the queue and  *)
(* of the screen.                                                          *)
(***************************************************************************)
EXTENDS OledPrint, FiniteSetTheorems, SequenceTheorems, TLAPS

(***************************************************************************)
(* The inductive invariant, in parts.                                      *)
(***************************************************************************)
\* Only one call at a time is past oled_util_lock.
Inside(c) == print[c] \in {"alloc", "alloc_text", "copy", "enqueue", "unlock"}
UtilInv ==
  /\ \A c, d \in Clients : Inside(c) /\ Inside(d) => c = d
  /\ (\E c \in Clients : Inside(c)) => oled_util_lock

\* A call holds a block exactly from its first malloc to its sys_queue.
Holds(c) == print[c] \in {"alloc_text", "copy", "enqueue"}
BlockInv == \A c \in Clients : IF Holds(c) THEN block[c] \in Blocks ELSE block[c] = Nobody

\* The job in progress is the oldest one, whose function is cleared at its end.
Idle == {"idle", "look"}
PrintJobs == [ctx : Blocks, function : BOOLEAN, destroyer : {FALSE}]
Queued == 1 .. Len(oled_print_queue)
QueueInv ==
  /\ oled_print_queue \in Seq(PrintJobs)
  /\ Len(oled_print_queue) <= PrintQueueSize
  /\ job \notin Idle => oled_print_queue # <<>>
  /\ \A k \in Queued : oled_print_queue[k].function <=> ~ (k = 1 /\ job = "retire")

\* What the heap holds, piece by piece; no block has two owners.
OfCall(p) == \E c \in Clients : p \in InHand(c)
OfJob(p) == \E k \in Queued : JobHolds(k) /\ p \in PieceOf(oled_print_queue[k].ctx)
HeapInv ==
  /\ heap \subseteq Pieces
  /\ \A p \in Pieces : p \in heap <=> OfCall(p) \/ OfJob(p)
  /\ \A j, k \in Queued : JobHolds(j) /\ JobHolds(k)
                          /\ oled_print_queue[j].ctx = oled_print_queue[k].ctx => j = k
  /\ \A k \in Queued, c \in Clients : JobHolds(k) /\ Holds(c) => oled_print_queue[k].ctx # block[c]

\* A text that is known to be a client's is that client's in both halves.
Formatted == {"lock", "alloc", "alloc_text", "copy"}
TextInv ==
  /\ ~ panicked => oled_buffer \in Text
  /\ ~ panicked => \A c \in Clients : alone[c] =>
       /\ print[c] = "format_rest" => oled_buffer.head = c
       /\ print[c] \in Formatted => oled_buffer = Whole(c)
  /\ \A b \in Blocks : caller[b] # Nobody => content[b] = Whole(caller[b])

\* Each lock of the display is held at certain steps of the job and at no
\* other: so a job never finds one taken.
Drawing == {"cursor", "draw", "free", "unlock_buffer"}
Sending == {"page", "i2c_set", "i2c_send", "unlock_screen"}
Sent == {"unlock_screen", "return"}
LockInv ==
  /\ ~ panicked => (oled_buffer_lock => job \in Drawing)
  /\ ~ panicked => (update_screen_lock => job \in Sending)
  /\ i2c1_lock <=> job = "i2c_send"
  /\ status \in {"ok", "bus"}
  /\ status = "bus" => job \in Sent
  /\ job \in Sending \ Sent => page \in 1 .. Pages

ScreenInv ==
  /\ ~ panicked => screen \in Text /\ panel \in Text
  /\ ~ panicked => (author # Nobody => screen = Whole(author))
  /\ ~ panicked => (job \in Sent /\ status = "ok" => panel = screen)
  /\ panicked => panel = PanicText \/ job = "i2c_send"

IInv == TypeOK /\ UtilInv /\ BlockInv /\ QueueInv /\ HeapInv /\ TextInv /\ LockInv /\ ScreenInv

-----------------------------------------------------------------------------
(***************************************************************************)
(* The steps of OledNext, and what each party leaves alone.                *)
(***************************************************************************)
ClientStep(c) == ~ panicked /\ (PrintCall(c) \/ PrintOn(c))
JobStep == ~ panicked /\ (PrintTurn \/ JobOn)

LEMMA Steps ==
  ASSUME [OledNext]_oledVars
  PROVE  \/ \E c \in Clients : ClientStep(c)
         \/ JobStep
         \/ ~ panicked /\ Panic
         \/ UNCHANGED oledVars
BY DEF OledNext, ClientOn, QueueTaskOn, CanRun, ClientStep, JobStep

LEMMA ClientFrame ==
  ASSUME NEW c \in Clients, ClientStep(c)
  PROVE  /\ UNCHANGED <<oled_buffer_lock, update_screen_lock, i2c1_lock, jobVars, screen, author,
                        panel, panicked>>
         /\ ~ panicked
<1>1. CASE PrintCall(c)
  BY <1>1 DEF ClientStep, PrintCall, oledLocks, jobVars
<1>2. CASE Format(c) \/ FormatRest(c)
  BY <1>2 DEF ClientStep, Format, FormatRest, Writes, oledLocks, jobVars, shownVars
<1>3. CASE Lock(c) \/ NoText(c) \/ Alloc(c) \/ AllocText(c) \/ AllocFails(c)
  BY <1>3 DEF ClientStep, Lock, NoText, Alloc, AllocText, AllocFails, oledLocks, jobVars, shownVars
<1>4. CASE Copy(c) \/ Enqueue(c) \/ RefuseText(c) \/ UnlockText(c)
  BY <1>4 DEF ClientStep, Copy, Enqueue, RefuseText, UnlockText, oledLocks, jobVars, shownVars
<1> QED BY <1>1, <1>2, <1>3, <1>4 DEF ClientStep, PrintOn

LEMMA JobFrame ==
  ASSUME JobStep
  PROVE  UNCHANGED <<oled_buffer, oled_util_lock, clientVars, panicked>> /\ ~ panicked
<1>1. CASE PrintTurn \/ LookForText \/ FlushBusy \/ LockBuffer \/ SetCursor \/ Draw \/ FreeText
  BY <1>1 DEF JobStep, PrintTurn, LookForText, FlushBusy, LockBuffer, SetCursor, Draw, FreeText,
              oledLocks, clientVars, shownVars
<1>2. CASE UnlockBuffer \/ LockScreen \/ TestPort \/ SetPort \/ SendPage \/ SendFails
           \/ UnlockScreen \/ JobReturns \/ RetireText
  BY <1>2 DEF JobStep, UnlockBuffer, LockScreen, TestPort, SetPort, SendPage, SendFails,
              UnlockScreen, JobReturns, RetireText, oledLocks, clientVars, shownVars
<1> QED BY <1>1, <1>2 DEF JobStep, JobOn

-----------------------------------------------------------------------------
(***************************************************************************)
(* Texts and records.                                                      *)
(***************************************************************************)
LEMMA TextFacts ==
  /\ \A w \in Writers : Whole(w) \in Text
  /\ \A t \in Text, w \in Writers :
        /\ [t EXCEPT !["head"] = w] \in Text
        /\ [t EXCEPT !["head"] = w].head = w
        /\ [t EXCEPT !["tail"] = w] \in Text
        /\ [t EXCEPT !["tail"] = w].head = t.head
        /\ t.head = w => [t EXCEPT !["tail"] = w] = Whole(w)
BY DEF Text, Whole

LEMMA PieceFacts ==
  /\ \A b : PieceOf(b) = {<<"struct", b>>, <<"text", b>>}
  /\ \A b \in Blocks : PieceOf(b) \subseteq Pieces
  /\ \A p \in Pieces : \E b \in Blocks : p \in {<<"struct", b>>, <<"text", b>>}
  /\ \A a, b : a # b => PieceOf(a) \cap PieceOf(b) = {}
BY DEF PieceOf, Pieces

-----------------------------------------------------------------------------
(***************************************************************************)
(* oled_util_lock and the blocks in the hands of the calls.                *)
(***************************************************************************)
LEMMA UtilStep ==
  ASSUME IInv, [OledNext]_oledVars
  PROVE  UtilInv'
<1>1. print \in [Clients -> PrintPC] /\ UtilInv
  BY DEF IInv, TypeOK
<1>2. ASSUME NEW c \in Clients, ClientStep(c) PROVE UtilInv'
  <2>1. CASE PrintCall(c) \/ Format(c) \/ FormatRest(c)
    BY <1>1, <2>1 DEF PrintCall, Format, FormatRest, Writes, GoPrint, oledLocks, UtilInv, Inside
  <2>2. CASE Lock(c)
    BY <1>1, <2>2 DEF Lock, GoPrint, UtilInv, Inside
  <2>3. CASE NoText(c) \/ UnlockText(c)
    BY <1>1, <2>3 DEF NoText, UnlockText, GoPrint, UtilInv, Inside
  <2>4. CASE AllocFails(c)
    BY <1>1, <2>4 DEF AllocFails, UtilInv, Inside
  <2>5. CASE Alloc(c) \/ AllocText(c) \/ Copy(c) \/ Enqueue(c) \/ RefuseText(c)
    BY <1>1, <2>5 DEF Alloc, AllocText, Copy, Enqueue, RefuseText, GoPrint, oledLocks, UtilInv, Inside
  <2> QED BY <1>2, <2>1, <2>2, <2>3, <2>4, <2>5 DEF ClientStep, PrintOn
<1>3. CASE JobStep
  BY <1>1, <1>3, JobFrame DEF clientVars, UtilInv, Inside
<1>4. CASE Panic
  BY <1>1, <1>4 DEF Panic, clientVars, UtilInv, Inside
<1>5. CASE UNCHANGED oledVars
  BY <1>1, <1>5 DEF oledVars, oledLocks, clientVars, UtilInv, Inside
<1> QED BY <1>2, <1>3, <1>4, <1>5, Steps

\* malloc never returns the memory of a text that is still to be drawn: with
\* room in the heap there is a block none of whose pieces is allocated.
LEMMA RoomForBlock ==
  ASSUME IInv, HasRoom, \A c \in Clients : print[c] # "alloc_text"
  PROVE  \E b \in Blocks : PieceOf(b) \cap heap = {}
<1> SUFFICES ASSUME \A b \in Blocks : PieceOf(b) \cap heap # {} PROVE FALSE
  OBVIOUS
<1>1. ASSUME NEW b \in Blocks PROVE <<"struct", b>> \in heap <=> <<"text", b>> \in heap
  <2>1. \A c \in Clients : <<"struct", b>> \in InHand(c) <=> <<"text", b>> \in InHand(c)
    BY DEF InHand, PieceOf
  <2>2. \A x : <<"struct", b>> \in PieceOf(x) <=> <<"text", b>> \in PieceOf(x)
    BY DEF PieceOf
  <2>3. <<"struct", b>> \in Pieces /\ <<"text", b>> \in Pieces
    BY DEF Pieces
  <2> QED BY <2>1, <2>2, <2>3 DEF IInv, HeapInv, OfCall, OfJob
<1>2. ASSUME NEW b \in Blocks PROVE <<"struct", b>> \in heap /\ <<"text", b>> \in heap
  <2>1. PICK p \in PieceOf(b) : p \in heap
    OBVIOUS
  <2>2. p = <<"struct", b>> \/ p = <<"text", b>>
    BY <2>1, PieceFacts
  <2> QED BY <1>1, <2>1, <2>2
<1>3. heap = {"struct", "text"} \X Blocks
  <2>1. heap \subseteq Pieces
    BY DEF IInv, HeapInv
  <2>2. ASSUME NEW p \in Pieces PROVE p \in heap
    BY <1>2, PieceFacts
  <2> QED BY <2>1, <2>2 DEF Pieces
<1>4. IsFiniteSet({"struct", "text"}) /\ Cardinality({"struct", "text"}) = 2
  <2>1. IsFiniteSet({"struct"}) /\ Cardinality({"struct"}) = 1
    BY FS_Singleton
  <2>2. {"struct", "text"} = {"struct"} \cup {"text"} /\ "text" \notin {"struct"}
    OBVIOUS
  <2> QED BY <2>1, <2>2, FS_AddElement
<1>5. Cardinality(heap) = 2 * Cardinality(Blocks)
  BY <1>3, <1>4, FS_Product, OledAssumption
<1>6. Cardinality(Blocks) \in Nat
  BY FS_CardinalityType, OledAssumption
<1> QED BY <1>5, <1>6, OledAssumption DEF HasRoom

\* The block Alloc picks.
Fresh == CHOOSE b \in Blocks : PieceOf(b) \cap heap = {}

LEMMA FreshFacts ==
  ASSUME IInv, NEW c \in Clients, Alloc(c)
  PROVE  /\ Fresh \in Blocks
         /\ PieceOf(Fresh) \cap heap = {}
         /\ heap' = heap \cup {<<"struct", Fresh>>}
         /\ block' = [block EXCEPT ![c] = Fresh]
<1>1. \A d \in Clients : print[d] # "alloc_text"
  BY DEF IInv, UtilInv, Inside, Alloc, GoPrint
<1>2. \E b \in Blocks : PieceOf(b) \cap heap = {}
  BY <1>1, RoomForBlock DEF Alloc
<1>3. Fresh \in Blocks /\ PieceOf(Fresh) \cap heap = {}
  BY <1>2 DEF Fresh
<1> QED BY <1>3 DEF Alloc, Fresh

LEMMA BlockStep ==
  ASSUME IInv, [OledNext]_oledVars
  PROVE  BlockInv' /\ block' \in [Clients -> Blocks \cup {Nobody}]
<1>1. /\ print \in [Clients -> PrintPC] /\ BlockInv
      /\ block \in [Clients -> Blocks \cup {Nobody}]
  BY DEF IInv, TypeOK
<1> DEFINE Goal == BlockInv' /\ block' \in [Clients -> Blocks \cup {Nobody}]
<1>2. ASSUME NEW c \in Clients, ClientStep(c) PROVE Goal
  <2>1. CASE PrintCall(c) \/ Format(c) \/ FormatRest(c)
    BY <1>1, <2>1 DEF PrintCall, Format, FormatRest, Writes, GoPrint, BlockInv, Holds
  <2>2. CASE Lock(c) \/ NoText(c) \/ UnlockText(c) \/ AllocText(c) \/ Copy(c)
    BY <1>1, <2>2 DEF Lock, NoText, UnlockText, AllocText, Copy, GoPrint, BlockInv, Holds
  <2>3. CASE Alloc(c)
    <3>1. Fresh \in Blocks /\ block' = [block EXCEPT ![c] = Fresh]
      BY <2>3, FreshFacts
    <3> QED BY <1>1, <2>3, <3>1 DEF Alloc, GoPrint, BlockInv, Holds
  <2>4. CASE AllocFails(c) \/ Enqueue(c) \/ RefuseText(c)
    BY <1>1, <2>4 DEF AllocFails, Enqueue, RefuseText, GoPrint, BlockInv, Holds
  <2> QED BY <1>2, <2>1, <2>2, <2>3, <2>4 DEF ClientStep, PrintOn
<1>3. CASE JobStep
  BY <1>1, <1>3, JobFrame DEF clientVars, BlockInv, Holds
<1>4. CASE Panic
  BY <1>1, <1>4 DEF Panic, clientVars, BlockInv, Holds
<1>5. CASE UNCHANGED oledVars
  BY <1>1, <1>5 DEF oledVars, clientVars, BlockInv, Holds
<1> QED BY <1>2, <1>3, <1>4, <1>5, Steps

-----------------------------------------------------------------------------
(***************************************************************************)
(* The queue: a call appends, only the queue task touches the oldest job.  *)
(***************************************************************************)
LEMMA PutStep ==
  ASSUME IInv, NEW c \in Clients, Enqueue(c)
  PROVE  /\ block[c] \in Blocks
         /\ job = "idle" /\ job' = job
         /\ oled_print_queue' = Append(oled_print_queue, PrintJob(block[c]))
         /\ Len(oled_print_queue) < PrintQueueSize
BY DEF IInv, BlockInv, Holds, Enqueue, GoPrint, jobVars, PrintQueue!Put

LEMMA RunStep ==
  ASSUME IInv, JobReturns
  PROVE  /\ job = "return" /\ job' = "retire"
         /\ oled_print_queue # <<>>
         /\ oled_print_queue' = [oled_print_queue EXCEPT ![1].function = FALSE]
BY DEF IInv, QueueInv, JobReturns, GoJob, PrintQueue!RunOldest

LEMMA RetireStep ==
  ASSUME IInv, RetireText
  PROVE  /\ job = "retire" /\ job' = "idle"
         /\ oled_print_queue # <<>>
         /\ oled_print_queue' = Tail(oled_print_queue)
BY DEF RetireText, GoJob, PrintQueue!Retire

\* What each of the three does to the jobs, one by one.
LEMMA Appended ==
  ASSUME NEW q \in Seq(PrintJobs), NEW b \in Blocks
  PROVE  /\ Append(q, PrintJob(b)) \in Seq(PrintJobs)
         /\ Len(Append(q, PrintJob(b))) = Len(q) + 1
         /\ \A k \in 1 .. Len(q) : Append(q, PrintJob(b))[k] = q[k]
         /\ Append(q, PrintJob(b))[Len(q) + 1] = PrintJob(b)
         /\ PrintJob(b).ctx = b /\ PrintJob(b).function
<1>1. PrintJob(b) \in PrintJobs /\ PrintJob(b).ctx = b /\ PrintJob(b).function
  BY DEF PrintJob, PrintJobs
<1> QED BY <1>1, AppendProperties

LEMMA OldestRan ==
  ASSUME NEW q \in Seq(PrintJobs), q # <<>>
  PROVE  LET r == [q EXCEPT ![1].function = FALSE]
         IN  /\ r \in Seq(PrintJobs)
             /\ Len(r) = Len(q)
             /\ \A k \in 1 .. Len(q) : r[k].ctx = q[k].ctx
             /\ ~ r[1].function
             /\ \A k \in 2 .. Len(q) : r[k] = q[k]
<1> DEFINE e == [q[1] EXCEPT !.function = FALSE]
           r == [q EXCEPT ![1].function = FALSE]
<1>1. 1 \in 1 .. Len(q) /\ Len(q) \in Nat /\ q[1] \in PrintJobs
  BY EmptySeq, LenProperties, ElementOfSeq
<1>2. e \in PrintJobs /\ e.ctx = q[1].ctx /\ ~ e.function
  BY <1>1 DEF PrintJobs
<1>3. r = [q EXCEPT ![1] = e]
  OBVIOUS
<1> HIDE DEF e, r
<1>4. /\ r \in Seq(PrintJobs)
      /\ Len(r) = Len(q)
      /\ \A k \in 1 .. Len(q) : r[k] = IF k = 1 THEN e ELSE q[k]
  BY <1>1, <1>2, <1>3, ExceptSeq
<1>5. r[1] = e /\ (\A k \in 2 .. Len(q) : r[k] = q[k])
  BY <1>1, <1>4
<1>6. \A k \in 1 .. Len(q) : r[k].ctx = q[k].ctx
  BY <1>2, <1>4
<1> QED BY <1>2, <1>4, <1>5, <1>6 DEF r

LEMMA TailRest ==
  ASSUME NEW q \in Seq(PrintJobs), q # <<>>
  PROVE  /\ Tail(q) \in Seq(PrintJobs)
         /\ Len(Tail(q)) = Len(q) - 1
         /\ \A k \in 1 .. Len(q) - 1 : Tail(q)[k] = q[k + 1]
BY HeadTailProperties

LEMMA QueueSame ==
  ASSUME QueueInv, oled_print_queue' = oled_print_queue, job' \in Idle \/ job \notin Idle,
         (job' = "retire") = (job = "retire")
  PROVE  QueueInv'
BY DEF QueueInv, Queued, Idle

LEMMA QueueStep ==
  ASSUME IInv, [OledNext]_oledVars
  PROVE  QueueInv'
<1>1. QueueInv /\ job \in JobPC /\ Len(oled_print_queue) \in Nat
  BY LenProperties DEF IInv, TypeOK, QueueInv
<1>2. ASSUME NEW c \in Clients, ClientStep(c) PROVE QueueInv'
  <2>1. CASE Enqueue(c)
    <3> DEFINE q == oled_print_queue
    <3>1. /\ block[c] \in Blocks /\ job = "idle" /\ job' = job /\ Len(q) < PrintQueueSize
          /\ q' = Append(q, PrintJob(block[c])) /\ q \in Seq(PrintJobs)
      BY <1>1, <2>1, PutStep DEF QueueInv
    <3>2. /\ q' \in Seq(PrintJobs)
          /\ Len(q') = Len(q) + 1
          /\ \A k \in 1 .. Len(q) : q'[k] = q[k]
          /\ q'[Len(q) + 1].function
      BY <3>1, Appended
    <3>3. Len(q') <= PrintQueueSize
      BY <1>1, <3>1, <3>2, OledAssumption
    <3>4. ASSUME NEW k \in 1 .. Len(q') PROVE q'[k].function
      <4>1. CASE k = Len(q) + 1
        BY <3>2, <4>1
      <4>2. CASE k \in 1 .. Len(q)
        BY <1>1, <3>1, <3>2, <4>2 DEF QueueInv, Queued
      <4> QED BY <1>1, <3>2, <4>1, <4>2
    <3> QED BY <3>1, <3>2, <3>3, <3>4 DEF QueueInv, Queued, Idle
  <2>2. CASE ~ Enqueue(c)
    <3>1. oled_print_queue' = oled_print_queue /\ job' = job
      BY <1>2, <2>2, ClientFrame DEF ClientStep, PrintOn, PrintCall, Format, FormatRest, Writes, Lock,
         NoText, Alloc, AllocText, AllocFails, Copy, RefuseText, UnlockText, jobVars
    <3> QED BY <1>1, <3>1, QueueSame
  <2> QED BY <2>1, <2>2
<1>3. CASE JobStep
  <2>1. CASE JobReturns
    <3> DEFINE q == oled_print_queue
    <3>1. /\ job = "return" /\ job' = "retire" /\ q # <<>>
          /\ q' = [q EXCEPT ![1].function = FALSE] /\ q \in Seq(PrintJobs)
      BY <1>1, <2>1, RunStep DEF QueueInv
    <3>2. /\ q' \in Seq(PrintJobs)
          /\ Len(q') = Len(q)
          /\ ~ q'[1].function
          /\ \A k \in 2 .. Len(q) : q'[k] = q[k]
      BY <3>1, OldestRan
    <3>3. ASSUME NEW k \in 1 .. Len(q') PROVE q'[k].function <=> k # 1
      BY <1>1, <3>1, <3>2 DEF QueueInv, Queued
    <3>4. q' # <<>>
      BY <3>1, <3>2, EmptySeq
    <3> QED BY <1>1, <3>1, <3>2, <3>3, <3>4 DEF QueueInv, Queued
  <2>2. CASE RetireText
    <3> DEFINE q == oled_print_queue
    <3>1. /\ job = "retire" /\ job' = "idle" /\ q # <<>> /\ q' = Tail(q) /\ q \in Seq(PrintJobs)
      BY <1>1, <2>2, RetireStep DEF QueueInv
    <3>2. /\ q' \in Seq(PrintJobs)
          /\ Len(q') = Len(q) - 1
          /\ \A k \in 1 .. Len(q) - 1 : q'[k] = q[k + 1]
      BY <3>1, TailRest
    <3>3. ASSUME NEW k \in 1 .. Len(q') PROVE q'[k].function
      BY <1>1, <3>1, <3>2 DEF QueueInv, Queued
    <3>4. Len(q') <= PrintQueueSize
      BY <1>1, <3>2, OledAssumption DEF QueueInv
    <3> QED BY <3>1, <3>2, <3>3, <3>4 DEF QueueInv, Queued, Idle
  <2>3. CASE LookForText
    BY <1>1, <2>3 DEF LookForText, GoJob, QueueInv, Queued, Idle
  <2>4. CASE PrintTurn \/ FlushBusy \/ LockBuffer \/ SetCursor \/ Draw \/ FreeText \/ UnlockBuffer
    BY <1>1, <2>4, QueueSame DEF PrintTurn, FlushBusy, LockBuffer, SetCursor, Draw, FreeText,
       UnlockBuffer, GoJob, Idle
  <2>5. CASE LockScreen \/ TestPort \/ SetPort \/ SendPage \/ SendFails \/ UnlockScreen
    BY <1>1, <2>5, QueueSame DEF LockScreen, TestPort, SetPort, SendPage, SendFails, UnlockScreen,
       GoJob, Idle
  <2> QED BY <1>3, <2>1, <2>2, <2>3, <2>4, <2>5 DEF JobStep, JobOn
<1>4. CASE Panic
  BY <1>1, <1>4, QueueSame DEF Panic, jobVars
<1>5. CASE UNCHANGED oledVars
  BY <1>1, <1>5, QueueSame DEF oledVars, jobVars
<1> QED BY <1>2, <1>3, <1>4, <1>5, Steps

-----------------------------------------------------------------------------
(***************************************************************************)
(* The heap.  A job holds its text up to the step that frees it.           *)
(***************************************************************************)
Early == {"idle", "look", "flush", "buffer", "cursor", "draw", "free"}

LEMMA JobHoldsFacts ==
  /\ QueueInv => \A k \in Queued : JobHolds(k) <=> (k = 1 => job \in Early)
  /\ QueueInv' => \A k \in Queued' : JobHolds(k)' <=> (k = 1 => job' \in Early)
BY DEF QueueInv, JobHolds, Early

\* Only the one call inside the lock has anything in its hands.
LEMMA OnlyCall ==
  ASSUME IInv, NEW c \in Clients, Inside(c), UtilInv', BlockInv',
         \A d \in Clients \ {c} : print'[d] = print[d] /\ block'[d] = block[d]
  PROVE  /\ \A p : OfCall(p) <=> p \in InHand(c)
         /\ \A p : OfCall(p)' <=> p \in InHand(c)'
         /\ \A d \in Clients : Holds(d) => d = c
         /\ \A d \in Clients : Holds(d)' => d = c
<1>1. \A d \in Clients \ {c} : ~ Inside(d) /\ ~ Inside(d)'
  BY DEF IInv, UtilInv, Inside
<1>2. \A d \in Clients \ {c} : InHand(d) = {} /\ InHand(d)' = {} /\ ~ Holds(d) /\ ~ Holds(d)'
  BY <1>1 DEF Inside, InHand, Holds
<1> QED BY <1>2 DEF OfCall

LEMMA JobsSame ==
  ASSUME oled_print_queue' = oled_print_queue, job' = job
  PROVE  /\ Queued' = Queued
         /\ \A k : JobHolds(k)' <=> JobHolds(k)
         /\ \A p : OfJob(p)' <=> OfJob(p)
BY DEF Queued, JobHolds, OfJob

\* A step that gives nobody anything and takes nothing from anybody.
LEMMA HeapSame ==
  ASSUME IInv, QueueInv', heap' = heap, oled_print_queue' = oled_print_queue,
         job \in Early <=> job' \in Early,
         \A c \in Clients : /\ InHand(c)' = InHand(c)
                            /\ Holds(c)' => Holds(c) /\ block'[c] = block[c]
  PROVE  HeapInv'
<1>1. Queued' = Queued /\ (\A k \in Queued : JobHolds(k)' <=> JobHolds(k))
  BY JobHoldsFacts DEF IInv, Queued
<1>2. \A p : OfCall(p)' <=> OfCall(p)
  BY DEF OfCall
<1>3. \A p : OfJob(p)' <=> OfJob(p)
  BY <1>1 DEF OfJob
<1> QED BY <1>1, <1>2, <1>3 DEF IInv, HeapInv

LEMMA AllocHeap ==
  ASSUME IInv, NEW c \in Clients, Alloc(c), UtilInv', BlockInv'
  PROVE  HeapInv'
<1>1. /\ Fresh \in Blocks /\ PieceOf(Fresh) \cap heap = {}
      /\ heap' = heap \cup {<<"struct", Fresh>>}
      /\ block' = [block EXCEPT ![c] = Fresh]
      /\ print[c] = "alloc" /\ print' = [print EXCEPT ![c] = "alloc_text"]
      /\ oled_print_queue' = oled_print_queue /\ job' = job
  BY FreshFacts DEF Alloc, GoPrint, jobVars
<1>2. print \in [Clients -> PrintPC] /\ block \in [Clients -> Blocks \cup {Nobody}] /\ HeapInv
  BY DEF IInv, TypeOK
<1>3. InHand(c) = {} /\ InHand(c)' = {<<"struct", Fresh>>}
  BY <1>1, <1>2 DEF InHand
<1>4. /\ \A p : OfCall(p) <=> p \in InHand(c)
      /\ \A p : OfCall(p)' <=> p \in InHand(c)'
      /\ \A d \in Clients : Holds(d)' => d = c
  BY <1>1, <1>2, OnlyCall DEF Inside
<1>5. \A k \in Queued : JobHolds(k) => oled_print_queue[k].ctx # Fresh
  <2> SUFFICES ASSUME NEW k \in Queued, JobHolds(k), oled_print_queue[k].ctx = Fresh PROVE FALSE
    OBVIOUS
  <2>1. <<"struct", Fresh>> \in PieceOf(Fresh) /\ <<"struct", Fresh>> \in Pieces
    BY <1>1, PieceFacts
  <2>2. OfJob(<<"struct", Fresh>>)
    BY <2>1 DEF OfJob
  <2> QED BY <1>1, <1>2, <2>1, <2>2 DEF HeapInv
<1>6. <<"struct", Fresh>> \in Pieces
  BY <1>1, PieceFacts
<1>7. block'[c] = Fresh
  BY <1>1, <1>2
<1> QED BY <1>1, <1>2, <1>3, <1>4, <1>5, <1>6, <1>7, JobsSame DEF HeapInv

LEMMA AllocTextHeap ==
  ASSUME IInv, NEW c \in Clients, AllocText(c), UtilInv', BlockInv'
  PROVE  HeapInv'
<1>1. /\ heap' = heap \cup {<<"text", block[c]>>} /\ block' = block
      /\ print[c] = "alloc_text" /\ print' = [print EXCEPT ![c] = "copy"]
      /\ oled_print_queue' = oled_print_queue /\ job' = job
  BY DEF AllocText, GoPrint, jobVars
<1>2. print \in [Clients -> PrintPC] /\ block[c] \in Blocks /\ HeapInv /\ Holds(c)
  BY <1>1 DEF IInv, TypeOK, BlockInv, Holds
<1>3. /\ InHand(c) = {<<"struct", block[c]>>}
      /\ InHand(c)' = {<<"struct", block[c]>>, <<"text", block[c]>>}
  BY <1>1, <1>2, PieceFacts DEF InHand
<1>4. /\ \A p : OfCall(p) <=> p \in InHand(c)
      /\ \A p : OfCall(p)' <=> p \in InHand(c)'
      /\ \A d \in Clients : Holds(d)' => d = c
  BY <1>1, <1>2, OnlyCall DEF Inside
<1>5. <<"text", block[c]>> \in Pieces
  BY <1>2, PieceFacts
<1> QED BY <1>1, <1>2, <1>3, <1>4, <1>5, JobsSame DEF HeapInv

\* Giving up a block: none of its pieces belongs to a job.
LEMMA GiveUp ==
  ASSUME IInv, NEW c \in Clients, Inside(c), UtilInv', BlockInv',
         FreePieces(block[c]), print' = [print EXCEPT ![c] = print'[c]], ~ Holds(c)',
         block' = [block EXCEPT ![c] = Nobody],
         oled_print_queue' = oled_print_queue, job' = job
  PROVE  HeapInv'
<1>1. /\ print \in [Clients -> PrintPC] /\ block \in [Clients -> Blocks \cup {Nobody}] /\ HeapInv
      /\ IF Holds(c) THEN block[c] \in Blocks ELSE block[c] = Nobody
  BY DEF IInv, TypeOK, BlockInv
<1>2. /\ \A p : OfCall(p) <=> p \in InHand(c)
      /\ \A p : OfCall(p)' <=> p \in InHand(c)'
      /\ \A d \in Clients : Holds(d)' => d = c
  BY <1>1, OnlyCall
<1>3. InHand(c)' = {} /\ InHand(c) \subseteq PieceOf(block[c])
  BY PieceFacts DEF InHand, Holds
<1>4. heap' = heap \ PieceOf(block[c])
  BY DEF FreePieces
<1>5. ASSUME NEW p \in Pieces, OfJob(p) PROVE p \notin PieceOf(block[c])
  <2>1. PICK k \in Queued : JobHolds(k) /\ p \in PieceOf(oled_print_queue[k].ctx)
    BY <1>5 DEF OfJob
  <2>2. CASE Holds(c)
    BY <1>1, <2>1, <2>2, PieceFacts DEF HeapInv
  <2>3. CASE ~ Holds(c)
    BY <1>1, <2>3, PieceFacts, OledAssumption DEF Pieces
  <2> QED BY <2>2, <2>3
<1> QED BY <1>1, <1>2, <1>3, <1>4, <1>5, JobsSame DEF HeapInv

LEMMA EnqueueHeap ==
  ASSUME IInv, NEW c \in Clients, Enqueue(c), UtilInv', BlockInv', QueueInv'
  PROVE  HeapInv'
<1> DEFINE q == oled_print_queue
<1>1. /\ block[c] \in Blocks /\ job = "idle" /\ job' = job
      /\ q' = Append(q, PrintJob(block[c])) /\ q \in Seq(PrintJobs)
      /\ block' = [block EXCEPT ![c] = Nobody] /\ heap' = heap
      /\ print[c] = "enqueue" /\ print' = [print EXCEPT ![c] = "unlock"]
  BY PutStep DEF IInv, QueueInv, Enqueue, GoPrint, heapVars
<1>2. /\ Len(q) \in Nat /\ Len(q') = Len(q) + 1
      /\ \A k \in Queued : q'[k] = q[k]
      /\ q'[Len(q) + 1].ctx = block[c]
  BY <1>1, Appended, LenProperties DEF Queued
<1>3. /\ print \in [Clients -> PrintPC] /\ HeapInv /\ Holds(c)
      /\ block \in [Clients -> Blocks \cup {Nobody}]
  BY <1>1 DEF IInv, TypeOK, Holds
<1>4. InHand(c)' = {} /\ InHand(c) = PieceOf(block[c]) /\ ~ Holds(c)'
  BY <1>1, <1>3 DEF InHand, Holds
<1>5. /\ \A p : OfCall(p) <=> p \in InHand(c)
      /\ \A p : OfCall(p)' <=> p \in InHand(c)'
      /\ \A d \in Clients : Holds(d)' => d = c
  BY <1>1, <1>3, OnlyCall DEF Inside
<1>6. /\ Queued' = Queued \cup {Len(q) + 1} /\ Len(q) + 1 \notin Queued
      /\ \A k \in Queued : JobHolds(k)
      /\ \A k \in Queued' : JobHolds(k)'
  BY <1>1, <1>2, JobHoldsFacts DEF IInv, Queued, Early
<1>7. \A p : OfJob(p)' <=> OfJob(p) \/ p \in PieceOf(block[c])
  BY <1>2, <1>6 DEF OfJob
<1>8. \A k \in Queued : q[k].ctx # block[c]
  BY <1>3, <1>6 DEF HeapInv
<1>9. \A p \in Pieces : p \in heap' <=> OfCall(p)' \/ OfJob(p)'
  BY <1>1, <1>3, <1>4, <1>5, <1>7 DEF HeapInv
<1>10. \A j, k \in Queued' : q'[j].ctx = q'[k].ctx => j = k
  BY <1>2, <1>3, <1>6, <1>8 DEF HeapInv
<1>11. \A d \in Clients : ~ Holds(d)'
  BY <1>4, <1>5
<1> QED BY <1>1, <1>3, <1>9, <1>10, <1>11 DEF HeapInv

LEMMA FreeTextHeap ==
  ASSUME IInv, FreeText, QueueInv'
  PROVE  HeapInv'
<1> DEFINE q == oled_print_queue
<1>1. /\ job = "free" /\ job' \in {"unlock_buffer", "return"} /\ q' = q
      /\ heap' = heap \ PieceOf(q[1].ctx)
      /\ print' = print /\ block' = block
  BY DEF FreeText, GoJob, FreePieces, JobBlock, clientVars
<1>2. HeapInv /\ q \in Seq(PrintJobs) /\ q # <<>> /\ Len(q) \in Nat
  BY <1>1, LenProperties DEF IInv, QueueInv, Idle
<1>3. 1 \in Queued /\ Queued' = Queued
  BY <1>1, <1>2, EmptySeq DEF Queued
<1>4. \A k \in Queued : JobHolds(k) /\ (JobHolds(k)' <=> k # 1)
  BY <1>1, <1>3, JobHoldsFacts DEF IInv, Early
<1>5. /\ \A p : OfCall(p)' <=> OfCall(p)
      /\ \A c \in Clients : Holds(c)' <=> Holds(c)
  BY <1>1 DEF OfCall, InHand, Holds
<1>6. ASSUME NEW k \in Queued, k # 1, NEW p \in PieceOf(q[k].ctx) PROVE p \notin PieceOf(q[1].ctx)
  BY <1>2, <1>3, <1>4, <1>6, PieceFacts DEF HeapInv
<1>7. ASSUME NEW c \in Clients, NEW p \in InHand(c) PROVE p \notin PieceOf(q[1].ctx)
  <2>1. Holds(c) /\ p \in PieceOf(block[c])
    BY <1>7, PieceFacts DEF InHand, Holds
  <2>2. q[1].ctx # block[c]
    BY <1>2, <1>3, <1>4, <2>1 DEF HeapInv
  <2> QED BY <2>1, <2>2, PieceFacts
<1>8. \A p : OfJob(p) <=> OfJob(p)' \/ p \in PieceOf(q[1].ctx)
  BY <1>1, <1>3, <1>4 DEF OfJob
<1>9. \A p : OfJob(p)' => p \notin PieceOf(q[1].ctx)
  BY <1>1, <1>3, <1>4, <1>6 DEF OfJob
<1>10. \A p : OfCall(p) => p \notin PieceOf(q[1].ctx)
  BY <1>7 DEF OfCall
<1> QED BY <1>1, <1>2, <1>3, <1>4, <1>5, <1>8, <1>9, <1>10 DEF HeapInv

LEMMA ReturnHeap ==
  ASSUME IInv, JobReturns, QueueInv'
  PROVE  HeapInv'
<1> DEFINE q == oled_print_queue
<1>1. /\ job = "return" /\ job' = "retire" /\ q # <<>>
      /\ q' = [q EXCEPT ![1].function = FALSE]
      /\ q \in Seq(PrintJobs) /\ HeapInv
      /\ heap' = heap /\ print' = print /\ block' = block
  BY RunStep DEF IInv, QueueInv, JobReturns, heapVars, clientVars
<1>2. Queued' = Queued /\ \A k \in Queued : q'[k].ctx = q[k].ctx
  BY <1>1, OldestRan DEF Queued
<1>3. \A k \in Queued : JobHolds(k)' <=> JobHolds(k)
  BY <1>1, <1>2, JobHoldsFacts DEF IInv, Early
<1>4. /\ \A p : OfCall(p)' <=> OfCall(p)
      /\ \A c \in Clients : Holds(c)' <=> Holds(c)
  BY <1>1 DEF OfCall, InHand, Holds
<1>5. \A p : OfJob(p)' <=> OfJob(p)
  BY <1>2, <1>3 DEF OfJob
<1> QED BY <1>1, <1>2, <1>3, <1>4, <1>5 DEF HeapInv

LEMMA RetireHeap ==
  ASSUME IInv, RetireText, QueueInv'
  PROVE  HeapInv'
<1> DEFINE q == oled_print_queue
<1>1. /\ job = "retire" /\ job' = "idle" /\ q # <<>> /\ q' = Tail(q)
      /\ q \in Seq(PrintJobs) /\ HeapInv
      /\ heap' = heap /\ print' = print /\ block' = block
  BY RetireStep DEF IInv, QueueInv, RetireText, heapVars, clientVars
<1>2. Len(q) \in Nat \ {0} /\ Len(q') = Len(q) - 1 /\ \A k \in 1 .. Len(q) - 1 : q'[k] = q[k + 1]
  BY <1>1, TailRest, EmptySeq
<1>3. /\ \A k \in Queued : JobHolds(k) <=> k # 1
      /\ \A k \in Queued' : JobHolds(k)'
  BY <1>1, JobHoldsFacts DEF IInv, Early
<1>4. /\ Queued = 1 .. Len(q) /\ Queued' = 1 .. Len(q) - 1
      /\ \A k \in Queued' : k + 1 \in Queued /\ k + 1 # 1 /\ q'[k] = q[k + 1]
      /\ \A k \in Queued \ {1} : k - 1 \in Queued' /\ q'[k - 1] = q[k]
  BY <1>2 DEF Queued
<1>5. /\ \A p : OfCall(p)' <=> OfCall(p)
      /\ \A c \in Clients : Holds(c)' <=> Holds(c)
  BY <1>1 DEF OfCall, InHand, Holds
<1>6. ASSUME NEW p PROVE OfJob(p)' <=> OfJob(p)
  <2>1. ASSUME OfJob(p)' PROVE OfJob(p)
    <3>1. PICK k \in Queued' : p \in PieceOf(q'[k].ctx)
      BY <2>1 DEF OfJob
    <3>2. k + 1 \in Queued /\ JobHolds(k + 1) /\ p \in PieceOf(q[k + 1].ctx)
      BY <1>3, <1>4, <3>1
    <3> QED BY <3>2 DEF OfJob
  <2>2. ASSUME OfJob(p) PROVE OfJob(p)'
    <3>1. PICK k \in Queued : JobHolds(k) /\ p \in PieceOf(q[k].ctx)
      BY <2>2 DEF OfJob
    <3>2. k - 1 \in Queued' /\ JobHolds(k - 1)' /\ p \in PieceOf(q'[k - 1].ctx)
      BY <1>3, <1>4, <3>1
    <3> QED BY <3>2 DEF OfJob
  <2> QED BY <2>1, <2>2
<1>7. ASSUME NEW j \in Queued', NEW k \in Queued', q'[j].ctx = q'[k].ctx PROVE j = k
  <2>1. /\ j + 1 \in Queued /\ k + 1 \in Queued /\ JobHolds(j + 1) /\ JobHolds(k + 1)
        /\ q[j + 1].ctx = q[k + 1].ctx
    BY <1>3, <1>4, <1>7
  <2>2. j + 1 = k + 1
    BY <1>1, <2>1 DEF HeapInv
  <2> QED BY <1>2, <1>4, <2>2
<1>8. ASSUME NEW k \in Queued', NEW c \in Clients, Holds(c)' PROVE q'[k].ctx # block'[c]
  <2>1. k + 1 \in Queued /\ JobHolds(k + 1) /\ q'[k] = q[k + 1] /\ Holds(c)
    BY <1>3, <1>4, <1>5, <1>8
  <2> QED BY <1>1, <2>1 DEF HeapInv
<1> QED BY <1>1, <1>3, <1>5, <1>6, <1>7, <1>8 DEF HeapInv

LEMMA HeapStep ==
  ASSUME IInv, [OledNext]_oledVars, UtilInv', BlockInv', QueueInv'
  PROVE  HeapInv'
<1>1. print \in [Clients -> PrintPC] /\ job \in JobPC
  BY DEF IInv, TypeOK
<1>2. ASSUME NEW c \in Clients, ClientStep(c) PROVE HeapInv'
  <2>1. CASE PrintCall(c) \/ Format(c) \/ FormatRest(c) \/ Lock(c) \/ NoText(c) \/ UnlockText(c)
             \/ Copy(c)
    <3>1. /\ heap' = heap /\ oled_print_queue' = oled_print_queue /\ job' = job /\ block' = block
          /\ print' = [print EXCEPT ![c] = print'[c]]
      BY <2>1 DEF PrintCall, Format, FormatRest, Writes, Lock, NoText, UnlockText, Copy, GoPrint,
                  heapVars, jobVars
    <3>2. /\ InHand(c)' = InHand(c)
          /\ Holds(c)' <=> Holds(c)
      BY <1>1, <2>1, <3>1 DEF PrintCall, Format, FormatRest, Lock, NoText, UnlockText, Copy, GoPrint,
                  InHand, Holds
    <3>3. \A d \in Clients \ {c} : InHand(d)' = InHand(d) /\ (Holds(d)' <=> Holds(d))
      BY <1>1, <3>1 DEF InHand, Holds
    <3> QED BY <3>1, <3>2, <3>3, HeapSame
  <2>2. CASE Alloc(c) \/ AllocText(c) \/ Enqueue(c)
    BY <2>2, AllocHeap, AllocTextHeap, EnqueueHeap
  <2>3. CASE AllocFails(c)
    <3>1. print' = [print EXCEPT ![c] = "panic"] /\ Inside(c) /\ FreePieces(block[c])
      BY <2>3 DEF AllocFails, Inside
    <3>2. /\ print'[c] = "panic" /\ ~ Holds(c)' /\ block' = [block EXCEPT ![c] = Nobody]
          /\ oled_print_queue' = oled_print_queue /\ job' = job
      BY <1>1, <2>3, <3>1 DEF AllocFails, Holds, jobVars
    <3> QED BY <3>1, <3>2, GiveUp
  <2>4. CASE RefuseText(c)
    <3>1. print' = [print EXCEPT ![c] = "unlock"] /\ Inside(c) /\ FreePieces(block[c])
      BY <2>4 DEF RefuseText, GoPrint, Inside
    <3>2. /\ print'[c] = "unlock" /\ ~ Holds(c)' /\ block' = [block EXCEPT ![c] = Nobody]
          /\ oled_print_queue' = oled_print_queue /\ job' = job
      BY <1>1, <2>4, <3>1 DEF RefuseText, Holds, jobVars
    <3> QED BY <3>1, <3>2, GiveUp
  <2> QED BY <1>2, <2>1, <2>2, <2>3, <2>4 DEF ClientStep, PrintOn
<1>3. CASE JobStep
  <2>1. /\ print' = print /\ block' = block
        /\ \A c \in Clients : InHand(c)' = InHand(c) /\ (Holds(c)' <=> Holds(c))
    BY <1>3, JobFrame DEF clientVars, InHand, Holds
  <2>2. CASE FreeText \/ JobReturns \/ RetireText
    BY <2>2, FreeTextHeap, ReturnHeap, RetireHeap
  <2>3. CASE PrintTurn \/ LookForText \/ FlushBusy \/ LockBuffer \/ SetCursor \/ Draw
    BY <2>1, <2>3, HeapSame DEF PrintTurn, LookForText, FlushBusy, LockBuffer, SetCursor, Draw,
       GoJob, heapVars, Early
  <2>4. CASE UnlockBuffer \/ LockScreen \/ TestPort \/ SetPort \/ SendPage \/ SendFails
             \/ UnlockScreen
    BY <2>1, <2>4, HeapSame DEF UnlockBuffer, LockScreen, TestPort, SetPort, SendPage, SendFails,
       UnlockScreen, GoJob, heapVars, Early
  <2> QED BY <1>3, <2>2, <2>3, <2>4 DEF JobStep, JobOn
<1>4. CASE Panic
  BY <1>4, HeapSame DEF Panic, heapVars, clientVars, jobVars, InHand, Holds
<1>5. CASE UNCHANGED oledVars
  BY <1>5, HeapSame DEF oledVars, heapVars, clientVars, jobVars, InHand, Holds
<1> QED BY <1>2, <1>3, <1>4, <1>5, Steps

-----------------------------------------------------------------------------
(***************************************************************************)
(* Whose text is where.                                                    *)
(***************************************************************************)
LEMMA TextSame ==
  ASSUME TextInv, oled_buffer' = oled_buffer, panicked' = panicked,
         \A c \in Clients : /\ alone'[c] => alone[c]
                            /\ alone'[c] /\ print'[c] = "format_rest" => print[c] = "format_rest"
                            /\ alone'[c] /\ print'[c] \in Formatted => print[c] \in Formatted,
         \A b \in Blocks : caller'[b] # Nobody => caller'[b] = caller[b] /\ content'[b] = content[b]
  PROVE  TextInv'
BY DEF TextInv

LEMMA TextStep ==
  ASSUME IInv, [OledNext]_oledVars
  PROVE  TextInv'
<1>1. /\ print \in [Clients -> PrintPC] /\ alone \in [Clients -> BOOLEAN] /\ TextInv
      /\ content \in [Blocks -> Text] /\ caller \in [Blocks -> Writers]
      /\ Clients \subseteq Writers /\ Nobody \notin Clients
  BY OledAssumption DEF IInv, TypeOK, Writers
<1>2. ASSUME NEW c \in Clients, ClientStep(c) PROVE TextInv'
  <2>1. CASE Format(c)
    <3>1. /\ print' = [print EXCEPT ![c] = "format_rest"]
          /\ oled_buffer' = [oled_buffer EXCEPT !["head"] = c]
          /\ alone' = [q \in Clients |-> q = c] /\ content' = content /\ caller' = caller
      BY <2>1 DEF Format, GoPrint, Writes, heapVars
    <3>2. ~ panicked /\ ~ panicked' /\ oled_buffer' \in Text /\ oled_buffer'.head = c
      BY <1>1, <1>2, <3>1, ClientFrame, TextFacts DEF TextInv
    <3>3. \A q \in Clients : alone'[q] => q = c /\ print'[q] = "format_rest"
      BY <1>1, <3>1
    <3> QED BY <1>1, <3>1, <3>2, <3>3 DEF TextInv, Formatted
  <2>2. CASE FormatRest(c)
    <3>1. /\ print[c] = "format_rest" /\ print' = [print EXCEPT ![c] = "lock"]
          /\ oled_buffer' = [oled_buffer EXCEPT !["tail"] = c]
          /\ alone' = [q \in Clients |-> q = c /\ alone[c]]
          /\ content' = content /\ caller' = caller
      BY <2>2 DEF FormatRest, GoPrint, Writes, heapVars
    <3>2. ~ panicked /\ ~ panicked' /\ oled_buffer' \in Text
      BY <1>1, <1>2, <3>1, ClientFrame, TextFacts DEF TextInv
    <3>3. alone[c] => oled_buffer' = Whole(c)
      BY <1>1, <3>1, <3>2, TextFacts DEF TextInv
    <3>4. \A q \in Clients : alone'[q] => q = c /\ alone[c] /\ print'[q] = "lock"
      BY <1>1, <3>1
    <3> QED BY <1>1, <3>1, <3>2, <3>3, <3>4 DEF TextInv, Formatted
  <2>3. CASE Copy(c)
    <3>1. /\ print[c] = "copy" /\ print' = [print EXCEPT ![c] = "enqueue"]
          /\ oled_buffer' = oled_buffer /\ alone' = [alone EXCEPT ![c] = FALSE]
          /\ content' = [content EXCEPT ![block[c]] = oled_buffer]
          /\ caller' = [caller EXCEPT ![block[c]] = IF alone[c] THEN c ELSE Nobody]
      BY <2>3 DEF Copy, GoPrint
    <3>2. ~ panicked /\ ~ panicked'
      BY <1>2, ClientFrame
    <3>3. alone[c] => oled_buffer = Whole(c)
      BY <1>1, <3>1, <3>2 DEF TextInv, Formatted
    <3>4. \A b \in Blocks : caller'[b] # Nobody => content'[b] = Whole(caller'[b])
      BY <1>1, <3>1, <3>3 DEF TextInv
    <3>5. \A q \in Clients : alone'[q] => alone[q] /\ print'[q] = print[q]
      BY <1>1, <3>1
    <3> QED BY <1>1, <3>1, <3>2, <3>4, <3>5 DEF TextInv
  <2>4. CASE PrintCall(c) \/ Lock(c) \/ NoText(c) \/ Alloc(c) \/ AllocText(c) \/ UnlockText(c)
             \/ Enqueue(c)
    <3>1. /\ oled_buffer' = oled_buffer /\ panicked' = panicked
          /\ content' = content /\ caller' = caller
      BY <1>2, <2>4, ClientFrame DEF PrintCall, Lock, NoText, Alloc, AllocText, UnlockText, Enqueue,
                                     heapVars
    <3>2. \A q \in Clients :
             /\ alone'[q] => alone[q]
             /\ alone'[q] /\ print'[q] = "format_rest" => print[q] = "format_rest"
             /\ alone'[q] /\ print'[q] \in Formatted => print[q] \in Formatted
      BY <1>1, <2>4 DEF PrintCall, Lock, NoText, Alloc, AllocText, UnlockText, Enqueue, GoPrint,
                        Formatted
    <3> QED BY <1>1, <3>1, <3>2, TextSame
  <2>5. CASE AllocFails(c) \/ RefuseText(c)
    <3>1. oled_buffer' = oled_buffer /\ panicked' = panicked /\ FreePieces(block[c])
      BY <1>2, <2>5, ClientFrame DEF AllocFails, RefuseText
    <3>2. \A q \in Clients :
             /\ alone'[q] => alone[q]
             /\ alone'[q] /\ print'[q] = "format_rest" => print[q] = "format_rest"
             /\ alone'[q] /\ print'[q] \in Formatted => print[q] \in Formatted
      BY <1>1, <2>5 DEF AllocFails, RefuseText, GoPrint, Formatted
    <3> QED BY <1>1, <3>1, <3>2, TextSame DEF FreePieces
  <2> QED BY <1>2, <2>1, <2>2, <2>3, <2>4, <2>5 DEF ClientStep, PrintOn
<1>3. CASE JobStep
  <2>1. oled_buffer' = oled_buffer /\ panicked' = panicked /\ alone' = alone /\ print' = print
    BY <1>3, JobFrame DEF clientVars
  <2>2. \/ content' = content /\ caller' = caller
        \/ FreePieces(JobBlock)
    BY <1>3 DEF JobStep, JobOn, PrintTurn, LookForText, FlushBusy, LockBuffer, SetCursor, Draw,
       FreeText, UnlockBuffer, LockScreen, TestPort, SetPort, SendPage, SendFails, UnlockScreen,
       JobReturns, RetireText, heapVars
  <2> QED BY <1>1, <2>1, <2>2, TextSame DEF FreePieces
<1>4. CASE ~ panicked /\ Panic
  BY <1>1, <1>4 DEF Panic, heapVars, TextInv
<1>5. CASE UNCHANGED oledVars
  BY <1>1, <1>5 DEF oledVars, clientVars, heapVars, TextInv
<1> QED BY <1>2, <1>3, <1>4, <1>5, Steps

-----------------------------------------------------------------------------
(***************************************************************************)
(* The locks of the display, and what the job has drawn and sent.          *)
(***************************************************************************)
LEMMA LockStep ==
  ASSUME IInv, [OledNext]_oledVars
  PROVE  LockInv'
<1>1. job \in JobPC /\ page \in 0 .. Pages /\ LockInv /\ Pages \in Nat \ {0}
  BY OledAssumption DEF IInv, TypeOK
<1>2. ASSUME NEW c \in Clients, ClientStep(c) PROVE LockInv'
  BY <1>1, <1>2, ClientFrame DEF jobVars, LockInv
<1>3. CASE JobStep
  <2>1. ~ panicked /\ panicked' = panicked
    BY <1>3, JobFrame
  <2> USE <1>1, <2>1 DEF LockInv, Drawing, Sending, Sent, GoJob
  <2>2. CASE PrintTurn \/ LookForText \/ SetCursor \/ Draw \/ FreeText \/ UnlockBuffer
    BY <2>2 DEF PrintTurn, LookForText, SetCursor, Draw, FreeText, UnlockBuffer, oledLocks
  <2>3. CASE FlushBusy \/ LockBuffer \/ LockScreen
    BY <2>3 DEF FlushBusy, LockBuffer, LockScreen, oledLocks
  <2>4. CASE TestPort \/ SetPort
    BY <2>4 DEF TestPort, SetPort, oledLocks
  <2>5. CASE SendPage \/ SendFails
    BY <2>5 DEF SendPage, SendFails
  <2>6. CASE UnlockScreen \/ JobReturns \/ RetireText
    BY <2>6 DEF UnlockScreen, JobReturns, RetireText, oledLocks, jobVars
  <2> QED BY <1>3, <2>2, <2>3, <2>4, <2>5, <2>6 DEF JobStep, JobOn
<1>4. CASE ~ panicked /\ Panic
  BY <1>1, <1>4 DEF Panic, jobVars, LockInv
<1>5. CASE UNCHANGED oledVars
  BY <1>1, <1>5 DEF oledVars, oledLocks, jobVars, LockInv
<1> QED BY <1>2, <1>3, <1>4, <1>5, Steps

LEMMA ScreenStep ==
  ASSUME IInv, [OledNext]_oledVars
  PROVE  ScreenInv'
<1>1. job \in JobPC /\ LockInv /\ ScreenInv /\ Whole(Nobody) \in Text
  BY TextFacts DEF IInv, TypeOK, Writers
<1>2. ASSUME NEW c \in Clients, ClientStep(c) PROVE ScreenInv'
  BY <1>1, <1>2, ClientFrame DEF jobVars, ScreenInv
<1>3. CASE JobStep
  <2>1. ~ panicked /\ panicked' = panicked
    BY <1>3, JobFrame
  <2>2. CASE Draw
    <3>1. job \notin Idle /\ 1 \in Queued /\ JobBlock \in Blocks
      <4>1. job \notin Idle /\ oled_print_queue # <<>> /\ oled_print_queue \in Seq(PrintJobs)
        BY <2>2 DEF IInv, QueueInv, Idle, Draw, GoJob
      <4>2. 1 \in Queued
        BY <4>1, EmptySeq DEF Queued
      <4>3. oled_print_queue[1] \in PrintJobs
        BY <4>1, <4>2, ElementOfSeq DEF Queued
      <4> QED BY <4>1, <4>2, <4>3 DEF JobBlock, PrintJobs
    <3>2. content[JobBlock] \in Text
          /\ (caller[JobBlock] # Nobody => content[JobBlock] = Whole(caller[JobBlock]))
      BY <3>1 DEF IInv, TypeOK, TextInv
    <3> QED BY <1>1, <2>1, <2>2, <3>2 DEF Draw, GoJob, ScreenInv, Sent
  <2>3. CASE JobReturns
    BY <1>1, <2>1, <2>3 DEF JobReturns, GoJob, ScreenInv, Sent
  <2>4. CASE SendPage
    BY <1>1, <2>1, <2>4 DEF SendPage, GoJob, ScreenInv, LockInv, Sent
  <2> USE <1>1, <2>1 DEF ScreenInv, LockInv, Drawing, Sending, Sent, GoJob, shownVars
  <2>5. CASE PrintTurn \/ LookForText \/ FlushBusy \/ LockBuffer \/ SetCursor
    BY <2>5 DEF PrintTurn, LookForText, FlushBusy, LockBuffer, SetCursor
  <2>6. CASE FreeText \/ UnlockBuffer \/ LockScreen
    BY <2>6 DEF FreeText, UnlockBuffer, LockScreen
  <2>7. CASE TestPort \/ SetPort \/ SendFails \/ UnlockScreen \/ RetireText
    BY <2>7 DEF TestPort, SetPort, SendFails, UnlockScreen, RetireText
  <2> QED BY <1>3, <2>2, <2>3, <2>4, <2>5, <2>6, <2>7 DEF JobStep, JobOn
<1>4. CASE ~ panicked /\ Panic
  BY <1>1, <1>4 DEF Panic, jobVars, ScreenInv, LockInv
<1>5. CASE UNCHANGED oledVars
  BY <1>1, <1>5 DEF oledVars, jobVars, shownVars, ScreenInv
<1> QED BY <1>2, <1>3, <1>4, <1>5, Steps

-----------------------------------------------------------------------------
(***************************************************************************)
(* The types.                                                              *)
(***************************************************************************)
ClientTypes ==
  /\ oled_buffer \in Text \cup {PanicText}
  /\ oled_util_lock \in BOOLEAN
  /\ print \in [Clients -> PrintPC]
  /\ alone \in [Clients -> BOOLEAN]
  /\ content \in [Blocks -> Text] /\ caller \in [Blocks -> Writers]
  /\ placed \in BOOLEAN
JobTypes ==
  /\ oled_buffer_lock \in BOOLEAN /\ update_screen_lock \in BOOLEAN /\ i2c1_lock \in BOOLEAN
  /\ job \in JobPC /\ status \in Statuses /\ page \in 0 .. Pages
  /\ author \in Writers
  /\ screen \in Text \cup {PanicText} /\ panel \in Text \cup {PanicText}
  /\ panicked \in BOOLEAN

LEMMA TypeParts ==
  /\ TypeOK => ClientTypes /\ JobTypes
  /\ ClientTypes' /\ JobTypes' /\ block' \in [Clients -> Blocks \cup {Nobody}] /\ HeapInv' /\ QueueInv'
       => TypeOK'
BY DEF TypeOK, ClientTypes, JobTypes, HeapInv, QueueInv

LEMMA FreeTypes ==
  ASSUME ClientTypes, NEW b, FreePieces(b)
  PROVE  content' \in [Blocks -> Text] /\ caller' \in [Blocks -> Writers]
BY TextFacts DEF ClientTypes, FreePieces, Writers

LEMMA ClientTypeStep ==
  ASSUME IInv, [OledNext]_oledVars
  PROVE  ClientTypes'
<1>1. ClientTypes /\ Clients \subseteq Writers /\ Nobody \in Writers
  BY TypeParts DEF IInv, Writers
<1>2. ASSUME NEW c \in Clients, ClientStep(c) PROVE ClientTypes'
  <2>1. c \in Writers /\ oled_buffer \in Text /\ placed \in BOOLEAN /\ print \in [Clients -> PrintPC]
    BY <1>1, <1>2 DEF ClientStep, IInv, TextInv, ClientTypes
  <2>2. CASE PrintCall(c)
    BY <1>1, <2>1, <2>2 DEF PrintCall, GoPrint, PrintPC, oledLocks, heapVars, ClientTypes
  <2>3. CASE Format(c) \/ FormatRest(c)
    <3>1. \/ oled_buffer' = [oled_buffer EXCEPT !["head"] = c]
          \/ oled_buffer' = [oled_buffer EXCEPT !["tail"] = c]
      BY <2>3 DEF Format, FormatRest, Writes
    <3>2. oled_buffer' \in Text
      BY <2>1, <3>1, TextFacts
    <3> QED BY <1>1, <2>1, <2>3, <3>2 DEF Format, FormatRest, Writes, GoPrint, PrintPC, oledLocks,
                                         heapVars, shownVars, ClientTypes
  <2>4. CASE Lock(c) \/ NoText(c) \/ UnlockText(c)
    BY <1>1, <2>1, <2>4 DEF Lock, NoText, UnlockText, GoPrint, PrintPC, heapVars, shownVars, ClientTypes
  <2>5. CASE Alloc(c) \/ AllocText(c) \/ Enqueue(c)
    BY <1>1, <2>1, <2>5 DEF Alloc, AllocText, Enqueue, GoPrint, PrintPC, oledLocks, heapVars, shownVars,
                            ClientTypes
  <2>6. CASE Copy(c)
    BY <1>1, <2>1, <2>6 DEF Copy, GoPrint, PrintPC, oledLocks, shownVars, ClientTypes
  <2>7. CASE AllocFails(c) \/ RefuseText(c)
    <3>1. content' \in [Blocks -> Text] /\ caller' \in [Blocks -> Writers]
      BY <1>1, <2>7, FreeTypes DEF AllocFails, RefuseText
    <3> QED BY <1>1, <2>1, <2>7, <3>1 DEF AllocFails, RefuseText, GoPrint, PrintPC, oledLocks,
                                         shownVars, ClientTypes
  <2> QED BY <1>2, <2>2, <2>3, <2>4, <2>5, <2>6, <2>7 DEF ClientStep, PrintOn
<1>3. CASE JobStep
  <2>1. oled_buffer' = oled_buffer /\ oled_util_lock' = oled_util_lock /\ alone' = alone /\ print' = print
    BY <1>3, JobFrame DEF clientVars
  <2>2. /\ (content' = content /\ caller' = caller) \/ FreePieces(JobBlock)
        /\ placed' = placed \/ placed' = TRUE \/ placed' = FALSE
    BY <1>3 DEF JobStep, JobOn, PrintTurn, LookForText, FlushBusy, LockBuffer, SetCursor, Draw,
       FreeText, UnlockBuffer, LockScreen, TestPort, SetPort, SendPage, SendFails, UnlockScreen,
       JobReturns, RetireText, heapVars, shownVars
  <2>3. content' \in [Blocks -> Text] /\ caller' \in [Blocks -> Writers]
    BY <1>1, <2>2, FreeTypes DEF ClientTypes
  <2> QED BY <1>1, <2>1, <2>2, <2>3 DEF ClientTypes
<1>4. CASE Panic
  BY <1>1, <1>4 DEF Panic, clientVars, heapVars, ClientTypes
<1>5. CASE UNCHANGED oledVars
  BY <1>1, <1>5 DEF oledVars, oledLocks, clientVars, heapVars, shownVars, ClientTypes
<1> QED BY <1>2, <1>3, <1>4, <1>5, Steps

LEMMA JobTypeStep ==
  ASSUME IInv, [OledNext]_oledVars, ScreenInv', LockInv'
  PROVE  JobTypes'
<1>1. JobTypes /\ LockInv /\ Pages \in Nat \ {0} /\ Nobody \in Writers
  BY TypeParts, OledAssumption DEF IInv, Writers
<1>2. ASSUME NEW c \in Clients, ClientStep(c) PROVE JobTypes'
  BY <1>1, <1>2, ClientFrame DEF jobVars, JobTypes
<1>3. CASE JobStep
  <2>1. ~ panicked /\ panicked' = panicked
    BY <1>3, JobFrame
  <2>2. screen' \in Text /\ panel' \in Text /\ status' \in Statuses
    BY <2>1 DEF ScreenInv, LockInv, Statuses
  <2> USE <1>1, <2>1, <2>2 DEF JobTypes, GoJob, JobPC
  <2>3. CASE PrintTurn \/ LookForText \/ FlushBusy \/ LockBuffer \/ SetCursor \/ FreeText \/ UnlockBuffer
    BY <2>3 DEF PrintTurn, LookForText, FlushBusy, LockBuffer, SetCursor, FreeText, UnlockBuffer,
       oledLocks, shownVars
  <2>4. CASE Draw
    <3>1. caller[JobBlock] \in Writers
      <4>1. oled_print_queue # <<>> /\ oled_print_queue \in Seq(PrintJobs)
        BY <2>4 DEF IInv, QueueInv, Idle, Draw
      <4>2. 1 \in 1 .. Len(oled_print_queue)
        BY <4>1, EmptySeq
      <4>3. oled_print_queue[1] \in PrintJobs
        BY <4>1, <4>2, ElementOfSeq
      <4> QED BY <4>3 DEF JobBlock, PrintJobs, IInv, TypeOK
    <3> QED BY <2>4, <3>1 DEF Draw, oledLocks
  <2>5. CASE LockScreen \/ TestPort \/ SetPort
    <3>1. page' \in 0 .. Pages
      BY <2>5 DEF LockScreen, TestPort, SetPort
    <3> QED BY <2>5, <3>1 DEF LockScreen, TestPort, SetPort, oledLocks, shownVars
  <2>6. CASE SendPage \/ SendFails
    <3>1. page \in 1 .. Pages
      BY <2>6 DEF LockInv, Sending, Sent, SendPage, SendFails
    <3>2. page' \in 0 .. Pages
      BY <2>6, <3>1 DEF SendPage, SendFails
    <3> QED BY <2>6, <3>2 DEF SendPage, SendFails, shownVars
  <2>7. CASE UnlockScreen \/ JobReturns \/ RetireText
    <3>1. page' \in 0 .. Pages
      BY <2>7 DEF UnlockScreen, JobReturns, RetireText
    <3> QED BY <2>7, <3>1 DEF UnlockScreen, JobReturns, RetireText, oledLocks, shownVars
  <2> QED BY <1>3, <2>3, <2>4, <2>5, <2>6, <2>7 DEF JobStep, JobOn
<1>4. CASE Panic
  BY <1>1, <1>4 DEF Panic, jobVars, JobTypes
<1>5. CASE UNCHANGED oledVars
  BY <1>1, <1>5 DEF oledVars, oledLocks, jobVars, shownVars, JobTypes
<1> QED BY <1>2, <1>3, <1>4, <1>5, Steps

-----------------------------------------------------------------------------
(***************************************************************************)
(* The inductive invariant holds.                                          *)
(***************************************************************************)
LEMMA InitInv == OledInit => IInv
<1> SUFFICES ASSUME OledInit PROVE IInv
  OBVIOUS
<1>1. Whole(Nobody) \in Text /\ Nobody \in Writers
  BY TextFacts DEF Writers
<1>2. Len(oled_print_queue) = 0 /\ oled_print_queue \in Seq(PrintJobs) /\ Queued = {}
  BY EmptySeq DEF OledInit, Queued
<1>3. TypeOK
  <2>1. Pages \in Nat \ {0} /\ PrintQueueSize \in Nat \ {0}
    BY OledAssumption
  <2>2. page \in 0 .. Pages /\ Len(oled_print_queue) <= PrintQueueSize
    BY <1>2, <2>1 DEF OledInit
  <2> QED BY <1>1, <2>2 DEF OledInit, TypeOK, PrintPC, JobPC, Statuses
<1>4. UtilInv /\ BlockInv
  BY DEF OledInit, UtilInv, Inside, BlockInv, Holds
<1>5. QueueInv
  BY <1>2, OledAssumption DEF OledInit, QueueInv, Idle
<1>6. HeapInv
  BY <1>2 DEF OledInit, HeapInv, OfCall, OfJob, InHand
<1>7. TextInv /\ LockInv /\ ScreenInv
  BY <1>1 DEF OledInit, TextInv, LockInv, ScreenInv, Drawing, Sending, Sent
<1> QED BY <1>3, <1>4, <1>5, <1>6, <1>7 DEF IInv

LEMMA StepInv == IInv /\ [OledNext]_oledVars => IInv'
<1> SUFFICES ASSUME IInv, [OledNext]_oledVars PROVE IInv'
  OBVIOUS
<1>1. UtilInv' /\ BlockInv' /\ QueueInv' /\ block' \in [Clients -> Blocks \cup {Nobody}]
  BY UtilStep, BlockStep, QueueStep
<1>2. HeapInv'
  BY <1>1, HeapStep
<1>3. TextInv' /\ LockInv' /\ ScreenInv'
  BY TextStep, LockStep, ScreenStep
<1>4. TypeOK'
  BY <1>1, <1>2, <1>3, ClientTypeStep, JobTypeStep, TypeParts
<1> QED BY <1>1, <1>2, <1>3, <1>4 DEF IInv

LEMMA Invariance == OledSpec => []IInv
BY InitInv, StepInv, PTL DEF OledSpec

(***************************************************************************)
(* Every variable keeps its type: no queue, page or heap overruns.         *)
(***************************************************************************)
THEOREM TypeCorrect == OledSpec => []TypeOK
<1>1. IInv => TypeOK
  BY DEF IInv
<1> QED BY <1>1, Invariance, PTL

(***************************************************************************)
(* The heap holds exactly what a call under way or a job not yet freed     *)
(* owns, each piece with one owner: nothing leaks and nothing is freed     *)
(* twice, whatever call is refused, and whichever malloc finds no room.    *)
(***************************************************************************)
THEOREM HeapOwnership == OledSpec => []HeapOwned
<1>1. IInv => HeapOwned
  <2> SUFFICES ASSUME IInv PROVE HeapOwned
    OBVIOUS
  <2> DEFINE calls == UNION {InHand(c) : c \in Clients}
             jobs == UNION {PieceOf(oled_print_queue[k].ctx) :
                              k \in {j \in 1 .. Len(oled_print_queue) : JobHolds(j)}}
  <2>1. HeapInv /\ QueueInv /\ BlockInv
    BY DEF IInv
  <2>2. \A p : (p \in calls <=> OfCall(p)) /\ (p \in jobs <=> OfJob(p))
    BY DEF OfCall, OfJob, Queued
  <2>3. ASSUME NEW p, OfCall(p) PROVE p \in Pieces
    <3>1. PICK c \in Clients : p \in InHand(c)
      BY <2>3 DEF OfCall
    <3>2. Holds(c) /\ p \in PieceOf(block[c])
      BY <3>1, PieceFacts DEF InHand, Holds
    <3> QED BY <2>1, <3>2, PieceFacts DEF BlockInv
  <2>4. ASSUME NEW p, OfJob(p) PROVE p \in Pieces
    <3>1. PICK k \in Queued : p \in PieceOf(oled_print_queue[k].ctx)
      BY <2>4 DEF OfJob
    <3>2. oled_print_queue[k] \in PrintJobs
      BY <2>1, ElementOfSeq DEF QueueInv, Queued
    <3> QED BY <3>1, <3>2, PieceFacts DEF PrintJobs
  <2>5. heap = calls \cup jobs
    <3> HIDE DEF calls, jobs
    <3> QED BY <2>1, <2>2, <2>3, <2>4 DEF HeapInv
  <2>6. \A j, k \in 1 .. Len(oled_print_queue) :
          JobHolds(j) /\ JobHolds(k) /\ oled_print_queue[j].ctx = oled_print_queue[k].ctx => j = k
    BY <2>1 DEF HeapInv, Queued
  <2> QED BY <2>5, <2>6 DEF HeapOwned
<1> QED BY <1>1, Invariance, PTL

(***************************************************************************)
(* What is printed is what is shown, a job fails only when the bus does,   *)
(* and a panic is shown: with any number of tasks that print and any       *)
(* priorities.                                                             *)
(***************************************************************************)
THEOREM Shown == OledSpec => []ShownAsPrinted
<1>1. IInv => ShownAsPrinted
  BY DEF IInv, LockInv, ScreenInv, ShownAsPrinted, Sent
<1> QED BY <1>1, Invariance, PTL
=============================================================================
