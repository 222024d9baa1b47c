----------------------------- MODULE OledPrint ------------------------------
(***************************************************************************)
(* Printing on the display: system/peripheral/ssd1306/oled_utils.c with    *)
(* the screen functions of ssd1306.c, the bus of hal_i2c.c and the panics  *)
(* of interrupt_panic.c.                                                   *)
(*                                                                         *)
(* A client formats its text into the one oled_buffer, takes               *)
(* oled_util_lock, copies the text to the heap and adds a job.  The queue  *)
(* task, in the job, draws the text into the screen buffer, frees the heap *)
(* and sends the buffer over I2C page by page.  A panic takes over all the *)
(* locks and the screen and halts.                                         *)
(*                                                                         *)
(* A text is known by the clients that wrote its two halves.  Pixels,      *)
(* fonts and the positions on the screen are left out, but whether the     *)
(* cursor stays where the job has set it is kept.                          *)
(***************************************************************************)
EXTENDS Naturals, Sequences, FiniteSets

CONSTANTS Clients,         \* tasks that call oled_cursor_printf
          CursorMovers,    \* those that call ssd1306_SetCursor first (main.c:188)
          Blocks,          \* names for the pairs of allocations of a call
          HeapSize,        \* how many allocations the heap has room for
          PrintQueueSize,  \* OLED_PRINTIF_QUEUE_SIZE
          Pages,           \* writes to the bus for one screen
          QueueTask,       \* the task that calls _run_oled_process
          Prio,            \* the priorities of the tasks (instance_prio.h)
          Nobody           \* the text of an empty buffer, the block of no call

ASSUME OledAssumption == /\ CursorMovers \subseteq Clients
                         /\ Nobody \notin Clients \cup Blocks
                         /\ PrintQueueSize \in Nat \ {0}
                         /\ HeapSize \in Nat /\ Pages \in Nat \ {0}
                         /\ QueueTask \notin Clients
                         /\ \A t \in Clients \cup {QueueTask} : Prio[t] \in Nat
                         /\ IsFiniteSet(Blocks) /\ 2 * Cardinality(Blocks) > HeapSize

VARIABLES
  oled_buffer,            \* the text formatted last
  oled_util_lock, oled_buffer_lock, update_screen_lock, i2c1_lock,
  print,                  \* where each client is inside oled_cursor_printf
  block,                  \* the allocations in its hands
  alone,                  \* history: no other call has formatted since it did,
                          \* until the text is copied or given up
  heap,                   \* the pieces allocated
  content,                \* the text copied to each block
  caller,                 \* history: who each block was allocated for, or
                          \* Nobody once another call has disturbed its text
  oled_print_queue,
  job,                    \* where the queue task is inside a display job
  status,                 \* what the job is going to return
  page,                   \* the page being sent
  placed,                 \* the cursor is where the job has moved it
  screen,                 \* SSD1306_Buffer: the text the job has drawn
  author,                 \* history: who called for it, or Nobody when it was
                          \* disturbed before it was drawn, or the cursor moved
  panel,                  \* what the display shows
  panicked

oledLocks == <<oled_util_lock, oled_buffer_lock, update_screen_lock, i2c1_lock>>
clientVars == <<print, block, alone>>
heapVars == <<heap, content, caller>>
jobVars == <<job, status, page>>
shownVars == <<placed, screen, author, panel>>
oledVars == <<oled_buffer, oledLocks, clientVars, heapVars, oled_print_queue,
              jobVars, shownVars, panicked>>

Writers == Clients \cup {Nobody}
Text == [head : Writers, tail : Writers]
Whole(c) == [head |-> c, tail |-> c]
PanicText == Whole("panic")
Pieces == {"struct", "text"} \X Blocks
PieceOf(b) == {"struct", "text"} \X {b}
PrintJob(b) == [ctx |-> b, function |-> TRUE, destroyer |-> FALSE]
PrintQueue == INSTANCE QueueService WITH
                Jobs <- {PrintJob(b) : b \in Blocks}, Capacity <- PrintQueueSize,
                mode <- "open", pending <- oled_print_queue
JobBlock == oled_print_queue[1].ctx

PrintPC == {"idle", "format", "format_rest", "lock", "alloc", "alloc_text",
            "copy", "enqueue", "unlock", "panic"}
JobPC == {"idle", "look", "flush", "buffer", "cursor", "draw", "free", "unlock_buffer",
          "screen", "page", "i2c_set", "i2c_send", "unlock_screen", "return", "retire"}
Statuses == {"ok", "FLUSH_BUSY", "BUFFER_BUSY", "SCREEN_BUSY", "PORT_BUSY", "bus"}

OledInit ==
  /\ oled_buffer = Whole(Nobody)
  /\ oled_util_lock = FALSE /\ oled_buffer_lock = FALSE
  /\ update_screen_lock = FALSE /\ i2c1_lock = FALSE
  /\ print = [c \in Clients |-> "idle"]
  /\ block = [c \in Clients |-> Nobody]
  /\ alone = [c \in Clients |-> FALSE]
  /\ heap = {}
  /\ content = [b \in Blocks |-> Whole(Nobody)]
  /\ caller = [b \in Blocks |-> Nobody]
  /\ oled_print_queue = <<>>
  /\ job = "idle" /\ status = "ok" /\ page = 0
  /\ placed = FALSE
  /\ screen = Whole(Nobody) /\ author = Nobody /\ panel = Whole(Nobody)
  /\ panicked = FALSE

GoPrint(c, from, to) == print[c] = from /\ print' = [print EXCEPT ![c] = to]
GoJob(from, to) == job = from /\ job' = to

-----------------------------------------------------------------------------
(***************************************************************************)
(* oled_cursor_printf                                                      *)
(***************************************************************************)
PrintCall(c) ==
  /\ GoPrint(c, "idle", "format")
  /\ placed' = (placed /\ c \notin CursorMovers)
  /\ UNCHANGED <<oled_buffer, oledLocks, block, alone, heapVars, oled_print_queue,
                 jobVars, screen, author, panel, panicked>>

\* vsnprintf into oled_buffer, which a preemption cuts in two.  From then on
\* the text of any other call under way is not safe.
Writes(c, half) ==
  /\ oled_buffer' = [oled_buffer EXCEPT ![half] = c]
  /\ UNCHANGED <<oledLocks, block, heapVars, oled_print_queue, jobVars, shownVars, panicked>>

Format(c) == /\ GoPrint(c, "format", "format_rest")
             /\ Writes(c, "head")
             /\ alone' = [q \in Clients |-> q = c]

FormatRest(c) == /\ GoPrint(c, "format_rest", "lock")
                 /\ Writes(c, "tail")
                 /\ alone' = [q \in Clients |-> q = c /\ alone[c]]

LockWaits(c) ==
  /\ GoPrint(c, "lock", "alloc")
  /\ ~ oled_util_lock
  /\ oled_util_lock' = TRUE
  /\ UNCHANGED <<oled_buffer, oled_buffer_lock, update_screen_lock, i2c1_lock, block,
                 alone, heapVars, oled_print_queue, jobVars, shownVars, panicked>>

\* A lock that stays taken for 5 ms ends the call.
Lock(c) ==
  /\ GoPrint(c, "lock", IF oled_util_lock THEN "idle" ELSE "alloc")
  /\ oled_util_lock' = TRUE
  /\ alone' = [alone EXCEPT ![c] = alone[c] /\ ~ oled_util_lock]
  /\ UNCHANGED <<oled_buffer, oled_buffer_lock, update_screen_lock, i2c1_lock, block,
                 heapVars, oled_print_queue, jobVars, shownVars, panicked>>

\* An empty text ends the call too, with the lock free.
NoText(c) ==
  /\ GoPrint(c, "alloc", "idle")
  /\ oled_util_lock' = FALSE
  /\ alone' = [alone EXCEPT ![c] = FALSE]
  /\ UNCHANGED <<oled_buffer, oled_buffer_lock, update_screen_lock, i2c1_lock, block,
                 heapVars, oled_print_queue, jobVars, shownVars, panicked>>

\* What a freed piece holds is not looked at again.
FreePieces(b) == /\ heap' = heap \ PieceOf(b)
                 /\ content' = [q \in Blocks |-> IF q = b THEN Whole(Nobody) ELSE content[q]]
                 /\ caller' = [q \in Blocks |-> IF q = b THEN Nobody ELSE caller[q]]
HasRoom == Cardinality(heap) < HeapSize

Alloc(c) ==
  /\ GoPrint(c, "alloc", "alloc_text")
  /\ HasRoom
  /\ LET b == CHOOSE b \in Blocks : PieceOf(b) \cap heap = {}
     IN  /\ heap' = heap \cup {<<"struct", b>>}
         /\ block' = [block EXCEPT ![c] = b]
  /\ UNCHANGED <<oled_buffer, oledLocks, alone, content, caller, oled_print_queue,
                 jobVars, shownVars, panicked>>

AllocText(c) ==
  /\ GoPrint(c, "alloc_text", "copy")
  /\ HasRoom
  /\ heap' = heap \cup {<<"text", block[c]>>}
  /\ UNCHANGED <<oled_buffer, oledLocks, block, alone, content, caller,
                 oled_print_queue, jobVars, shownVars, panicked>>

\* No memory: what was allocated is freed, the lock too, and app_panic called.
AllocFails(c) ==
  /\ print[c] \in {"alloc", "alloc_text"}
  /\ ~ HasRoom
  /\ print' = [print EXCEPT ![c] = "panic"]
  /\ FreePieces(block[c])
  /\ block' = [block EXCEPT ![c] = Nobody]
  /\ oled_util_lock' = FALSE
  /\ alone' = [alone EXCEPT ![c] = FALSE]
  /\ UNCHANGED <<oled_buffer, oled_buffer_lock, update_screen_lock, i2c1_lock, oled_print_queue, jobVars, shownVars, panicked>>

Copy(c) ==
  /\ GoPrint(c, "copy", "enqueue")
  /\ content' = [content EXCEPT ![block[c]] = oled_buffer]
  /\ caller' = [caller EXCEPT ![block[c]] = IF alone[c] THEN c ELSE Nobody]
  /\ alone' = [alone EXCEPT ![c] = FALSE]
  /\ UNCHANGED <<oled_buffer, oledLocks, block, heap, oled_print_queue,
                 jobVars, shownVars, panicked>>

Enqueue(c) ==
  /\ GoPrint(c, "enqueue", "unlock")
  /\ job = "idle"
  /\ PrintQueue!Put(PrintJob(block[c]))
  /\ block' = [block EXCEPT ![c] = Nobody]
  /\ UNCHANGED <<oled_buffer, oledLocks, alone, heapVars, jobVars, shownVars, panicked>>

RefuseTextLeak(c) ==
  /\ GoPrint(c, "enqueue", "unlock")
  /\ job # "idle" \/ Len(oled_print_queue) = PrintQueueSize
  /\ block' = [block EXCEPT ![c] = Nobody]
  /\ UNCHANGED <<oled_buffer, oledLocks, alone, heapVars, oled_print_queue, jobVars,
                 shownVars, panicked>>

\* The queue is full, or its lock is held by the queue task, in a job.
RefuseText(c) ==
  /\ GoPrint(c, "enqueue", "unlock")
  /\ job # "idle" \/ Len(oled_print_queue) = PrintQueueSize
  /\ FreePieces(block[c])
  /\ block' = [block EXCEPT ![c] = Nobody]
  /\ UNCHANGED <<oled_buffer, oledLocks, alone, oled_print_queue, jobVars, shownVars, panicked>>

UnlockText(c) ==
  /\ GoPrint(c, "unlock", "idle")
  /\ oled_util_lock' = FALSE
  /\ UNCHANGED <<oled_buffer, oled_buffer_lock, update_screen_lock, i2c1_lock, block,
                 alone, heapVars, oled_print_queue, jobVars, shownVars, panicked>>

PrintOn(c) == \/ Format(c) \/ FormatRest(c) \/ Lock(c) \/ NoText(c) \/ Alloc(c)
              \/ AllocText(c) \/ AllocFails(c) \/ Copy(c) \/ Enqueue(c)
              \/ RefuseText(c) \/ UnlockText(c)

-----------------------------------------------------------------------------
(***************************************************************************)
(* _run_oled_process: one job at most, under the lock of the queue.  The   *)
(* two waits, for the end of an update and for the screen buffer, end the  *)
(* job with an error when the lock stays taken.                            *)
(***************************************************************************)
PrintTurn == /\ GoJob("idle", "look")
             /\ UNCHANGED <<oled_buffer, oledLocks, clientVars, heapVars, oled_print_queue,
                            status, page, shownVars, panicked>>

LookForText ==
  /\ GoJob("look", IF oled_print_queue = <<>> THEN "idle" ELSE "flush")
  /\ UNCHANGED <<oled_buffer, oledLocks, clientVars, heapVars, oled_print_queue,
                 status, page, shownVars, panicked>>

FlushBusy ==
  /\ GoJob("flush", IF update_screen_lock THEN "free" ELSE "buffer")
  /\ status' = IF update_screen_lock THEN "FLUSH_BUSY" ELSE "ok"
  /\ UNCHANGED <<oled_buffer, oledLocks, clientVars, heapVars, oled_print_queue,
                 page, shownVars, panicked>>

LockBuffer ==
  /\ GoJob("buffer", IF oled_buffer_lock THEN "free" ELSE "cursor")
  /\ status' = IF oled_buffer_lock THEN "BUFFER_BUSY" ELSE "ok"
  /\ oled_buffer_lock' = TRUE
  /\ UNCHANGED <<oled_buffer, oled_util_lock, update_screen_lock, i2c1_lock, clientVars,
                 heapVars, oled_print_queue, page, shownVars, panicked>>

SetCursor ==
  /\ GoJob("cursor", "draw")
  /\ placed' = TRUE
  /\ UNCHANGED <<oled_buffer, oledLocks, clientVars, heapVars, oled_print_queue,
                 status, page, screen, author, panel, panicked>>

\* The text goes where the cursor is: with the cursor moved, to no one's place.
Draw ==
  /\ GoJob("draw", "free")
  /\ screen' = IF placed THEN content[JobBlock] ELSE Whole(Nobody)
  /\ author' = IF placed THEN caller[JobBlock] ELSE Nobody
  /\ placed' = FALSE
  /\ UNCHANGED <<oled_buffer, oledLocks, clientVars, heapVars, oled_print_queue,
                 status, page, panel, panicked>>

FreeText ==
  /\ GoJob("free", IF status = "ok" THEN "unlock_buffer" ELSE "return")
  /\ FreePieces(JobBlock)
  /\ UNCHANGED <<oled_buffer, oledLocks, clientVars, oled_print_queue, status, page, shownVars, panicked>>

UnlockBufferForgotten ==
  /\ GoJob("unlock_buffer", "screen")
  /\ UNCHANGED <<oled_buffer, oledLocks, clientVars, heapVars, oled_print_queue, status,
                 page, shownVars, panicked>>

UnlockBuffer ==
  /\ GoJob("unlock_buffer", "screen")
  /\ oled_buffer_lock' = FALSE
  /\ UNCHANGED <<oled_buffer, oled_util_lock, update_screen_lock, i2c1_lock, clientVars,
                 heapVars, oled_print_queue, status, page, shownVars, panicked>>

\* ssd1306_UpdateScreen_ret_hold
LockScreen ==
  /\ GoJob("screen", IF update_screen_lock THEN "return" ELSE "page")
  /\ status' = IF update_screen_lock THEN "SCREEN_BUSY" ELSE "ok"
  /\ page' = 1
  /\ update_screen_lock' = TRUE
  /\ UNCHANGED <<oled_buffer, oled_util_lock, oled_buffer_lock, i2c1_lock, clientVars,
                 heapVars, oled_print_queue, shownVars, panicked>>

\* hal_i2c1_write tests i2c1_lock, sets it, and clears it however it ends.
TestPort ==
  /\ GoJob("page", IF i2c1_lock THEN "unlock_screen" ELSE "i2c_set")
  /\ status' = IF i2c1_lock THEN "PORT_BUSY" ELSE "ok"
  /\ UNCHANGED <<oled_buffer, oledLocks, clientVars, heapVars, oled_print_queue,
                 page, shownVars, panicked>>

SetPort ==
  /\ GoJob("i2c_set", "i2c_send")
  /\ i2c1_lock' = TRUE
  /\ UNCHANGED <<oled_buffer, oled_util_lock, oled_buffer_lock, update_screen_lock,
                 clientVars, heapVars, oled_print_queue, status, page, shownVars, panicked>>

SendPagesOn ==
  /\ GoJob("i2c_send", IF page = Pages + 1 THEN "unlock_screen" ELSE "page")
  /\ i2c1_lock' = FALSE
  /\ page' = IF page = Pages + 1 THEN 0 ELSE page + 1
  /\ panel' = IF page = Pages + 1 THEN screen ELSE Whole(Nobody)
  /\ UNCHANGED <<oled_buffer, oled_util_lock, oled_buffer_lock, update_screen_lock,
                 clientVars, heapVars, oled_print_queue, status, placed, screen, author, panicked>>

\* The panel shows a text once its last page is sent; meanwhile parts of two.
SendPage ==
  /\ GoJob("i2c_send", IF page = Pages THEN "unlock_screen" ELSE "page")
  /\ i2c1_lock' = FALSE
  /\ page' = IF page = Pages THEN 0 ELSE page + 1
  /\ panel' = IF page = Pages THEN screen ELSE Whole(Nobody)
  /\ UNCHANGED <<oled_buffer, oled_util_lock, oled_buffer_lock, update_screen_lock,
                 clientVars, heapVars, oled_print_queue, status, placed, screen, author, panicked>>

SendFails ==
  /\ GoJob("i2c_send", "unlock_screen")
  /\ i2c1_lock' = FALSE
  /\ status' = "bus"
  /\ UNCHANGED <<oled_buffer, oled_util_lock, oled_buffer_lock, update_screen_lock,
                 clientVars, heapVars, oled_print_queue, page, shownVars, panicked>>

UnlockScreen ==
  /\ GoJob("unlock_screen", "return")
  /\ update_screen_lock' = FALSE
  /\ UNCHANGED <<oled_buffer, oled_util_lock, oled_buffer_lock, i2c1_lock, clientVars,
                 heapVars, oled_print_queue, status, page, shownVars, panicked>>

\* A job that fails has its error reported before it is retired.
JobReturns ==
  /\ GoJob("return", "retire")
  /\ PrintQueue!RunOldest
  /\ status' = "ok" /\ page' = 0
  /\ screen' = Whole(Nobody) /\ author' = Nobody
  /\ UNCHANGED <<oled_buffer, oledLocks, clientVars, heapVars, placed, panel, panicked>>

RetireText ==
  /\ GoJob("retire", "idle")
  /\ PrintQueue!Retire
  /\ UNCHANGED <<oled_buffer, oledLocks, clientVars, heapVars, status, page, shownVars,
                 panicked>>

JobOn == \/ LookForText \/ FlushBusy \/ LockBuffer \/ SetCursor \/ Draw \/ FreeText
         \/ UnlockBuffer \/ LockScreen \/ TestPort \/ SetPort \/ SendPage \/ SendFails
         \/ UnlockScreen \/ JobReturns \/ RetireText

-----------------------------------------------------------------------------
(***************************************************************************)
(* A panic: OLED_PANIC_PREPARE, _oled_printf_panic and the endless loop    *)
(* after it, from a call that finds no memory or from any interrupt.  It   *)
(* asks for no lock but the one of the port, which it cannot wait for.     *)
(* The bus is taken to work.                                               *)
(***************************************************************************)
Panic ==
  /\ panicked' = TRUE
  /\ oled_util_lock' = TRUE /\ oled_buffer_lock' = TRUE /\ update_screen_lock' = TRUE
  /\ placed' = FALSE
  /\ oled_buffer' = PanicText
  /\ screen' = PanicText /\ author' = Nobody
  /\ panel' = IF i2c1_lock THEN panel ELSE PanicText
  /\ UNCHANGED <<i2c1_lock, clientVars, heapVars, oled_print_queue, jobVars>>

-----------------------------------------------------------------------------
\* A task gives up the CPU only between its calls, to those it is not above.
Active(t) == IF t = QueueTask THEN job # "idle" ELSE print[t] # "idle"
CanRun(t) == /\ ~ panicked
             /\ \A q \in Clients \cup {QueueTask} : Prio[q] > Prio[t] => ~ Active(q)

ClientOn(c) == CanRun(c) /\ PrintOn(c)
CallsPanic(c) == CanRun(c) /\ print[c] = "panic" /\ Panic
QueueTaskOn == CanRun(QueueTask) /\ (PrintTurn \/ JobOn)

OledNext == \/ \E c \in Clients : (CanRun(c) /\ PrintCall(c)) \/ ClientOn(c)
            \/ QueueTaskOn
            \/ ~ panicked /\ Panic     \* of any interrupt handler, too

(***************************************************************************)
(* Fairness: the CPU never rests while a call or a job is under way, and   *)
(* the clients above the queue task leave it time for its jobs.            *)
(***************************************************************************)
WorkOn == QueueTaskOn \/ \E c \in Clients : ClientOn(c) \/ CallsPanic(c)
OledSpec == /\ OledInit /\ [][OledNext]_oledVars
            /\ WF_oledVars(WorkOn)
            /\ SF_oledVars(QueueTaskOn)

TypeOK ==
  /\ oled_buffer \in Text \cup {PanicText}
  /\ oled_util_lock \in BOOLEAN /\ oled_buffer_lock \in BOOLEAN
  /\ update_screen_lock \in BOOLEAN /\ i2c1_lock \in BOOLEAN
  /\ print \in [Clients -> PrintPC]
  /\ block \in [Clients -> Blocks \cup {Nobody}]
  /\ alone \in [Clients -> BOOLEAN]
  /\ heap \subseteq Pieces
  /\ content \in [Blocks -> Text]
  /\ caller \in [Blocks -> Writers]
  /\ Len(oled_print_queue) <= PrintQueueSize
  /\ job \in JobPC /\ status \in Statuses /\ page \in 0 .. Pages
  /\ placed \in BOOLEAN
  /\ author \in Writers
  /\ {screen, panel} \subseteq Text \cup {PanicText}
  /\ panicked \in BOOLEAN

(***************************************************************************)
(* No allocation is lost and none is freed twice or early: what the heap   *)
(* holds is what a call under way has in its hands, and what the jobs that *)
(* have not freed theirs yet are going to read (oled_utils.c:104-115, 154, *)
(* 188, 200 and 211).                                                      *)
(***************************************************************************)
JobHolds(k) == /\ oled_print_queue[k].function
               /\ k = 1 => job \in {"idle", "look", "flush", "buffer", "cursor", "draw", "free"}
InHand(c) == CASE print[c] = "alloc_text" -> {<<"struct", block[c]>>}
               [] print[c] \in {"copy", "enqueue"} -> PieceOf(block[c])
               [] OTHER -> {}
HeapOwned ==
  /\ heap = (UNION {InHand(c) : c \in Clients}) \cup
            (UNION {PieceOf(oled_print_queue[k].ctx) :
                      k \in {j \in 1 .. Len(oled_print_queue) : JobHolds(j)}})
  /\ \A j, k \in 1 .. Len(oled_print_queue) :
        JobHolds(j) /\ JobHolds(k) /\ oled_print_queue[j].ctx = oled_print_queue[k].ctx => j = k

(***************************************************************************)
(* What is printed is what is shown.  A text that no other call of         *)
(* oled_cursor_printf has written into, from its vsnprintf to its memcpy   *)
(* (oled_utils.c:56 formats before line 172 takes the lock), and while     *)
(* whose drawing no print_text has moved the cursor (main.c:188), is on    *)
(* the panel in full when its job returns 0; and a job only fails when the *)
(* bus does, never because the screen, its buffer or the port is busy.     *)
(* The message of a panic is shown whatever the panic has interrupted, but *)
(* for the queue task in the middle of a write to the bus, whose i2c1_lock *)
(* a panic respects (interrupt_panic.c:30).                                *)
(***************************************************************************)
ShownAsPrinted ==
  /\ ~ panicked /\ job = "return" /\ status = "ok" /\ author # Nobody => panel = Whole(author)
  /\ ~ panicked => status \in {"ok", "bus"}
  /\ panicked => panel = PanicText \/ job = "i2c_send"

(***************************************************************************)
(* The queue is never stuck: whatever fails, the oldest text is drawn and  *)
(* sent, or its failure returned, unless the firmware panics.              *)
(***************************************************************************)
TextsDrain == oled_print_queue # <<>> ~> job = "retire" \/ panicked
=============================================================================
