# Verification of the solar48 firmware

TLA+ models, TLC runs and TLAPS proofs of the firmware in `src/firmware/src`
(an STM32F103 board that talks Modbus to solar charge controllers, is driven
from a USB console, and runs FreeRTOS).  Paths below are relative to
`src/firmware/src`.

## 1. The system

### Scheduling

The default build (`Makefile`, `solar48_config.h`) is the FreeRTOS one, with the
RS485 master on UART1 and the slave on UART2.  (The repository's `README.md`
calls the firmware "Bare-metal (no RTOS)"; the build files decide.)  Tasks,
highest priority first:

| task | runs | file |
|---|---|---|
| milliseconds (6) | `rtos_milli_task`: the millisecond counter | `system/time.c` |
| internal interrupts (5) | `run_process_int_int`: the date on the display, added by the RTC interrupt | `system/process.c`, `main.c` 184-218 |
| console (5) | `run_process_int_ext`: USB commands | `system/process.c`, `middlewares/USB_DEVICE/usb_io.c` |
| peripheral events (5) | `process_uart1_time_event`, `process_uart2_time_event` | `system/hal_uart.c` |
| process (4) | `run_process` (its slot has no producer in this build) | `system/process.c` |
| queues (3) | `_run_oled_process`, `run_error_handler` | `middlewares/INSTANCES/process_sys_queue.c` |
| led (1) | blinks, refreshes the watchdog | `middlewares/INSTANCES/led_blink.c` |

Tasks of one priority interleave at ticks: the milliseconds task wakes at each.
Interrupts preempt every task: TIM2 and TIM3 (5, most urgent), RTC (6), DMA4/5 (7),
DMA6/7 (8), USART1 (9), USART2 (10), USB (11).  No code uses critical sections;
locks are `bool`s taken by compare-and-exchange, by spinning (`system/system.c`).
A party that spins does not yield: an interrupt that spins on a lock held by the
task it preempted waits out its whole timeout.

### Components

| component | state | operations | correct when |
|---|---|---|---|
| Job queue, `sys_queue.c` | ring, two locks, `flag` | init, deinit, add, run | one lock holder, no use of a freed ring, each job runs once and in order, nobody waits for ever, no panic |
| Modbus master, `rs485.c`, UART1 half of `hal_uart.c` | `master_rs485_rtu`, `uart1_control`, DMA4/5, TIM2, MAX485 pin | `master_send_req`, four handlers, 1 ms poll | one transfer at a time, the pin points the right way, an idle UART is off, every request ends once and calls its own driver back |
| Modbus slave, `rs485.c`, UART2 half of `hal_uart.c` | `uart2_control`, DMA6/7, TIM3, pin | start of listening, four handlers, 1 ms poll | it never goes deaf, never keeps the bus, is off when it fails, sends whole answers |
| USB console, `usb_io.c`, `process.c` | receive lock and text, process slot, `printf_buffer`, transmitter | receive, run a command, `usb_printf`, `usb_send_chunk` | a packet runs once and with its own text, the lock is always given back, a print that returns OK was sent |
| Time base, `time.c` | SysTick, `TIMEOUT_MS` | `init_timeout_ms`, `is_timeout_ms` | a timeout is neither early nor late, and passes |
| EPEVER drivers, `ep_ip2000`, `tracer6415an` | one lock, error, record; a callback per handler | five requests each, their receive handlers | the lock covers a request, is freed, the caller is called back, a record comes whole from its own reply |
| Modbus frames, `rs485.c` | `modbus_master_buffer`, `modbus_slave_buffer` | build a request, check a reply, serve a request | a request is the frame of the standard, data comes from an answer, the slave answers what it was asked |
| CRC, `crc.c` | a table | `crc16` | the table is the division by the polynomial |
| Error log, `errors.c` | list of six errors and a pointer over the queue | `error_handler`, `_error_handler` | an accepted error is printed as it was reported, the pointer stays in the list |
| Display, `oled_utils.c`, `ssd1306.c`, `hal_i2c.c` | text buffer, heap blocks, screen buffer, four locks | `oled_cursor_printf`, the print job, a bus write, a panic | a text is shown as it was printed, each allocation is freed once, the queue drains |
| Calendar, `rtc.c` | RTC counter in two halves | set and get a date | what is set is read back |
| Rest | see `PROJECT.json` | console commands, memory helpers, pins, watchdog, vendored USB and FreeRTOS | |

### How they interact

A console command calls a driver.  The driver takes its lock, registers a
callback and calls `master_send_req`, which takes the master's lock, builds the
frame and starts DMA4.  The end of the transmission switches the MAX485 and DMA5
to receive; an idle line of USART1 starts TIM2, which waits the 3.5 characters of
a frame gap; the poll in the peripheral events task sees the final status, stops
everything, unlocks the UART and calls `_master_receive`, which checks the reply,
unlocks the master and calls the driver's handler; that fills the record, calls
the command's callback (which prints) and unlocks the driver.  Errors of all
components go through `error_handler` into a job queue whose runner prints them
over the same USB transmitter.  Once per second the RTC interrupt has the date
printed on the display: the text is queued, and the queue task draws it and sends
it over I2C.

### What is hard

* **Interleaving without critical sections.**  Three tasks of one priority and
  ten interrupts share control blocks, DMA registers and buffers.
* **Ordering.** An interrupt may come between any two register writes of the task
  that ends a transfer; two interrupts share one status word.
* **Lost, late and broken messages** on the RS485 bus; a timeout races the answer.
* **Re-entrance.** A job of the error queue prints; a failed print reports an error.
* **Shared buffers** written before a lock is taken or after it is freed, and not
  cleared between two uses: a frame that is cut short is read with the rest of an
  older one.
* **Time** measured by looking at a down counter now and then.

Every such place is listed, at its line, under `hazards` in `PROJECT.json`, with
the properties that cover it or the reason why none does yet.

## 2. The modules

| module | models | kind |
|---|---|---|
| `SysQueue` | `sys_queue.c`, `system.c`, every shared access a step | state machine |
| `QueueService` | what a queue promises: a bounded FIFO that opens, closes and runs or destroys each job | abstract specification |
| `MCSysQueue` | instance of `SysQueue` | for TLC |
| `SysQueueProofs` | invariants of `SysQueue`, and that it implements `QueueService` | proofs |
| `Uart1Master`, `MCUart1Master`, `Uart1Proofs` | the master and the UART1 engine | state machine, instance, proofs |
| `Uart2Slave`, `Uart2Proofs` | the slave and the UART2 engine | state machine, proofs |
| `UsbConsole`, `UsbProofs` | receive, process slot, command, printing | state machine, proofs |
| `SysTimeout` | `is_timeout_ms` against SysTick | state machine |
| `RtcCalendar` | the dates of `rtc.c` over the RTC counter | functions, state machine |
| `MCClocks` | instance of `SysTimeout` and `RtcCalendar`, one at a time | for TLC |
| `ErrorLog`, `MCErrorLog`, `ErrorLogProofs` | `errors.c` over `QueueService` | state machine, instance, proofs |
| `OledPrint`, `MCOledPrint`, `OledProofs` | the display, its heap, bus and panics over `QueueService` | state machine, instance, proofs |
| `Crc16` | `crc.c` and the polynomial it stands for | functions |
| `ModbusFrames`, `MCModbusFrames` | the frames of `rs485.c`, byte by byte, over a noisy bus | functions, state machine, instance |
| `ComputationProofs` | theorems about `SysTimeout`, `Crc16`, `ModbusFrames` and `RtcCalendar` | proofs |
| `EpeverDrivers`, `MCEpeverDrivers`, `EpeverProofs` | both drivers over the master | state machine, instance, proofs |

`map` in `PROJECT.json` gives the lines that each definition stands for.
Conventions: a variable has the name it has in the code where the code has one; a
process has a program counter, and a step is the code between two places at which
another party can see or change something; an interrupt handler is one step,
because only a more urgent one preempts it and none that does touches what it
uses in between (but for the port register of the bus drivers, see `Uart1Master`);
a spin on a taken lock is a step that is not enabled, plus a
step in which its timeout ends it.  Definitions whose names end in what they get
wrong (`AddAdvanceNoWrap`, `FreeKeepsLock`) are the variants that the mutants use;
no specification refers to them.

### SysQueue

Adders are tasks, interrupts and the callbacks that the runner calls; each goes
through `sys_queue` with the two tests of `sys_try_lock_if_gbl_is_false`.  The
runner's loop, init and deinit are split at every atomic access.  `Prio` makes a
party of higher priority block those below it until it returns, so a spin on a
lock held by a preempted party can only end in its timeout.  `Faults` allows
callbacks that outlast the timeouts of others, and a heap that is full.  A panic
halts the model.  `ImplementsService` is the refinement: the ring between `tail`
and `head` is the sequence of `QueueService`.

### Uart1Master

`master_lock`, `callback`, `locked`, `monitor`, `status`, `uart_callback` are the
fields of `master_rs485_rtu` and `uart1_control`; `dma4`, `rx`, `tim2`, `pin` the
hardware.  Requests are `Request`, `Fill`, `CheckBusy`, `LockUart`, `StopMonitor`,
`TurnToTransmit`, `StopUart`, `ArmUart`, `StartDma4` or `Fail`; handlers `Dma4Complete`, `Dma4Error`,
`Dma5Overflow`, `Usart1Idle`, `ReceiveError`, `Tim2`; the poll is the sequence
`TaskPoll` to `MasterCallback`.  The slave may send anything or nothing: `buffer`
says what the check of the reply will find.

The pin is a bit of `GPIOA_ODR`, and the pin of the slave's bus driver is another bit
of it.  `rs485.h` 205-209 loads the register, changes the bit and stores all of it.
The firmware writes the register nowhere else.  Seen from the master, a write of
its own is right in the moment of its store, whatever was loaded (`SetDriver`); a
write of the slave's driver, in a task or in the handler of DMA7, puts the master's
bit back to what it was at the load.  So `SlaveLoadsPort` adds the pin to the set
`stale` at any moment, and `SlaveStoresPort` later writes a member of it back, any
number of times and in any order; that allows more than the slave does.  The
handlers of TIM2 and TIM3 are equally urgent and above all other writers, so no
store comes between the load and the store of one of them.  `undone` remembers
that a store of the slave has changed the pin since the master set it:
`DriverDirection` names this as its one exception, so it says that nothing else
turns the pin the wrong way.  `slave` is the setting with these steps.

The model has two more settings, chosen at the start.  `users` is the set of drivers
that send.  `early` says whether the timeout of the poll may pass while the
request is still being sent.  The documented use does not have it (a request of
eight bytes takes less than the 4 ms of a driver), but `hal_uart.c` does not
prevent it, and its comment at 381 does not mention it.  With `early`, an
interrupt of DMA4 between `TimerOff` and `DmaOff` (427, 432) turns the receiver
on and starts TIM2 for a transfer that has ended, so `DriverDirection`,
`QuietWhenUnlocked` and `IsrAccessOnlyLocked` do not hold and are stated for
`~early`; that the UART, the master and the driver are freed holds with it too.

### Uart2Slave

The slave passes through the modes `Listening`, `GapBefore`, `Answering`,
`GapAfter`, `Failed`, `Pausing`, which `NeverDeaf` names.  `Received` tells
apart the requests it serves, those it refuses by an exception and those it
ignores; `disturbed` allows frames longer than the buffer, DMA errors and
interrupts with no flag set; `debug` is the flag of the same name.  `MasterLoadsPort`
and `MasterStoresPort` are to its pin what the slave's steps are to that of the master
(the master writes in tasks, 335 and 447, and in TIM2, which has no gap), with
the setting `master`.  `uart2_receive` and the failure path turn the pin (`RxPin`,
`FailPin`) before they stop the receiver.  The comment at
`hal_uart.c` 925-937 mentions `uart2_control.locked`, a field that the slave build
does not have.

### UsbConsole

The USB interrupt (`Receive`, `Transmitted`) may come between any two steps of a
task.  `Callbacks` print at the console's priority, `Logs` below it: a log runs
only while no task above it does.  `text` says whether the packet in the buffer
has been run.  `reads` is a host that reads what it was sent before it sends
again; the other kind of host may send at any time and never read.

### SysTimeout

`VAL` counts down and is reloaded.  The owner asks at most `MaxGap` counts after
it last asked.  `MaxGap = SYSTICK_TICKS` is a busy wait, as in `sys_try_lock`;
`MaxGap = SYSTICK_TICKS + 1` is a poll of once per millisecond.

### RtcCalendar

`Timestamp` and `get_solar48_date` are the two conversions of `rtc.c`, with the day
and the second of the day in place of a number of 32 bits, which TLC's integers
do not hold; `CounterOfDay` and `DayOfCounter` split and join the two 16-bit
halves exactly.  `Tick` is the counter, `LoadHalf` and `GetDate` the two loads of
`CURRENT_TIMESTAMP` in either order.  `Tomorrow`, `Later` and `WeekDay` are the
calendar as it is, against which `DatesKept` compares.  The synchronisation flag of
the RTC (`RSF`) after a reset is not modelled.

### ErrorLog

`Report` loads `error_list_ptr`, `Write` writes the slot, `Accept` or `Refuse` is the call of
`sys_queue`, and `Load`, `Store`, `Wrap` the `++` and the comparison, at each of
which another task may come in.  Where the compiler may keep the pointer in a
register or load it again, both are allowed.  The runner may call
`error_handler` itself while it prints.  The queue is the abstract one, which
`SysQueue` is shown to implement (`ImplementsService`); that its lock is held during
a job is in `Refuse`.

### OledPrint

`Format` to `UnlockText` are `oled_cursor_printf`, `LookForText` to `RetireText` the
turn of the queue task with the job `_oled_cursor_printf`, the update of the screen
and `hal_i2c1_write`, whose pages may fail.  `CanRun` gives the processor to the
highest task under way, as FreeRTOS does.  The heap is a set of pieces, two for
each text, with room for `HeapSize` of them; what a text says is who wrote its
two halves.  `Panic` is `app_panic` or any fault, at any moment.  Like `ErrorLog` it
uses the abstract queue.  One module with both jobs, the log and the
display, in one queue task was tried and has more states than can be explored;
the two queues are separate in the code, and the display's failures enter the
log as one of its reporters.

### Crc16 and ModbusFrames

`crc16` goes by the table, `PolynomialCrc` by the division that the standard asks
for; `TableAssumption`, which TLC evaluates, says that each entry of the table
agrees.  In `ModbusFrames`, `Refused` and `Prepared` are `master_prepare_to_send`,
`SlaveAnswer` is `slave_send_resp`, `Checked` is `master_check_receive`; `DeviceReply`,
`SlaveStandard` and `StandardRequest` are the standard.  One exchange follows the
other: a request of the master or of another master, what the slave makes of it,
what a device or the slave answers, and what the master makes of that.  Noise
cuts a frame or changes one byte, but for the reply of a device on its way to the
slave, which overhears it.  Both buffers keep what they held before, as
in the code.  When frames are sent and received is the subject of the UART
modules, which tell frames apart only by what the check finds.

### EpeverDrivers

`Call` to `Return` are the calls of a driver, `EndFailed` to `Unlock` its receive
handlers.  `Asked`, `Expected`, `Copied`, `ReplyBytes`, `DataSize` are the sizes
that the code asks for, compares, copies, gets and is handed.  `late` are requests
that timed out and may still be answered: the master compares the slave and the
function of a reply, so such a reply is taken for that of the next request with
the same two.  `prompt` says that a call returns before its reply is handled.

## 3. What TLC checks

| run | question | bounds | states |
|---|---|---|---|
| `sys_queue` | safety and refinement of the queue | 2 slots, an interrupt and a task that add, the runner and its re-entrant callbacks, 2 controllers, both faults | 936,976 |
| `sys_queue_liveness` | adders, jobs and controllers get on; no panic without faults | 2 slots, 1 interrupt, runner, 1 controller | 9,570 |
| `uart1_master` | safety and liveness of the master | 2 drivers; early timeouts, or a slave beside the master, with 1 | 253,606 |
| `uart1_callback_swap` | violation, see section 5 | 2 drivers | |
| `uart2_slave` | safety and liveness of the slave | none: the model is finite | 41,974 |
| `usb_console` | packets, locks, ends of commands | a callback and a log that print, 2 prints of a command | 102,361 |
| `usb_two_writers` | violation, see section 5 | a log, 1 print | |
| `clocks` | timeouts on time; which dates are kept | reload of 6, timeout of 3; each day of 10 years at 4 times of day, 1 second | 425,787 |
| `epever_drivers` | lock, callback and record of a driver | 2 callers of ip2000, 1 of the tracer, 1 late reply | 443,383 |
| `error_log` | what the log prints | 3 reporters, one of them the queue task; 2 slots, 2 errors | 2,734,623 |
| `oled_print` | what the display shows, the heap, the queue | 2 printers, one on each side of the queue task; room for 5 pieces in 3 blocks, 2 jobs, 2 pages | 690,325 |
| `modbus_frames` | requests, answers and replies against the standard | 2 exchanges, 2 frames with noise | 1,518,056 |

Why the bounds are enough.  Two slots are the smallest ring in which head and
tail differ, wrap and meet; with two controllers an init races an init, a deinit
races a deinit and either races the other; the interrupt, the task and the runner are the
three kinds of adder.  Two drivers are all there are, and one more could only
wait for a master that two already fight over.  The console has one slot and one
lock, so two more printers, one on each side of its priority, give all
orders.  One late reply is enough to be taken for another one.

In `error_log` a third reporter makes an increment overtake two others; the two
that are not the queue task are alike, and so are the errors (`LogSymmetry`; the
run has no liveness property).  In `uart1_master` the second driver adds nothing to
what a store of the slave's driver meets, as the pin belongs to the one transfer that
the lock admits; the theorems of section 4 cover both together.  In
`oled_print` the heap has room for five pieces, so with two texts queued it runs out
at the second allocation of the next, and the first is then given back; the first
allocation does not fail there (`HeapOwnership` is proved for every size).  A
screen can fail on its first and on its last page.
In `clocks` the years are ordinary, leap, centuries with and without a leap day,
and those around the first and the last that fit the counter; every day and
month is tried, invalid ones too (`0 .. 13`, `0 .. 32`), and the times of day are
those at which the low half of the counter or the day turns.

In `modbus_frames` the requests of each function stand at, just below and just above
the limits of their quantity (`Borders`); the upper limits are approached from
above, where a request is refused, so that the frames stay short of some fifty
bytes.  `NoisyAsks` are short requests whose frames noise reaches, cut to or
damaged at `Places`, which lie in each field and in the CRC, by `Damages`, the
lowest and the highest bit.  Two exchanges let the second one find what the first
one left: both that a slave answers an older request that was damaged and that
a master takes an older reply happen within these bounds.

`MaxLate`, `MaxPrints`, `MaxReloads`, `MaxGap`, `MaxTicks`, `MaxFaults`, `MaxExchanges`, that
a date is set once, and the constraints `EarlyAlone` and `Explored` of the MC modules
are the bounds; nothing else is cut off.

Deadlock is checked except in `sys_queue` and `oled_print`, where a panic halts the
firmware, and in `modbus_frames`, which stops after `MaxExchanges`.

### Fairness

* `SysQueue`: each party that the priorities allow to run infinitely often runs
  infinitely often (strong fairness, as a spinning party competes for the lock
  with others), and a spin that cannot get its lock times out.  Interrupts do not
  come so densely that tasks starve.
* `Uart1Master`, `Uart2Slave`: tasks go on; the poll's timeout passes if the poll
  is asked again and again (strong, because each new status resets nothing but
  may disable it for a while); a started timer and a started transmission end.
  Nothing is assumed of the other side of the bus.  In `Uart1Master` the end of a
  transmission is only assumed where timeouts are not early: with early ones the
  timeout frees everything by itself.
* `UsbConsole`: the console's task goes on, the host tries again for ever, and a
  host that reads does read.  Nothing is assumed of callbacks, logs and hosts that
  do not read.
* `EpeverDrivers`: the callers go on and the master ends each request, which is
  part of `RequestsEnd` of `Uart1Master`.
* `OledPrint`: the processor never rests while a call or a job is under way (weak,
  of any task that the priorities let run), and those above the queue task leave
  it time again and again (strong): the date is printed once per second.
* `ErrorLog`, `ModbusFrames`, `RtcCalendar` and `SysTimeout` state safety only and need
  none.

### Mutants

Each property of each passing run has a mutant under `mutants`: a plausible bug in
one definition (a lock not taken, a reset forgotten, a test dropped) under which
TLC finds the property violated.

## 4. What is proved

All theorems hold for every value of the constants, from the named assumptions of
the modules, which TLC evaluates in the runs.

| module | theorems | from |
|---|---|---|
| `SysQueueProofs` | `TypeCorrect`, `MutualExclusion`, `NoReentrantAdd`, `MemorySafety`, `RingIntegrity`, `Consistency` | any number of adders and controllers, any priorities, any ring size above 0, any faults |
| `SysQueueProofs` | `Refinement` | the same |
| `SysQueueProofs` | `NoPanicOfOneController` | `PatientController`: one controller that is above no adder, no faults |
| `Uart1Proofs` | `TypeCorrect`, `BusDirection`, `QuietUart`, `SingleTransfer`, `LockedIsr` | any set of drivers, with and without a slave; all but the types for `~early` |
| `Uart2Proofs` | `TypeCorrect`, `AlwaysAwake`, `BusDriver`, `SilentFailure`, `WholeAnswers` | types on every bus, the rest for `~disturbed`; with and without a master |
| `ComputationProofs` | `TimeoutTypeCorrect`, `NeverEarly`, `NeverLate`, `TimeoutOnTime` | any reload value and timeout; never late from `MaxGap <= SYSTICK_TICKS` |
| `UsbProofs` | `TypeCorrect`, `LockReleased`, `RunOnce` | any number of callbacks and logs that print, any number of prints; `RunOnce` for a host that reads |
| `EpeverProofs` | `TypeCorrect`, `OneOwner`, `RepliesTold`, `RecordsFilled` | any finite set of callers, any number of late replies; `OneOwner` for calls that return before their reply is handled, and one caller of the tracer |
| `ErrorLogProofs` | `TypeCorrect`, `PointerComesBack`, `TruthfulLog` | any list of at least one slot, any set of reporters with the queue task in it, any errors |
| `OledProofs` | `TypeCorrect`, `HeapOwnership`, `Shown` | any set of clients, any finite heap, any length of the queue, any faults of the bus |
| `ComputationProofs` | `TableDivides`, `DamageDetected` | frames of any length, of any bytes |
| `ComputationProofs` | `RequestsAreStandard`, `WholeExchanges`, `QuietSlave`, `QuietMaster`, `DamageUnanswered` | any addresses, quantities, values and number of exchanges; `WholeExchanges`, `QuietSlave`, `QuietMaster` from `NothingByChance` |
| `ComputationProofs` | `CalendarKept` | any years and times of day; less than a day passes after a date is set |

The argument is the same in each: an inductive invariant `IInv`, a lemma that
`Init` gives it, one lemma per kind of step that keeps it, and one theorem per
property that follows from it.

* **Queue.**  `MemorySafety` is not inductive: that a vector is allocated while an
  adder writes follows from the flag, which the adder tested under the lock.
  `FlagInv` relates each program counter to the flag, `LockInv` says exactly who
  holds the lock (so that nobody changes the flag behind the holder's back) and
  `GlobalInv` does the same for the global lock, which is what orders the
  controllers.  `RingInv` says that `head` lies `count` slots after `tail` and that
  each slot in between holds a job; it rests on lemmas about addition modulo
  the size of the ring (`AtCases`, `AtNext`, `AtInjective`).  `Consistency` adds that
  the flag says closing only while a controller that holds the global lock is
  closing (`ClosingInv`), so no second one can find it so.
* **No panic.**  With a `PatientController` no lock that it waits for is held by
  somebody it has preempted, so no wait of it times out, and `SwitchInv` says that an
  init finds the queue off until it switches it on: of the panics of `sys_queue.c`
  none is left.
* **Refinement.**  The jobs of the service are those of the ring from `tail` on
  (`JobsIn`), and the lemmas `OneMore`, `OneLess`, `WriteBehind` and `WriteOldest` say what
  a move of an index or the write of a slot makes of them.  `TurnInv` adds to `IInv`
  what the runner knows of the job it runs (which of its pointers are cleared) and
  that an init has an empty ring until it raises the flag; with it each step is one
  of `QueueService` or none.  `ErrorLog` and `OledPrint` rest on this theorem.
* **Master.**  `QuietInv` holds when the lock is freed because of what the task did
  since it decided to end the transfer (`TaskInv`) and because no handler can undo
  that: while DMA4 sends, the receiver and TIM2 are off and the task cannot be
  ending (`HardwareInv`).  `RequestInv` says the same of a request in preparation.
  `Driven(d)`, that the pin is at `d` or undone, is kept by each store of the slave
  (`SlaveKeeps`) and set by each of the master, so all that `DriverDirection` needs is
  that the steps which set it come in the right order.
* **Slave.**  `NeverDeaf` is strengthened to the mode plus what the task knows of the
  status it loaded (`SeenInv`) and where a restart has come (`StartInv`).  `PinInv`
  is `BusDirection` without its condition.
* **Time.**  A reload that the owner has not seen shows as a counter above the last
  value (`EarlyInv`), and asked often enough the distance tells whether there was
  one (`LateInv`).
* **Console.**  Outside of a command the lock guards a packet that was not run
  (`RestInv`); with a host that reads, a command keeps the lock that its packet took,
  so no other packet gets in (`ReadsInv`).
* **Drivers.**  `LockOwned` is inductive with two additions: a call that finds success
  when it tests the result has its request in flight (`FlightInv`), so nobody frees the
  lock of a request under way; and only the operations of one driver are on their
  way (`CallInv`), whose sizes differ (`SizesDiffer`).
* **Display.**  `HeapOwned` says that the pieces in use are those of somebody and that
  no two own one.  It needs to know who holds which lock (`UtilInv`, `LockInv`), what a
  call has in hand at each of its program counters (`BlockInv`), and that the jobs in the
  queue hold pieces of their own (`QueueInv`, `HeapInv`); that a `malloc` which finds no room
  does so rightly needs the heap to be finite (`RoomForBlock`).  `ShownAsPrinted` adds that
  the shared text is the holder's own (`TextInv`) and what the bus has shown of the
  screen so far (`ScreenInv`).
* **CRC.**  A step of the division is linear over exclusive or, so eight of them on
  a byte and a rest are what the table has for the byte and the rest moved by
  eight (`TableAssumption` for each byte is all that is assumed); the frame follows
  by induction over its length, with a set of numbers in place of a predicate
  (`SetInduction`).  A step takes nothing but zero to zero, so it keeps two remainders
  apart, and a byte that differs makes them differ (`DamageDetected`).
* **Calendar.**  `CalendarInv` says that the two halves together count the seconds since
  1970 from the date that was set, less 2^32 once they have run over, and that a
  reader's half was such a count; a whole read is of a count that has not run over
  (`WholeRead`).  `CounterFacts` and `DayFacts` show the split into halves exact, `MonthFound` and
  `MonthUnique` that each place in a year lies in one month, `ReadSame` and `ReadShifted` what
  becomes of a day with the number that the reader expects, and of one whose leap
  day was added too early; `TomorrowFacts` carries both over midnight.  The weekday needs the
  number of leap years before a year (`LeapYearsCounted`, by induction) and Sakamoto's
  months modulo 7 (`SakamotoMonths`).  The theorem is of `RtcSpec`, whose steps are those of
  the calendar in `ClocksSpec`.
* **Frames.**  Each frame of a request carries what was asked (`Carries`), whether the code
  or the standard writes it, and each reply is one of three kinds (`IsReply`); sequences
  of bytes are compared entry by entry.  `ExchangeInv` says what of a frame is in the
  eight bytes of the slave (`SentInv`, `HeardInv`) and in the buffer of the master
  (`BufferInv`, `ReplyInv`) in each phase.  `SlaveAnswersRequests` and `RepliesExact` hold for every
  value while there was no noise (`QuietInv`).  The slave looks for a CRC after six bytes
  of whatever reaches it, so a longer request may by chance look like one of eight
  bytes: `NothingByChance` says that none of those sent does.  TLC evaluates it
  for the requests of the run (`ChanceAssumption`).
* **Errors.**  Whoever stores a pointer behind the list is going to set it back, and
  nobody else's comparison can be taken for that (`PointerInv`).  While reports do not
  overlap, the jobs of the queue lie in the slots before the one to be written next,
  the youngest directly before it (`JobsBefore`, counted backwards around the list),
  so the next report overwrites none of them unless the queue is full (`CalmInv`).

`NoPanic` is neither checked nor claimed for several controllers, whose calls may
meet: two that open or close a queue at once are what its panics are for.

Only model-checked: all liveness properties, which need fairness and `ENABLED`,
and `SlaveAnswersRequests` and `RepliesExact` after noise has reached a frame: what is left of it may
have the right CRC by chance, so both are false of some bytes, and what is proved
instead is that frames which arrive whole are served (`WholeExchanges`) and that one
damaged byte is found (`DamageDetected`, `DamageUnanswered`).

## 5. Findings

Two runs expect a violation:

* `uart1_callback_swap`: `_master_receive` frees the master's lock and then reads the
  callback; a request in between gets the status of the old one (`rs485.c` 613).
* `usb_two_writers`: `usb_printf` returns OK for a text that was overwritten in the
  shared buffer (`usb_io.c` 71; comment at 55).

Passing properties say exactly where the code departs from what one would expect:

* `RequestsStandard`: writes of several values are sent two bytes short (`rs485.c` 127
  and 165), reads of bits ask for a number of bytes (216), and a read and write is
  limited to 123 registers where the standard has 125.  No driver of the build meets
  one of them.
* `SlaveAnswersRequests`, `RepliesExact`: a frame that is cut short is checked together
  with the rest of an older one (`rs485.c` 725, `hal_uart.c` 143), so the slave may
  answer a request that noise had damaged before, and a driver may get older
  registers.
* `DatesKept`: dates after January of a leap year and each last of December are read
  back wrong (`rtc.c` 226 and 291); a carry between the two loads of the
  counter shows a time up to 65536 seconds off (`registers.h` 297).
* `PrintedAsReported`: with the queue full, the next report overwrites the slot of the
  oldest job before it is refused (`errors.c` 34).
* `ServedRecordWhole`: six requests of the drivers whose record is not filled from the
  reply, or not filled at all (`epever_ip2000.c` 75, `epever_tracer6415an.c` 438 and the
  element counts of its header).
* `OnTime`: a timeout is on time for an owner that asks within each reload of SysTick;
  one that asks once per millisecond, as the polls of both UARTs do, may count only
  some of the reloads (`time.c` 93; comments at `hal_uart.c` 374-375).

* `DriverDirection`, `BusDirection`, `ListensAgain`: a load and a store of `GPIOA_ODR` by one
  bus driver undo what the other one wrote in between (`rs485.h` 205-209).  A slave
  whose pin TIM3 turned to receive between the two is left with the bus and hears
  nothing until something else sets its pin again, which the idle slave never does;
  a master whose pin TIM2 turned to receive misses the reply.
* `ListensAgain`: after an oversized frame or a DMA6 error the pause of the failure path
  can find the receiver on.  `uart2_receive` turns the pin first (`hal_uart.c` 797) and
  stops the receiver later (800), and TIM3 may start an answer in between: it is cut,
  with the pin left at transmit.

Observed, with no property of its own: an idle line overwrites the overflow
status of an oversized frame (`hal_uart.c` 133 and 608), and on a disturbed bus it
can start an answer that the failure path of the slave does not stop (991; comment
at 930); a second call of the tracer clears the callback of the first before it
has the lock (`epever_tracer6415an.c` 186); a late reply is taken for that of the
same operation asked again.

## 6. Plan

Done: all modules of section 2.

All safety properties of the runs have theorems, as far as section 4 says.

Left to do: the strict priorities of the tasks in the UART models (section 7), and a
bound of the noise under which a frame that is cut short cannot have a right CRC
by chance.

## 7. Not modelled

* **Vendored code**, which is most of the repository's lines: FreeRTOS, the USB device
  stack and its register driver, CMSIS and device headers.  What the firmware relies on
  is in the models: preemption by fixed priority, a transmitter that is busy until the
  host reads, a callback for each packet.
* **Text**: what the commands print, how `build_argc` splits a line, the JSON of the
  drivers, fonts and pixels.  A command is a printer of `UsbConsole`.
  One conversion deserves a look: `real_u32_prec` (`types.c` 67) stores the remainder
  in `prec` and then divides by it in place of the precision, so 2345 with two
  decimals is printed as 52.45, and a value with no decimals divides by zero.
* **Set-up**: registers written once at start, clocks, pins, the converter behind
  `sensors.c`, which is polled and keeps no state.
* **The watchdog**, which needs one clock for all models: a deinit of a queue that waits
  up to 3 s without a refresh (`sys_queue.c` 89) would be reset; nothing in the build
  calls it.
* **Strict priorities inside the UART models**, which allow more orders than the
  scheduler; a property that holds there holds for the scheduler too.
* **The bare-metal build**, whose single loop runs the same handlers in one of the
  orders modelled.
* **The millisecond counter** `tick`, which is only displayed.
