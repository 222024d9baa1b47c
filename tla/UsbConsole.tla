----------------------------- MODULE UsbConsole -----------------------------
(***************************************************************************)
(* The console over USB CDC: CDC_Receive_FS calls usb_receive and          *)
(* usb_receive_complete in the USB interrupt, the process slot of          *)
(* process.c hands the packet to the processIntExt task, and the command   *)
(* answers with usb_printf (middlewares/USB_DEVICE/usb_io.c), which other  *)
(* tasks use too: the callbacks of a request on the bus and the error log. *)
(*                                                                         *)
(* The interrupt is one step; a task can be interrupted between any two.   *)
(* The slot has one producer, so add_process_int_ext only fails because    *)
(* the console is already there.                                           *)
(***************************************************************************)
EXTENDS Naturals

CONSTANTS
  Callbacks,  \* tasks with the priority of processIntExt that print
  Logs,       \* tasks below it that print: they run when none of them is running
  MaxPrints   \* bound on the texts of a command

Printers == {"console"} \cup Callbacks \cup Logs

ASSUME UsbAssumption == /\ "console" \notin Callbacks \cup Logs
                        /\ Callbacks \cap Logs = {}
                        /\ {"none", "help"} \cap Printers = {}
                        /\ MaxPrints \in Nat

VARIABLES
  usb_io_locked,
  text,           \* "none", or a packet that is "new" or was "run"
  slot,           \* _process_int_ext is set
  tx,             \* TxState: NoText, or the text of printf_buffer when the transfer started
  printf_buffer,
  pc,             \* where each task is
  prints,         \* what the command has still to print
  reads           \* the host reads what was sent before its next packet

vars == <<usb_io_locked, text, slot, tx, printf_buffer, pc, prints, reads>>

InPrintf == {"wait", "check", "format", "send"}
InChunk == {"chunk_wait", "chunk_check", "chunk_send"}
PC == {"idle", "command", "finish", "unlocked"} \cup InPrintf \cup InChunk

\* The texts that usb_printf formats, told apart by who prints and by what the
\* command has then still to print.
NoText == <<"none", 0>>
HelpText == <<"help", 0>>
Texts == {NoText, HelpText} \cup (Printers \X (0 .. MaxPrints))

Init == /\ usb_io_locked = FALSE /\ text = "none" /\ slot = FALSE
        /\ tx = NoText /\ printf_buffer = NoText
        /\ pc = [p \in Printers |-> "idle"] /\ prints = 0
        /\ reads \in BOOLEAN

Runs(p) == p \in Logs => \A q \in Printers \ Logs : pc[q] = "idle"
Go(p, from, to) == Runs(p) /\ pc[p] = from /\ pc' = [pc EXCEPT ![p] = to]
Back(p) == IF p = "console" THEN "command" ELSE "idle"

-----------------------------------------------------------------------------
(***************************************************************************)
(* The USB interrupt.                                                      *)
(***************************************************************************)
HostSends == reads => tx = NoText

\* usb_receive; then usb_receive_complete, whatever usb_receive did.
ReceiveUnlocked ==
  /\ HostSends
  /\ IF usb_io_locked \/ tx # NoText THEN UNCHANGED text ELSE text' = "new"
  /\ slot' = TRUE
  /\ UNCHANGED <<usb_io_locked, tx, printf_buffer, pc, prints, reads>>

ReceiveLocksFirst ==
  /\ HostSends
  /\ usb_io_locked' = TRUE
  /\ IF usb_io_locked \/ tx # NoText THEN UNCHANGED text ELSE text' = "new"
  /\ slot' = TRUE
  /\ UNCHANGED <<tx, printf_buffer, pc, prints, reads>>

Receive == /\ HostSends
           /\ IF usb_io_locked \/ tx # NoText
                THEN UNCHANGED <<usb_io_locked, text>>
                ELSE usb_io_locked' = TRUE /\ text' = "new"
           /\ slot' = TRUE
           /\ UNCHANGED <<tx, printf_buffer, pc, prints, reads>>

\* The host has read the transfer (it never has to).
Transmitted == /\ tx # NoText
               /\ tx' = NoText
               /\ UNCHANGED <<usb_io_locked, text, slot, printf_buffer, pc, prints, reads>>

-----------------------------------------------------------------------------
(***************************************************************************)
(* usb_printf of a task: from "wait" back to the caller.                   *)
(***************************************************************************)
\* while ((cdc_transmit_is_busy()) && (!is_timeout_ms(&timeout_ms)));
PrintWaits(p) == /\ Go(p, "wait", "check")
                 /\ UNCHANGED <<usb_io_locked, text, slot, tx, printf_buffer, prints, reads>>

PrintChecks(p) == /\ Go(p, "check", IF tx = NoText THEN "format" ELSE Back(p))
                  /\ UNCHANGED <<usb_io_locked, text, slot, tx, printf_buffer, prints, reads>>

\* vsnprintf
PrintFormats(p) == /\ Go(p, "format", "send")
                   /\ printf_buffer' = <<p, prints>>
                   /\ UNCHANGED <<usb_io_locked, text, slot, tx, prints, reads>>

\* CDC_Transmit_FS: a transfer that is still running is an error.
PrintSends(p) == /\ Go(p, "send", Back(p))
                 /\ tx' = IF tx = NoText THEN printf_buffer ELSE tx
                 /\ UNCHANGED <<usb_io_locked, text, slot, printf_buffer, prints, reads>>

PrintStep(p) == PrintWaits(p) \/ PrintChecks(p) \/ PrintFormats(p) \/ PrintSends(p)

\* A callback or the error log prints.
Prints(p) == /\ p # "console"
             /\ Go(p, "idle", "wait")
             /\ UNCHANGED <<usb_io_locked, text, slot, tx, printf_buffer, prints, reads>>

-----------------------------------------------------------------------------
(***************************************************************************)
(* run_process_int_ext and usb_receive_complete_process.                   *)
(***************************************************************************)
\* The command reads text from here to its end.  A text of two bytes or less
\* and some commands print nothing.
RunFreesSlot == /\ slot
                /\ Go("console", "idle", "command")
                /\ text' = IF text = "new" THEN "run" ELSE text
                /\ prints' \in 0 .. MaxPrints
                /\ slot' = FALSE
                /\ UNCHANGED <<usb_io_locked, tx, printf_buffer, reads>>

RunProcess == /\ slot
              /\ Go("console", "idle", "command")
              /\ text' = IF text = "new" THEN "run" ELSE text
              /\ prints' \in 0 .. MaxPrints
              /\ UNCHANGED <<usb_io_locked, slot, tx, printf_buffer, reads>>

CommandPrints == /\ prints > 0
                 /\ Go("console", "command", "wait")
                 /\ prints' = prints - 1
                 /\ UNCHANGED <<usb_io_locked, text, slot, tx, printf_buffer, reads>>

(***************************************************************************)
(* usb_send_chunk, for the parts of the help text: a part that the host    *)
(* does not take in time ends it.                                          *)
(***************************************************************************)
CommandHelps == /\ Go("console", "command", "chunk_wait")
                /\ UNCHANGED <<usb_io_locked, text, slot, tx, printf_buffer, prints, reads>>

ChunkWaits == /\ Go("console", "chunk_wait", "chunk_check")
              /\ UNCHANGED <<usb_io_locked, text, slot, tx, printf_buffer, prints, reads>>

ChunkFails == /\ Go("console", "chunk_check", "finish")
              /\ UNCHANGED <<usb_io_locked, text, slot, tx, printf_buffer, prints, reads>>

ChunkChecks == /\ tx = NoText
               /\ Go("console", "chunk_check", IF prints = 0 THEN "finish" ELSE "chunk_send")
               /\ UNCHANGED <<usb_io_locked, text, slot, tx, printf_buffer, prints, reads>>

ChunkSends == /\ Go("console", "chunk_send", IF tx = NoText THEN "chunk_wait" ELSE "finish")
              /\ tx' = IF tx = NoText THEN HelpText ELSE tx
              /\ prints' = prints - 1
              /\ UNCHANGED <<usb_io_locked, text, slot, printf_buffer, reads>>

HelpStep == CommandHelps \/ ChunkWaits \/ ChunkFails \/ ChunkChecks \/ ChunkSends

CommandReturns == /\ prints = 0
                  /\ Go("console", "command", "finish")
                  /\ UNCHANGED <<usb_io_locked, text, slot, tx, printf_buffer, prints, reads>>

\* After while (!is_timeout_ms(&timeout_ms));
UnlockForgotten == /\ Go("console", "finish", "unlocked")
                   /\ UNCHANGED <<usb_io_locked, text, slot, tx, printf_buffer, prints, reads>>

Unlock == /\ Go("console", "finish", "unlocked")
          /\ usb_io_locked' = FALSE
          /\ UNCHANGED <<text, slot, tx, printf_buffer, prints, reads>>

FreeSlot == /\ Go("console", "unlocked", "idle")
            /\ slot' = FALSE
            /\ UNCHANGED <<usb_io_locked, text, tx, printf_buffer, prints, reads>>

Console == \/ RunProcess \/ CommandPrints \/ CommandReturns \/ Unlock \/ FreeSlot
           \/ PrintStep("console") \/ HelpStep

Others == \E p \in Callbacks \cup Logs : Prints(p) \/ PrintStep(p)

Next == Receive \/ Transmitted \/ Console \/ Others

Spec == Init /\ [][Next]_vars

(***************************************************************************)
(* processIntExt keeps running, and the host tries again for ever: as soon *)
(* as it has read what was sent, or without ever reading it.               *)
(***************************************************************************)
FairSpec == /\ Spec
            /\ WF_vars(Console)
            /\ SF_vars(Receive) /\ WF_vars(reads /\ Transmitted)

-----------------------------------------------------------------------------
(***************************************************************************)
(* Properties.                                                             *)
(***************************************************************************)
TypeOK == /\ usb_io_locked \in BOOLEAN /\ text \in {"none", "new", "run"}
          /\ reads \in BOOLEAN
          /\ slot \in BOOLEAN
          /\ tx \in Texts /\ printf_buffer \in Texts
          /\ pc \in [Printers -> PC] /\ prints \in 0 .. MaxPrints
          /\ \A p \in Printers \ {"console"} : pc[p] \in {"idle"} \cup InPrintf
          /\ pc["console"] # "idle" => slot

Running == pc["console"] \in {"command"} \cup InPrintf \cup InChunk

(***************************************************************************)
(* A host that reads what it was sent has a command started once for each  *)
(* packet that was accepted: a packet that is refused, or that comes       *)
(* between the unlock and the end of run_process_int_ext, does not run the *)
(* previous command again; nor does the text of a command change while it  *)
(* is read.                                                                *)
(***************************************************************************)
OncePerPacket ==
  [][reads => /\ pc["console"] = "idle" /\ Running' => text = "new"
              /\ Running => text' = text]_vars

(***************************************************************************)
(* A lock that no process will release guards a packet that has not been   *)
(* run, so that the process of the next packet, which is refused, runs it  *)
(* and releases the lock.                                                  *)
(***************************************************************************)
LockHasOwner == usb_io_locked => slot \/ text = "new"

(***************************************************************************)
(* A command ends even if the host never reads its answer, and the console *)
(* is never locked for good while the host tries again.                    *)
(***************************************************************************)
Reopens == /\ Running ~> pc["console"] = "idle"
           /\ usb_io_locked ~> ~ usb_io_locked

(***************************************************************************)
(* usb_printf: "Return USBD_OK if transmit was success, else error"        *)
(* (usb_io.c:55): the text it transmits when it returns USBD_OK is its own.*)
(***************************************************************************)
OkMeansSent == [][\A p \in Printers :
                    pc[p] = "send" /\ pc'[p] # "send" /\ tx = NoText => tx'[1] = p]_vars
=============================================================================
