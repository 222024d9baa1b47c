------------------------------ MODULE UsbProofs ------------------------------
(***************************************************************************)
(* The invariants of UsbConsole for any number of tasks that print and any *)
(* number of prints of a command.                                          *)
(***************************************************************************)
EXTENDS UsbConsole, TLAPS

\* Outside of a command the lock guards a packet that has not been run.
Resting == pc["console"] \in {"idle", "unlocked"}
RestInv == Resting /\ usb_io_locked => text = "new"

\* With a host that reads, it guards nothing else, and the slot is filled only
\* with a packet; in a command it guards the packet that runs.
ReadsInv == reads => IF Resting THEN /\ text = "new" => usb_io_locked
                                     /\ pc["console"] = "idle" /\ slot => text = "new"
                     ELSE usb_io_locked /\ text = "run"

\* A part of the help text is only sent while there is one.
PartInv == pc["console"] = "chunk_send" => prints # 0

IInv == TypeOK /\ PartInv /\ RestInv /\ LockHasOwner /\ ReadsInv

LEMMA TextFacts ==
  /\ NoText \in Texts /\ HelpText \in Texts
  /\ \A p \in Printers, n \in 0 .. MaxPrints : <<p, n>> \in Texts
  /\ "console" \in Printers
  /\ \A p \in Callbacks \cup Logs : p \in Printers /\ p # "console"
BY UsbAssumption DEF Texts, Printers

LEMMA InitInv == Init => IInv
<1> SUFFICES ASSUME Init PROVE IInv
  OBVIOUS
<1>1. prints \in 0 .. MaxPrints
  BY UsbAssumption DEF Init
<1>2. TypeOK
  BY <1>1, TextFacts DEF Init, TypeOK, PC
<1>3. PartInv /\ RestInv /\ LockHasOwner /\ ReadsInv
  BY TextFacts DEF Init, PartInv, RestInv, LockHasOwner, ReadsInv, Resting
<1> QED BY <1>2, <1>3 DEF IInv

\* The interrupt takes the lock only with a packet, and fills the slot.
LEMMA InterruptKeepsInv == IInv /\ (Receive \/ Transmitted) => IInv'
<1>1. ASSUME IInv, Receive PROVE IInv'
  <2>1. TypeOK'
    BY <1>1 DEF IInv, TypeOK, Receive
  <2>2. PartInv' /\ RestInv' /\ LockHasOwner' /\ ReadsInv'
    BY <1>1 DEF IInv, TypeOK, PartInv, RestInv, LockHasOwner, ReadsInv, Resting, Receive, HostSends
  <2> QED BY <2>1, <2>2 DEF IInv
<1>2. ASSUME IInv, Transmitted PROVE IInv'
  BY <1>2, TextFacts DEF IInv, TypeOK, PartInv, RestInv, LockHasOwner, ReadsInv, Resting, Transmitted
<1> QED BY <1>1, <1>2

\* A print changes neither the lock nor the packet nor the slot.
LEMMA PrintKeepsInv ==
  ASSUME IInv, NEW p \in Printers, PrintStep(p) \/ (p # "console" /\ Prints(p))
  PROVE  IInv'
<1> DEFINE Inside == {"idle", "command"} \cup InPrintf
<1>1. PICK to \in Inside : /\ pc' = [pc EXCEPT ![p] = to]
                           /\ p # "console" => to # "command"
                           /\ p = "console" => to # "idle"
                           /\ p = "console" => pc[p] \in InPrintf
  BY DEF PrintStep, PrintWaits, PrintChecks, PrintFormats, PrintSends, Prints, Go, Back, InPrintf
<1>2. UNCHANGED <<usb_io_locked, text, slot, prints, reads>>
  BY DEF PrintStep, PrintWaits, PrintChecks, PrintFormats, PrintSends, Prints
<1>3. tx' \in Texts /\ printf_buffer' \in Texts
  BY TextFacts DEF IInv, TypeOK, PrintStep, PrintWaits, PrintChecks, PrintFormats, PrintSends, Prints
<1>4. /\ pc' \in [Printers -> PC]
      /\ pc'["console"] # "idle" => slot
  BY <1>1, TextFacts DEF IInv, TypeOK, PC, InPrintf
<1>5. \A q \in Printers \ {"console"} : pc'[q] \in {"idle"} \cup InPrintf
  BY <1>1, TextFacts DEF IInv, TypeOK
<1>6. TypeOK'
  BY <1>2, <1>3, <1>4, <1>5 DEF IInv, TypeOK
<1>7. Resting' <=> Resting
  BY <1>1, TextFacts DEF IInv, TypeOK, Resting, InPrintf
<1>8. pc'["console"] = "idle" <=> pc["console"] = "idle"
  BY <1>1, TextFacts DEF IInv, TypeOK, InPrintf
<1>9. PartInv'
  BY <1>1, <1>2, TextFacts DEF IInv, TypeOK, PartInv, InPrintf
<1> QED BY <1>2, <1>6, <1>7, <1>8, <1>9 DEF IInv, RestInv, LockHasOwner, ReadsInv

LEMMA HelpKeepsInv == IInv /\ HelpStep => IInv'
<1> SUFFICES ASSUME IInv, HelpStep PROVE IInv'
  OBVIOUS
<1>1. PICK to \in InChunk \cup {"finish"} : /\ pc' = [pc EXCEPT !["console"] = to]
                                            /\ pc["console"] \in {"command"} \cup InChunk
  BY DEF HelpStep, CommandHelps, ChunkWaits, ChunkFails, ChunkChecks, ChunkSends, Go, InChunk
<1>2. UNCHANGED <<usb_io_locked, text, slot, printf_buffer, reads>>
  BY DEF HelpStep, CommandHelps, ChunkWaits, ChunkFails, ChunkChecks, ChunkSends
<1>3. tx' \in Texts
  BY TextFacts DEF IInv, TypeOK, HelpStep, CommandHelps, ChunkWaits, ChunkFails, ChunkChecks,
                   ChunkSends
<1>4. prints' \in 0 .. MaxPrints
  BY UsbAssumption DEF IInv, TypeOK, PartInv, HelpStep, CommandHelps, ChunkWaits, ChunkFails,
                       ChunkChecks, ChunkSends, Go
<1>5. PartInv'
  BY TextFacts DEF IInv, TypeOK, PartInv, HelpStep, CommandHelps, ChunkWaits, ChunkFails,
                   ChunkChecks, ChunkSends, Go
<1>6. TypeOK'
  BY <1>1, <1>2, <1>3, <1>4, TextFacts DEF IInv, TypeOK, PC, InChunk
<1>7. RestInv' /\ LockHasOwner' /\ ReadsInv'
  BY <1>1, <1>2, TextFacts DEF IInv, TypeOK, RestInv, LockHasOwner, ReadsInv, Resting, InChunk
<1> QED BY <1>5, <1>6, <1>7 DEF IInv

LEMMA ConsoleKeepsInv == IInv /\ Console => IInv'
<1> SUFFICES ASSUME IInv, Console PROVE IInv'
  OBVIOUS
<1> USE TextFacts
<1>1. CASE RunProcess
  <2>1. TypeOK'
    BY <1>1 DEF IInv, TypeOK, RunProcess, Go, PC
  <2>2. PartInv' /\ RestInv' /\ LockHasOwner' /\ ReadsInv'
    BY <1>1 DEF IInv, TypeOK, PartInv, RestInv, LockHasOwner, ReadsInv, Resting, RunProcess, Go
  <2> QED BY <2>1, <2>2 DEF IInv
<1>2. CASE CommandPrints \/ CommandReturns
  <2>1. TypeOK'
    BY <1>2, UsbAssumption DEF IInv, TypeOK, CommandPrints, CommandReturns, Go, PC, InPrintf
  <2>2. PartInv' /\ RestInv' /\ LockHasOwner' /\ ReadsInv'
    BY <1>2 DEF IInv, TypeOK, PartInv, RestInv, LockHasOwner, ReadsInv, Resting, CommandPrints,
                CommandReturns, Go
  <2> QED BY <2>1, <2>2 DEF IInv
<1>3. CASE Unlock
  <2>1. TypeOK'
    BY <1>3 DEF IInv, TypeOK, Unlock, Go, PC
  <2>2. PartInv' /\ RestInv' /\ LockHasOwner' /\ ReadsInv'
    BY <1>3 DEF IInv, TypeOK, PartInv, RestInv, LockHasOwner, ReadsInv, Resting, Unlock, Go
  <2> QED BY <2>1, <2>2 DEF IInv
<1>4. CASE FreeSlot
  <2>1. TypeOK'
    BY <1>4 DEF IInv, TypeOK, FreeSlot, Go, PC
  <2>2. PartInv' /\ RestInv' /\ LockHasOwner' /\ ReadsInv'
    BY <1>4 DEF IInv, TypeOK, PartInv, RestInv, LockHasOwner, ReadsInv, Resting, FreeSlot, Go
  <2> QED BY <2>1, <2>2 DEF IInv
<1> QED BY <1>1, <1>2, <1>3, <1>4, PrintKeepsInv, HelpKeepsInv DEF Console

LEMMA StepInv == IInv /\ [Next]_vars => IInv'
<1> SUFFICES ASSUME IInv, [Next]_vars PROVE IInv'
  OBVIOUS
<1>1. CASE UNCHANGED vars
  BY <1>1 DEF vars, IInv, TypeOK, PartInv, RestInv, LockHasOwner, ReadsInv, Resting
<1>2. CASE Others
  BY <1>2, TextFacts, PrintKeepsInv DEF Others
<1> QED BY <1>1, <1>2, InterruptKeepsInv, ConsoleKeepsInv DEF Next

LEMMA Invariance == Spec => []IInv
BY InitInv, StepInv, PTL DEF Spec

(***************************************************************************)
(* Wherever the tasks are, a command is under way only with the slot set,  *)
(* and nobody but the console is outside of usb_printf while it is in use. *)
(***************************************************************************)
THEOREM TypeCorrect == Spec => []TypeOK
<1>1. IInv => TypeOK
  BY DEF IInv
<1> QED BY <1>1, Invariance, PTL

(***************************************************************************)
(* The receive lock always has someone who will give it back: a process in *)
(* the slot, or a packet that the next process runs.                       *)
(***************************************************************************)
THEOREM LockReleased == Spec => []LockHasOwner
<1>1. IInv => LockHasOwner
  BY DEF IInv
<1> QED BY <1>1, Invariance, PTL

(***************************************************************************)
(* With a host that reads what it was sent, a command starts only for a    *)
(* packet that has not been run, and its text does not change while it is  *)
(* read.                                                                   *)
(***************************************************************************)
Once == reads => /\ pc["console"] = "idle" /\ Running' => text = "new"
                 /\ Running => text' = text

THEOREM RunOnce == Spec => OncePerPacket
<1>1. IInv /\ [Next]_vars => [Once]_vars
  <2> SUFFICES ASSUME IInv, Next, reads PROVE Once
    BY DEF Once
  <2>1. Running => ~ Resting
    BY DEF Running, Resting, InPrintf, InChunk
  <2>2. CASE Receive
    <3>1. pc' = pc
      BY <2>2 DEF Receive
    <3>2. Running => usb_io_locked
      BY <2>1 DEF IInv, ReadsInv
    <3> QED BY <2>1, <2>2, <3>1, <3>2 DEF Receive, Once, Running, Resting
  <2>3. CASE RunProcess
    <3>1. pc["console"] = "idle" /\ slot /\ ~ Running
      BY <2>3 DEF RunProcess, Go, Running, InPrintf, InChunk
    <3> QED BY <3>1 DEF IInv, ReadsInv, Resting, Once
  <2>4. CASE Console /\ ~ RunProcess
    <3>1. text' = text /\ pc["console"] # "idle"
      BY <2>4 DEF Console, CommandPrints, CommandReturns, Unlock, FreeSlot, HelpStep, CommandHelps,
                  ChunkWaits, ChunkFails, ChunkChecks, ChunkSends, PrintStep, PrintWaits,
                  PrintChecks, PrintFormats, PrintSends, Go
    <3> QED BY <3>1 DEF Once
  <2>5. CASE Transmitted \/ Others
    <3>1. text' = text /\ pc'["console"] = pc["console"]
      BY <2>5, TextFacts DEF Transmitted, Others, Prints, PrintStep, PrintWaits, PrintChecks,
                             PrintFormats, PrintSends, Go, IInv, TypeOK
    <3> QED BY <2>1, <3>1 DEF Once, Running, Resting
  <2> QED BY <2>2, <2>3, <2>4, <2>5 DEF Next
<1> QED BY <1>1, Invariance, PTL DEF Spec, OncePerPacket, Once
=============================================================================
