---------------------------- MODULE MCOledPrint -----------------------------
(* Instances of OledPrint for TLC. *)
EXTENDS OledPrint

CONSTANTS date, led, queue_task, b1, b2, b3

\* date: print_text, in the task of process_int_int above the queue task;
\* led: the test code of led_blink, below it.
MCPrio == [t \in {date, led, queue_task} |->
             CASE t = date -> 5 [] t = queue_task -> 3 [] OTHER -> 1]
=============================================================================
