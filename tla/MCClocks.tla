------------------------------ MODULE MCClocks ------------------------------
(***************************************************************************)
(* The two clocks of the board, the SysTick counter of the timeouts and    *)
(* the RTC of the calendar.  They share nothing: each is explored while    *)
(* the other has not moved.                                                *)
(***************************************************************************)
EXTENDS SysTimeout, RtcCalendar

TimeoutsAtRest == VAL = 0 /\ val_cnt_current = 0 /\ timeout_ms = Timeout /\ gap = 0 /\ reloads = 0
CalendarAtRest == set = Nothing /\ half = Nothing /\ sd = Nothing

ClocksInit == TimeoutInit /\ RtcInit
ClocksNext == \/ CalendarAtRest /\ TimeoutNext /\ UNCHANGED rtcVars
              \/ TimeoutsAtRest /\ RtcNext /\ UNCHANGED timeoutVars
ClocksSpec == ClocksInit /\ [][ClocksNext]_<<timeoutVars, rtcVars>>
=============================================================================
