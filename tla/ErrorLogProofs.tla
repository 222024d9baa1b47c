--------------------------- MODULE ErrorLogProofs ---------------------------
(***************************************************************************)
(* The invariants of ErrorLog for every length of error_list and every     *)
(* number of reporters.                                                    *)
(***************************************************************************)
EXTENDS ErrorLog, SequenceTheorems, TLAPS

JobRecord == [ctx : Places, function : BOOLEAN, destroyer : BOOLEAN]

LEMMA PlaceFacts ==
  /\ Behind \in Places /\ 0 \in Places /\ Behind # 0
  /\ \A place \in Places : After(place) \in Places
BY ErrorLogAssumption DEF Places, Slots, Behind, After

(***************************************************************************)
(* What the queue does to the list of jobs.                                *)
(***************************************************************************)
LEMMA PutKeepsJobs ==
  ASSUME NEW place \in Places, error_queue \in Seq(JobRecord), ErrorQueue!Put(ErrorJob(place))
  PROVE  /\ error_queue' \in Seq(JobRecord)
         /\ Len(error_queue') = Len(error_queue) + 1
         /\ Len(error_queue) < MaxErrors
<1>1. ErrorJob(place) \in JobRecord
  BY DEF ErrorJob, JobRecord
<1> QED BY <1>1 DEF ErrorQueue!Put

LEMMA RunKeepsJobs ==
  ASSUME error_queue \in Seq(JobRecord), ErrorQueue!RunOldest
  PROVE  /\ error_queue' \in Seq(JobRecord)
         /\ Len(error_queue') = Len(error_queue)
<1>1. 1 \in 1 .. Len(error_queue) /\ error_queue[1] \in JobRecord
  BY DEF ErrorQueue!RunOldest
<1>2. [error_queue[1] EXCEPT !.function = FALSE] \in JobRecord
  BY <1>1 DEF JobRecord
<1>3. error_queue' = [error_queue EXCEPT ![1] = [error_queue[1] EXCEPT !.function = FALSE]]
  BY DEF ErrorQueue!RunOldest
<1> QED BY <1>1, <1>2, <1>3, ExceptSeq

LEMMA RetireKeepsJobs ==
  ASSUME error_queue \in Seq(JobRecord), ErrorQueue!Retire
  PROVE  /\ error_queue' \in Seq(JobRecord)
         /\ error_queue # <<>>
         /\ Len(error_queue') = Len(error_queue) - 1
BY HeadTailProperties DEF ErrorQueue!Retire

-----------------------------------------------------------------------------
(***************************************************************************)
(* The pointer is behind the list only while the reporter that put it      *)
(* there has not compared it yet: nobody else can tell.                    *)
(***************************************************************************)
PutsBehind(r) == report[r] = "wrap" /\ After(held[r]) = Behind
PointerInv == error_list_ptr = Behind => \E r \in Reporters : PutsBehind(r)

IInv == TypeOK /\ PointerInv /\ Len(reported) = Len(error_queue)

LEMMA InitInv == LogInit => IInv
<1> SUFFICES ASSUME LogInit PROVE IInv
  OBVIOUS
<1>1. error_queue \in Seq(JobRecord) /\ Len(error_queue) = 0 /\ reported \in Seq(Codes \cup {NoCode})
  BY DEF LogInit
<1>2. Len(error_queue) \in 0 .. MaxErrors /\ Len(reported) = Len(error_queue)
  BY <1>1, ErrorLogAssumption DEF LogInit
<1>3. /\ error_list \in [Places -> Codes \cup {NoCode}] /\ error_list_ptr \in Places
      /\ error \in [Reporters -> Codes \cup {NoCode}] /\ held \in [Reporters -> Places]
      /\ report \in [Reporters -> ReportPC]
  BY PlaceFacts DEF LogInit, ReportPC
<1>4. TypeOK
  BY <1>1, <1>2, <1>3 DEF LogInit, TypeOK, JobRecord, LogPC
<1> QED BY <1>2, <1>4, PlaceFacts DEF LogInit, IInv, PointerInv

LEMMA ReportKeepsInv ==
  ASSUME IInv, NEW r \in Reporters, NEW e \in Codes, Report(r, e)
  PROVE  IInv'
<1>1. TypeOK'
  BY DEF IInv, TypeOK, Report, GoReport, ReportPC, listVars
<1>2. PointerInv'
  BY DEF IInv, TypeOK, PointerInv, PutsBehind, Report, GoReport, listVars
<1> QED BY <1>1, <1>2 DEF IInv, Report

LEMMA WriteKeepsInv ==
  ASSUME IInv, NEW r \in Reporters, Write(r)
  PROVE  IInv'
<1>1. TypeOK'
  BY DEF IInv, TypeOK, Write, GoReport, ReportPC
<1>2. PointerInv'
  BY DEF IInv, TypeOK, PointerInv, PutsBehind, Write, GoReport
<1> QED BY <1>1, <1>2 DEF IInv, Write

LEMMA AcceptKeepsInv ==
  ASSUME IInv, NEW r \in Reporters, Accept(r)
  PROVE  IInv'
<1>1. PICK place \in Places : ErrorQueue!Put(ErrorJob(place))
  BY DEF IInv, TypeOK, Accept
<1>2. error_queue \in Seq(JobRecord)
  BY DEF IInv, TypeOK, JobRecord
<1>3. /\ error_queue' \in Seq(JobRecord)
      /\ Len(error_queue') = Len(error_queue) + 1
      /\ Len(error_queue) < MaxErrors
  BY <1>1, <1>2, PutKeepsJobs
<1>4. reported' \in Seq(Codes \cup {NoCode}) /\ Len(reported') = Len(reported) + 1
  BY AppendProperties DEF IInv, TypeOK, Accept
<1>5. report' \in [Reporters -> ReportPC] /\ error' \in [Reporters -> Codes \cup {NoCode}]
      /\ held' \in [Reporters -> Places]
  BY PlaceFacts DEF IInv, TypeOK, Accept, GoReport, ReportPC
<1>6. TypeOK'
  BY <1>3, <1>4, <1>5, ErrorLogAssumption DEF IInv, TypeOK, JobRecord, Accept, listVars
<1>7. PointerInv'
  BY DEF IInv, TypeOK, PointerInv, PutsBehind, Accept, GoReport, listVars
<1> QED BY <1>3, <1>4, <1>6, <1>7 DEF IInv

LEMMA RefuseKeepsInv ==
  ASSUME IInv, NEW r \in Reporters, Refuse(r)
  PROVE  IInv'
<1>1. TypeOK'
  BY PlaceFacts DEF IInv, TypeOK, Refuse, GoReport, ReportPC, listVars
<1>2. PointerInv'
  BY DEF IInv, TypeOK, PointerInv, PutsBehind, Refuse, GoReport, listVars
<1> QED BY <1>1, <1>2 DEF IInv, Refuse

LEMMA LoadKeepsInv ==
  ASSUME IInv, NEW r \in Reporters, Load(r)
  PROVE  IInv'
<1>1. TypeOK'
  BY DEF IInv, TypeOK, Load, GoReport, ReportPC, listVars
<1>2. PointerInv'
  BY DEF IInv, TypeOK, PointerInv, PutsBehind, Load, GoReport, listVars
<1> QED BY <1>1, <1>2 DEF IInv, Load

\* Who stores a pointer behind the list is the one that is going to wrap it.
LEMMA StoreKeepsInv ==
  ASSUME IInv, NEW r \in Reporters, Store(r)
  PROVE  IInv'
<1>1. TypeOK'
  BY PlaceFacts DEF IInv, TypeOK, Store, GoReport, ReportPC
<1>2. PointerInv'
  BY DEF IInv, TypeOK, PointerInv, PutsBehind, Store, GoReport
<1> QED BY <1>1, <1>2 DEF IInv, Store

\* Who leaves a pointer behind the list has not put it there.
LEMMA WrapKeepsInv ==
  ASSUME IInv, NEW r \in Reporters, Wrap(r)
  PROVE  IInv'
<1>1. TypeOK'
  BY PlaceFacts DEF IInv, TypeOK, Wrap, GoReport, ReportPC
<1>2. PointerInv'
  <2> SUFFICES ASSUME error_list_ptr' = Behind PROVE \E q \in Reporters : PutsBehind(q)'
    BY DEF PointerInv
  <2>1. error_list_ptr = Behind /\ After(held[r]) # Behind
    BY PlaceFacts DEF Wrap
  <2>2. PICK q \in Reporters : PutsBehind(q)
    BY <2>1 DEF IInv, PointerInv
  <2>3. q # r
    BY <2>1, <2>2 DEF PutsBehind
  <2> QED BY <2>2, <2>3 DEF IInv, TypeOK, PutsBehind, Wrap, GoReport
<1> QED BY <1>1, <1>2 DEF IInv, Wrap

LEMMA TurnKeepsInv ==
  ASSUME IInv, LogTurn \/ LogOn
  PROVE  IInv'
<1>1. UNCHANGED <<listVars, callVars, overlapped>>
  BY DEF LogTurn, LogOn, Look, PrintReturns, RetireError
<1>2. PointerInv'
  BY <1>1 DEF IInv, PointerInv, PutsBehind, listVars, callVars
<1>3. logging' \in LogPC
  BY DEF LogTurn, LogOn, Look, PrintReturns, RetireError, GoLog, LogPC
<1>4. error_queue \in Seq(JobRecord) /\ reported \in Seq(Codes \cup {NoCode})
      /\ Len(reported) = Len(error_queue) /\ Len(error_queue) \in 0 .. MaxErrors
  BY DEF IInv, TypeOK, JobRecord
<1>5. /\ error_queue' \in Seq(JobRecord) /\ reported' \in Seq(Codes \cup {NoCode})
      /\ Len(reported') = Len(error_queue') /\ Len(error_queue') \in 0 .. MaxErrors
  <2>1. CASE LogTurn \/ Look
    BY <1>4, <2>1 DEF LogTurn, Look
  <2>2. CASE PrintReturns
    BY <1>4, <2>2, RunKeepsJobs DEF PrintReturns
  <2>3. CASE RetireError
    <3>1. /\ error_queue' \in Seq(JobRecord) /\ error_queue # <<>>
          /\ Len(error_queue') = Len(error_queue) - 1
      BY <1>4, <2>3, RetireKeepsJobs DEF RetireError
    <3>2. Len(error_queue) \in Nat /\ Len(error_queue) # 0
      BY <1>4, <3>1, EmptySeq
    <3>3. reported # <<>> /\ reported' = Tail(reported)
      BY <1>4, <2>3, <3>2 DEF RetireError
    <3>4. reported' \in Seq(Codes \cup {NoCode}) /\ Len(reported') = Len(reported) - 1
      BY <1>4, <3>3, HeadTailProperties
    <3> QED BY <1>4, <3>1, <3>2, <3>4, ErrorLogAssumption
  <2> QED BY <2>1, <2>2, <2>3 DEF LogOn
<1>6. TypeOK'
  BY <1>1, <1>3, <1>5 DEF IInv, TypeOK, JobRecord, listVars, callVars
<1> QED BY <1>2, <1>5, <1>6 DEF IInv

LEMMA StepInv == IInv /\ [LogNext]_logVars => IInv'
<1> SUFFICES ASSUME IInv, [LogNext]_logVars PROVE IInv'
  OBVIOUS
<1>1. CASE UNCHANGED logVars
  BY <1>1 DEF logVars, listVars, callVars, IInv, TypeOK, PointerInv, PutsBehind
<1> QED BY <1>1, ReportKeepsInv, WriteKeepsInv, AcceptKeepsInv, RefuseKeepsInv, LoadKeepsInv, StoreKeepsInv,
           WrapKeepsInv, TurnKeepsInv DEF LogNext, ReportOn

LEMMA Invariance == LogSpec => []IInv
BY InitInv, StepInv, PTL DEF LogSpec

(***************************************************************************)
(* The pointer, the copies of it and the addresses in the queue lie in the *)
(* list or just behind it, whatever increments the tasks lose, and the     *)
(* queue never holds more jobs than the list has slots.                    *)
(***************************************************************************)
THEOREM TypeCorrect == LogSpec => []TypeOK
<1>1. IInv => TypeOK
  BY DEF IInv
<1> QED BY <1>1, Invariance, PTL

(***************************************************************************)
(* error_list_ptr never gets stuck behind the list: while it points there, *)
(* some reporter is about to set it back (errors.c:38).                    *)
(***************************************************************************)
THEOREM PointerComesBack == LogSpec => []PointerReturns
<1>1. IInv => PointerReturns
  BY DEF IInv, PointerInv, PutsBehind, PointerReturns
<1> QED BY <1>1, Invariance, PTL

-----------------------------------------------------------------------------
(***************************************************************************)
(* The log tells the truth.  While no reports overlap, the jobs lie in the *)
(* slots before the one that the next report will write, the youngest one  *)
(* directly before it; as there are never more jobs than slots, that slot  *)
(* is none of theirs, but for the oldest job of a full queue.              *)
(***************************************************************************)
\* The slot i places before slot f, and the one after it.
Before(f, i) == IF f >= i THEN f - i ELSE f - i + MaxErrors
Succ(f) == IF f + 1 = Behind THEN 0 ELSE f + 1

LEMMA BeforeFacts ==
  ASSUME NEW f \in Slots
  PROVE  /\ Succ(f) \in Slots
         /\ Before(Succ(f), 1) = f
         /\ \A i \in 1 .. MaxErrors : Before(f, i) \in Slots
         /\ \A i \in 1 .. MaxErrors - 1 : Before(Succ(f), i + 1) = Before(f, i) /\ Before(f, i) # f
BY ErrorLogAssumption DEF Slots, Behind, Before, Succ

\* The next slot to be written, once the pointer has been moved.
Moving == \E r \in Reporters : report[r] \in {"load", "store"}
Fresh == IF Moving THEN Succ(error_list_ptr)
         ELSE IF error_list_ptr = Behind THEN 0 ELSE error_list_ptr

JobsBefore(f, queue) == \A k \in 1 .. Len(queue) : queue[k].ctx = Before(f, Len(queue) - k + 1)
Truthful(list, queue, errors) ==
  \A k \in 1 .. Len(queue) : (k = 1 => Len(queue) < MaxErrors) => list[queue[k].ctx] = errors[k]

OneReport ==
  /\ \A q, r \in Reporters : report[q] # "idle" /\ report[r] # "idle" => q = r
  /\ \A r \in Reporters :
       /\ report[r] \in {"write", "queue", "store"} => held[r] = error_list_ptr
       /\ report[r] = "wrap" => held[r] \in Slots /\ error_list_ptr = After(held[r])
       /\ report[r] = "queue" => error_list[error_list_ptr] = error[r]
CalmInv == ~ overlapped => /\ OneReport
                           /\ JobsBefore(Fresh, error_queue)
                           /\ Truthful(error_list, error_queue, reported)

\* Without a reporter before its comparison the pointer is in the list.
LEMMA PointerInList ==
  ASSUME IInv, \A q \in Reporters : report[q] # "wrap"
  PROVE  error_list_ptr \in Slots
BY DEF IInv, TypeOK, PointerInv, PutsBehind, Places

LEMMA ReportKeepsCalm ==
  ASSUME IInv, CalmInv, NEW r \in Reporters, NEW e \in Codes, Report(r, e), ~ overlapped'
  PROVE  OneReport' /\ JobsBefore(Fresh, error_queue)' /\ Truthful(error_list, error_queue, reported)'
<1>1. /\ \A q \in Reporters : report[q] = "idle"
      /\ ~ overlapped \/ error_queue = <<>>
  BY DEF Report, GoReport
<1>2. /\ error_list_ptr' = error_list_ptr /\ error_queue' = error_queue /\ reported' = reported
      /\ error_list' = error_list
  BY DEF Report, listVars
<1>3. \A q \in Reporters : report'[q] = IF q = r THEN "write" ELSE "idle"
  BY <1>1 DEF Report, GoReport, IInv, TypeOK
<1>4. OneReport'
  BY <1>2, <1>3 DEF OneReport, Report, IInv, TypeOK
<1>5. Fresh' = Fresh
  BY <1>1, <1>2, <1>3 DEF Moving, Fresh
<1>6. CASE error_queue = <<>>
  <2>1. error_queue' = <<>> /\ 1 .. Len(<<>>) = {}
    BY <1>2, <1>6
  <2> QED BY <1>4, <2>1 DEF JobsBefore, Truthful
<1>7. CASE ~ overlapped
  BY <1>2, <1>4, <1>5, <1>7 DEF CalmInv, JobsBefore, Truthful
<1> QED BY <1>1, <1>6, <1>7

\* The slot that is written is none of the jobs', but for that of the oldest
\* job of a full queue.
LEMMA WriteKeepsCalm ==
  ASSUME IInv, CalmInv, NEW r \in Reporters, Write(r), ~ overlapped'
  PROVE  OneReport' /\ JobsBefore(Fresh, error_queue)' /\ Truthful(error_list, error_queue, reported)'
<1>1. /\ ~ overlapped /\ report[r] = "write"
      /\ error_list_ptr' = error_list_ptr /\ error_queue' = error_queue /\ reported' = reported
  BY DEF Write, GoReport
<1>2. OneReport /\ JobsBefore(Fresh, error_queue) /\ Truthful(error_list, error_queue, reported)
  BY <1>1 DEF CalmInv
<1>3. /\ \A q \in Reporters \ {r} : report[q] = "idle"
      /\ held[r] = error_list_ptr
  BY <1>1, <1>2 DEF OneReport
<1>4. /\ error_list_ptr \in Slots
      /\ error_list' = [error_list EXCEPT ![error_list_ptr] = error[r]]
  BY <1>1, <1>3, PointerInList DEF Write
<1>5. \A q \in Reporters : report'[q] = IF q = r THEN "queue" ELSE "idle"
  BY <1>3 DEF Write, GoReport, IInv, TypeOK
<1>6. OneReport'
  BY <1>1, <1>3, <1>4, <1>5 DEF OneReport, Write, IInv, TypeOK, Places
<1>7. Fresh = error_list_ptr /\ Fresh' = error_list_ptr
  <2>1. ~ Moving /\ ~ Moving' /\ error_list_ptr # Behind
    BY <1>1, <1>3, <1>4, <1>5, ErrorLogAssumption DEF Moving, Slots, Behind
  <2> QED BY <1>1, <2>1 DEF Fresh
<1>8. JobsBefore(Fresh, error_queue)'
  BY <1>1, <1>2, <1>7 DEF JobsBefore
<1>9. Truthful(error_list, error_queue, reported)'
  <2> SUFFICES ASSUME NEW k \in 1 .. Len(error_queue), k = 1 => Len(error_queue) < MaxErrors
               PROVE  error_list'[error_queue[k].ctx] = reported[k]
    BY <1>1 DEF Truthful
  <2>1. Len(error_queue) \in 0 .. MaxErrors
    BY DEF IInv, TypeOK
  <2>2. Len(error_queue) - k + 1 \in 1 .. MaxErrors - 1
    BY <2>1, ErrorLogAssumption
  <2>3. error_queue[k].ctx # error_list_ptr
    <3>1. error_queue[k].ctx = Before(error_list_ptr, Len(error_queue) - k + 1)
      BY <1>2, <1>7 DEF JobsBefore
    <3>2. Before(error_list_ptr, Len(error_queue) - k + 1) # error_list_ptr
      BY <1>4, <2>2, BeforeFacts
    <3> QED BY <3>1, <3>2
  <2>4. error_list[error_queue[k].ctx] = reported[k]
    BY <1>2 DEF Truthful
  <2> QED BY <1>4, <2>3, <2>4 DEF IInv, TypeOK
<1> QED BY <1>6, <1>8, <1>9

LEMMA AcceptKeepsCalm ==
  ASSUME IInv, CalmInv, NEW r \in Reporters, Accept(r), ~ overlapped'
  PROVE  OneReport' /\ JobsBefore(Fresh, error_queue)' /\ Truthful(error_list, error_queue, reported)'
<1>1. /\ ~ overlapped /\ report[r] = "queue"
      /\ error_list' = error_list /\ error_list_ptr' = error_list_ptr
      /\ reported' = Append(reported, error[r])
  BY DEF Accept, GoReport, listVars
<1>2. /\ OneReport /\ JobsBefore(Fresh, error_queue)
      /\ Truthful(error_list, error_queue, reported)
  BY <1>1 DEF CalmInv
<1>3. /\ \A q \in Reporters \ {r} : report[q] = "idle"
      /\ held[r] = error_list_ptr /\ error_list[error_list_ptr] = error[r]
  BY <1>1, <1>2 DEF OneReport
<1>4. error_list_ptr \in Slots
  BY <1>1, <1>3, PointerInList
<1>5. \A q \in Reporters : report'[q] = IF q = r THEN "load" ELSE "idle"
  BY <1>3 DEF Accept, GoReport, IInv, TypeOK
<1>6. OneReport'
  BY <1>5 DEF OneReport
<1>7. Fresh = error_list_ptr /\ Fresh' = Succ(error_list_ptr)
  <2>1. ~ Moving /\ Moving' /\ error_list_ptr # Behind
    BY <1>1, <1>3, <1>4, <1>5, ErrorLogAssumption DEF Moving, Slots, Behind
  <2> QED BY <1>1, <2>1 DEF Fresh
<1>8. /\ error_queue \in Seq(JobRecord) /\ reported \in Seq(Codes \cup {NoCode})
      /\ Len(reported) = Len(error_queue)
  BY DEF IInv, TypeOK, JobRecord
<1>9. Len(error_queue) < MaxErrors /\ error_queue' = Append(error_queue, ErrorJob(error_list_ptr))
  BY <1>3 DEF Accept, ErrorQueue!Put
<1>10. ErrorJob(error_list_ptr) \in JobRecord /\ ErrorJob(error_list_ptr).ctx = error_list_ptr
  BY <1>4 DEF ErrorJob, JobRecord, Places
<1> DEFINE n == Len(error_queue)
<1>11. /\ n \in Nat /\ Len(error_queue') = n + 1
       /\ error_queue'[n + 1] = ErrorJob(error_list_ptr)
       /\ \A k \in 1 .. n : error_queue'[k] = error_queue[k]
  BY <1>8, <1>9, <1>10
<1>12. reported'[n + 1] = error[r] /\ \A k \in 1 .. n : reported'[k] = reported[k]
  <2>1. error[r] \in Codes \cup {NoCode}
    BY DEF IInv, TypeOK
  <2> QED BY <1>1, <1>8, <2>1
<1>13. \A k \in 1 .. n : error_queue[k].ctx = Before(error_list_ptr, n - k + 1)
  BY <1>2, <1>7 DEF JobsBefore
<1>14. JobsBefore(Fresh, error_queue)'
  <2> SUFFICES ASSUME NEW k \in 1 .. n + 1
               PROVE  error_queue'[k].ctx = Before(Succ(error_list_ptr), n + 1 - k + 1)
    BY <1>7, <1>11 DEF JobsBefore
  <2>1. CASE k = n + 1
    <3>1. n + 1 - k + 1 = 1
      BY <1>11, <2>1
    <3> QED BY <1>4, <1>10, <1>11, <2>1, <3>1, BeforeFacts
  <2>2. CASE k # n + 1
    <3>1. k \in 1 .. n /\ n - k + 1 \in 1 .. MaxErrors - 1 /\ n + 1 - k + 1 = (n - k + 1) + 1
      BY <1>9, <1>11, <2>2, ErrorLogAssumption
    <3>2. Before(Succ(error_list_ptr), (n - k + 1) + 1) = Before(error_list_ptr, n - k + 1)
      BY <1>4, <3>1, BeforeFacts
    <3> QED BY <1>11, <1>13, <3>1, <3>2
  <2> QED BY <2>1, <2>2
<1>15. Truthful(error_list, error_queue, reported)'
  <2> SUFFICES ASSUME NEW k \in 1 .. n + 1
               PROVE  error_list[error_queue'[k].ctx] = reported'[k]
    BY <1>1, <1>11 DEF Truthful
  <2>1. CASE k = n + 1
    BY <1>3, <1>10, <1>11, <1>12, <2>1
  <2>2. CASE k # n + 1
    <3>1. k \in 1 .. n
      BY <1>11, <2>2
    <3> QED BY <1>2, <1>9, <1>11, <1>12, <3>1 DEF Truthful
  <2> QED BY <2>1, <2>2
<1> QED BY <1>6, <1>14, <1>15

\* The steps that change neither the list nor the queue: the slot to be
\* written next stays the same while the pointer is moved on.
LEMMA MovesKeepCalm ==
  ASSUME IInv, CalmInv, NEW r \in Reporters, Refuse(r) \/ Load(r) \/ Store(r) \/ Wrap(r),
         ~ overlapped'
  PROVE  OneReport' /\ JobsBefore(Fresh, error_queue)' /\ Truthful(error_list, error_queue, reported)'
<1>1. /\ ~ overlapped /\ report[r] \in {"queue", "load", "store", "wrap"}
      /\ error_list' = error_list /\ error_queue' = error_queue /\ reported' = reported
  BY DEF Refuse, Load, Store, Wrap, GoReport, listVars
<1>2. /\ OneReport /\ JobsBefore(Fresh, error_queue)
      /\ Truthful(error_list, error_queue, reported)
  BY <1>1 DEF CalmInv
<1>3. \A q \in Reporters \ {r} : report[q] = "idle" /\ report'[q] = "idle"
  BY <1>1, <1>2 DEF OneReport, Refuse, Load, Store, Wrap, GoReport, IInv, TypeOK
<1>4. report[r] # "wrap" => error_list_ptr \in Slots
  BY <1>3, PointerInList
<1>5. OneReport' /\ Fresh' = Fresh
  <2>1. CASE Refuse(r)
    <3>1. /\ error_list_ptr' = error_list_ptr /\ report[r] = "queue" /\ report'[r] = "idle"
      BY <2>1 DEF Refuse, GoReport, listVars, IInv, TypeOK
    <3> QED BY <1>3, <3>1 DEF OneReport, Fresh, Moving
  <2>2. CASE Load(r)
    <3>1. /\ error_list_ptr' = error_list_ptr /\ report[r] = "load" /\ report'[r] = "store"
          /\ held'[r] = error_list_ptr
      BY <2>2 DEF Load, GoReport, listVars, IInv, TypeOK
    <3> QED BY <1>3, <3>1 DEF OneReport, Fresh, Moving
  <2>3. CASE Store(r)
    <3>1. /\ report[r] = "store" /\ report'[r] = "wrap" /\ held' = held
          /\ held[r] = error_list_ptr /\ error_list_ptr' = After(held[r])
      BY <1>2, <2>3 DEF Store, GoReport, IInv, TypeOK, OneReport
    <3>2. OneReport'
      BY <1>3, <1>4, <3>1 DEF OneReport
    <3>3. After(error_list_ptr) = error_list_ptr + 1
      BY <1>4, <3>1, ErrorLogAssumption DEF After, Slots, Behind
    <3>4. Moving /\ ~ Moving'
      BY <1>3, <3>1 DEF Moving
    <3> QED BY <3>1, <3>2, <3>3, <3>4 DEF Fresh, Succ
  <2>4. CASE Wrap(r)
    <3>1. /\ report[r] = "wrap" /\ report'[r] = "idle" /\ error_list_ptr = After(held[r])
      BY <1>2, <2>4 DEF Wrap, GoReport, IInv, TypeOK, OneReport
    <3>2. error_list_ptr' = IF error_list_ptr = Behind THEN 0 ELSE error_list_ptr
      BY <2>4, <3>1 DEF Wrap
    <3>3. ~ Moving /\ ~ Moving'
      BY <1>3, <3>1 DEF Moving
    <3> QED BY <1>3, <3>1, <3>2, <3>3, PlaceFacts DEF OneReport, Fresh
  <2> QED BY <2>1, <2>2, <2>3, <2>4
<1> QED BY <1>1, <1>2, <1>5 DEF JobsBefore, Truthful

LEMMA TurnKeepsCalm ==
  ASSUME IInv, CalmInv, LogTurn \/ LogOn, ~ overlapped'
  PROVE  OneReport' /\ JobsBefore(Fresh, error_queue)' /\ Truthful(error_list, error_queue, reported)'
<1>1. UNCHANGED <<listVars, callVars>> /\ ~ overlapped
  BY DEF LogTurn, LogOn, Look, PrintReturns, RetireError
<1>2. OneReport' /\ Fresh' = Fresh /\ error_list' = error_list
  BY <1>1 DEF CalmInv, OneReport, Fresh, Moving, listVars, callVars
<1>3. JobsBefore(Fresh, error_queue) /\ Truthful(error_list, error_queue, reported)
  BY <1>1 DEF CalmInv
<1>4. error_queue \in Seq(JobRecord) /\ reported \in Seq(Codes \cup {NoCode})
      /\ Len(reported) = Len(error_queue) /\ Len(error_queue) \in 0 .. MaxErrors
  BY DEF IInv, TypeOK, JobRecord
<1> DEFINE n == Len(error_queue)
<1>5. CASE LogTurn \/ Look
  BY <1>2, <1>3, <1>5 DEF LogTurn, Look, JobsBefore, Truthful
<1>6. CASE PrintReturns
  <2>1. Len(error_queue') = n /\ reported' = reported
    BY <1>4, <1>6, RunKeepsJobs DEF PrintReturns
  <2>2. \A k \in 1 .. n : error_queue'[k].ctx = error_queue[k].ctx
    BY <1>4, <1>6 DEF PrintReturns, ErrorQueue!RunOldest, JobRecord
  <2> QED BY <1>2, <1>3, <2>1, <2>2 DEF JobsBefore, Truthful
<1>7. CASE RetireError
  <2>1. error_queue # <<>> /\ error_queue' = Tail(error_queue) /\ reported' = Tail(reported)
    BY <1>7 DEF RetireError, ErrorQueue!Retire
  <2>2. n \in Nat /\ n # 0 /\ n <= MaxErrors
    BY <1>4, <2>1, EmptySeq, ErrorLogAssumption
  <2>3. Len(error_queue') = n - 1 /\ \A k \in 1 .. n - 1 : error_queue'[k] = error_queue[k + 1]
    BY <1>4, <2>1, HeadTailProperties
  <2>4. \A k \in 1 .. n - 1 : reported'[k] = reported[k + 1]
    BY <1>4, <2>1, <2>2, HeadTailProperties, EmptySeq
  <2>5. JobsBefore(Fresh, error_queue)'
    <3> SUFFICES ASSUME NEW k \in 1 .. n - 1
                 PROVE  error_queue[k + 1].ctx = Before(Fresh, n - 1 - k + 1)
      BY <1>2, <2>3 DEF JobsBefore
    <3>1. k + 1 \in 1 .. n /\ n - (k + 1) + 1 = n - 1 - k + 1
      BY <2>2
    <3> QED BY <1>3, <3>1 DEF JobsBefore
  <2>6. Truthful(error_list, error_queue, reported)'
    <3> SUFFICES ASSUME NEW k \in 1 .. n - 1
                 PROVE  error_list[error_queue[k + 1].ctx] = reported[k + 1]
      BY <1>2, <2>3, <2>4 DEF Truthful
    <3>1. k + 1 \in 1 .. n /\ k + 1 # 1
      BY <2>2
    <3> QED BY <1>3, <3>1 DEF Truthful
  <2> QED BY <1>2, <2>5, <2>6
<1> QED BY <1>5, <1>6, <1>7 DEF LogOn

LEMMA StepCalm == IInv /\ CalmInv /\ [LogNext]_logVars => CalmInv'
<1> SUFFICES ASSUME IInv, CalmInv, [LogNext]_logVars, ~ overlapped'
             PROVE  /\ OneReport' /\ JobsBefore(Fresh, error_queue)'
                    /\ Truthful(error_list, error_queue, reported)'
  BY DEF CalmInv
<1>1. CASE UNCHANGED logVars
  BY <1>1 DEF logVars, listVars, callVars, CalmInv, OneReport, Fresh, Moving, JobsBefore, Truthful
<1> QED BY <1>1, ReportKeepsCalm, WriteKeepsCalm, AcceptKeepsCalm, MovesKeepCalm, TurnKeepsCalm
        DEF LogNext, ReportOn

(***************************************************************************)
(* As long as no reports overlap, every pending error is printed as it was *)
(* reported, but for the oldest one of a full queue (errors.c:34), for     *)
(* every length of the list and every number of reporters.                 *)
(***************************************************************************)
THEOREM TruthfulLog == LogSpec => []PrintedAsReported
<1>1. LogInit => CalmInv
  BY DEF LogInit, CalmInv, OneReport, JobsBefore, Truthful
<1>2. CalmInv => PrintedAsReported
  BY DEF CalmInv, Truthful, PrintedAsReported
<1> QED BY <1>1, <1>2, StepCalm, Invariance, PTL DEF LogSpec
=============================================================================
