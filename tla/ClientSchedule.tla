---------------------------- MODULE ClientSchedule ----------------------------
(***************************************************************************)
(* When a ClientApp sends its flows.  ParseTrace reads the trace lines of  *)
(* every container in file order and sets m_stopTime one minute past the   *)
(* latest timestamp of the whole trace; CalculateDestinations sorts each   *)
(* container's flows by timestamp (std::sort, not stable: flows with equal *)
(* timestamps may come out in any order); the ClientApp installed for the  *)
(* container starts at m_startTime 0 and ScheduleNext schedules each       *)
(* SendPacket after the difference of two consecutive timestamps; the      *)
(* application's Stop event, scheduled at set-up, cancels a pending send.  *)
(*                                                                         *)
(* A flow is its position in the container's trace lines, with its         *)
(* timestamp ts[i].  Times are in trace units; the one minute is the       *)
(* constant StopMargin, whose size matters only in being positive.         *)
(***************************************************************************)
EXTENDS Integers, Sequences

CONSTANT StopMargin

\* ParseTrace: m_stopTime = Max(m_stopTime, NanoSeconds(ts)) over every
\* line, plus Minutes(1).  others is the latest timestamp of the other
\* containers' lines.
StopTimeNoMargin(ts, others) ==
    LET all == {ts[i] : i \in DOMAIN ts} \cup {others}
    IN CHOOSE m \in all : \A x \in all : x <= m

StopTime(ts, others) == StopTimeNoMargin(ts, others) + StopMargin

\* Mutant: the flows are left in file order.
CalculateDestinationsNoSort(ts) == {[i \in DOMAIN ts |-> i]}

\* CalculateDestinations: the orders std::sort may leave the flows in, as
\* sequences of trace positions sorted by timestamp.
CalculateDestinations(ts) ==
    {o \in [DOMAIN ts -> DOMAIN ts] :
        /\ {o[i] : i \in DOMAIN o} = DOMAIN ts
        /\ \A i \in 1..Len(ts) - 1 : ts[o[i]] <= ts[o[i + 1]]}

\* Mutant: the delay of every flow is its timestamp, as for the first.
ScheduleNextAbsolute(t, idx) == t[idx]

\* ScheduleNext: the delay of SendPacket for flow m_currentIdx, with t the
\* sorted timestamps.  The uint64_t difference converted by NanoSeconds to
\* the signed Time is the signed difference of the two timestamps.
ScheduleNext(t, idx) == IF idx = 1 THEN t[1] ELSE t[idx] - t[idx - 1]

\* The SendPacket events of one ClientApp: StartApplication schedules the
\* first, each SendPacket schedules the next while flows remain.  An event
\* is [flow, delay, at]; one due at or after stop is cancelled by
\* StopApplication (the Stop event, inserted at set-up, runs first at equal
\* times) and schedules nothing more.
RECURSIVE SendEvents(_, _, _, _, _)
SendEvents(ts, o, stop, idx, now) ==
    IF idx > Len(o) THEN <<>>
    ELSE LET d == ScheduleNext([i \in DOMAIN o |-> ts[o[i]]], idx)
             e == [flow |-> o[idx], delay |-> d, at |-> now + d]
         IN IF e.at >= stop THEN <<[e EXCEPT !.flow = 0]>>
            ELSE <<e>> \o SendEvents(ts, o, stop, idx + 1, now + d)

\* Every run the set-up may produce for a container with timestamps ts.
ClientRuns(ts, others) ==
    {SendEvents(ts, o, StopTime(ts, others), 1, 0) : o \in CalculateDestinations(ts)}
=============================================================================
