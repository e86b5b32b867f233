------------------------------- MODULE Bluebird -------------------------------
(***************************************************************************)
(* The Bluebird mode of a LEAF P4SwitchApp (p4-switch-app.cc,              *)
(* BluebirdLogic, BluebirdTxStart, BluebirdTxComplete,                     *)
(* BluebirdProcessPacket, PopulateBluebirdCache): a gateway-bound packet   *)
(* that misses the LRU cache is sent over the PCIe link to the control     *)
(* plane, which resolves it from the directory after ControlPlaneLatency   *)
(* and programs the cache BluebirdProgrammingLatency later.  One packet is *)
(* in transmission at a time; the others wait in a drop-tail queue.        *)
(*                                                                         *)
(* Time is explicit, as in the ns-3 scheduler: events are records          *)
(* [t |-> time, n |-> insertion number, kind, arg], and the next event to  *)
(* run is the one with the least (t, n).  Packets arrive at the current    *)
(* time, between events; Tick lets time pass when nothing is due.          *)
(***************************************************************************)
EXTENDS Naturals, Sequences, Functions

CONSTANTS
    Pkts,           \* the gateway-bound data packets reaching the leaf
    Dst,            \* Dst[p]: the virtual destination of packet p
    Dir,            \* m_virtualToPhysical
    TxTime,         \* TxTime[p]: m_bps.CalculateBytesTxTime(p's size)
    CPDelay,        \* m_bluebirdDelay (ControlPlaneLatency)
    ProgDelay,      \* m_bluebirdProgrammingDelay
    CompleteGap,    \* the NanoSeconds(250) after which TxComplete runs
    QueueCap,       \* BluebirdQueueSize, counted in packets
    Capacity,       \* MemorySize of the LRU cache
    Horizon         \* bound on the time at which packets may still arrive

ASSUME /\ TxTime \in [Pkts -> Nat \ {0}]
       /\ {CPDelay, ProgDelay, CompleteGap} \subseteq Nat \ {0}
       /\ QueueCap \in Nat /\ Capacity \in Nat \ {0}

VARIABLES now, events, evNo, queue, busy, bb, st, slow, released,
          arrived   \* ghost: arrived[p] is the time p reached the leaf

vars == <<now, events, evNo, queue, busy, bb, st, slow, released, arrived>>

L == INSTANCE LRUCache

Init ==
    /\ now = 0 /\ events = {} /\ evNo = 0
    /\ queue = <<>> /\ busy = FALSE
    /\ bb = L!EmptyLRU
    /\ st = [p \in Pkts |-> "new"]
    /\ slow = <<>> /\ released = <<>>
    /\ arrived = [p \in Pkts |-> 0]

\* Simulator::Schedule at time at: the events scheduled by one handler, in
\* order, join the pending ones.
Schedule(pending, at, es) ==
    /\ events' = pending \cup
                 {[t |-> at + es[i][1], n |-> evNo + i, kind |-> es[i][2], arg |-> es[i][3]] :
                    i \in DOMAIN es}
    /\ evNo' = evNo + Len(es)

\* BluebirdTxStart(p): the link is busy; the packet is processed after its
\* transmission and the control-plane latency, and TxComplete runs 250ns
\* after the transmission.
TxStartEventsNoTxTime(p) ==
    <<<<CPDelay, "process", p>>, <<TxTime[p] + CompleteGap, "complete", p>>>>

TxStartEvents(p) ==
    <<<<TxTime[p] + CPDelay, "process", p>>, <<TxTime[p] + CompleteGap, "complete", p>>>>

-----------------------------------------------------------------------------
\* Mutant: the link is started whether or not it is busy.
ArriveNoBusyCheck(p) ==
    /\ st[p] = "new"
    /\ ~L!Find(bb, Dst[p]) /\ Len(queue) < QueueCap
    /\ LET q1 == Append(queue, p) IN
       /\ st' = [st EXCEPT ![p] = "queued", ![Head(q1)] = "tx"]
       /\ queue' = Tail(q1) /\ busy' = TRUE /\ Schedule(events, now, TxStartEvents(Head(q1)))
    /\ slow' = Append(slow, p) /\ arrived' = [arrived EXCEPT ![p] = now]
    /\ UNCHANGED <<now, bb, released>>

\* BluebirdLogic on a gateway-bound packet at time now: a hit rewrites the
\* destination and forwards; a miss enqueues the packet (or drops it when
\* the queue is full) and, when the link is idle, starts the transmission of
\* the packet it dequeues.
Arrive(p) ==
    LET k == Dst[p] IN
    /\ st[p] = "new"
    /\ \/ /\ L!Find(bb, k)
          /\ bb' = L!Get(bb, k) /\ st' = [st EXCEPT ![p] = "hit"]
          /\ UNCHANGED <<queue, busy, events, evNo, slow>>
       \/ /\ ~L!Find(bb, k) /\ Len(queue) >= QueueCap
          /\ st' = [st EXCEPT ![p] = "dropped"]
          /\ UNCHANGED <<queue, busy, events, evNo, slow, bb>>
       \/ /\ ~L!Find(bb, k) /\ Len(queue) < QueueCap
          /\ slow' = Append(slow, p) /\ UNCHANGED bb
          /\ LET q1 == Append(queue, p) IN
             IF busy
             THEN /\ queue' = q1 /\ st' = [st EXCEPT ![p] = "queued"]
                  /\ UNCHANGED <<busy, events, evNo>>
             ELSE /\ st' = [st EXCEPT ![p] = "queued", ![Head(q1)] = "tx"]
                  /\ queue' = Tail(q1) /\ busy' = TRUE
                  /\ Schedule(events, now, TxStartEvents(Head(q1)))
    /\ arrived' = [arrived EXCEPT ![p] = now]
    /\ UNCHANGED <<now, released>>

\* The event the scheduler runs next: least time, then least insertion.
NextEvent ==
    CHOOSE e \in events : \A f \in events : e.t < f.t \/ (e.t = f.t /\ e.n <= f.n)

\* BluebirdProcessPacket: the destination is resolved from the directory
\* and the packet re-injected (released); PopulateBluebirdCache is
\* scheduled after the programming delay.
Process(e) ==
    /\ e.kind = "process"
    /\ st' = [st EXCEPT ![e.arg] = "released"]
    /\ released' = Append(released, e.arg)
    /\ Schedule(events \ {e}, e.t, <<<<ProgDelay, "populate", Dst[e.arg]>>>>)
    /\ UNCHANGED <<queue, busy, bb, slow, arrived>>

\* PopulateBluebirdCache: Put(vdst, directory value) into the LRU cache.
Populate(e) ==
    /\ e.kind = "populate"
    /\ bb' = L!Put(bb, Capacity, e.arg, Dir[e.arg])
    /\ events' = events \ {e}
    /\ UNCHANGED <<queue, busy, st, slow, released, evNo, arrived>>

\* Mutant: the link goes idle without dequeuing the next packet.
TxCompleteNoDequeue(e) ==
    /\ e.kind = "complete"
    /\ busy' = FALSE /\ events' = events \ {e}
    /\ UNCHANGED <<queue, st, evNo, bb, slow, released, arrived>>

\* BluebirdTxComplete: the link goes idle and the next queued packet, if
\* any, starts its transmission.
TxComplete(e) ==
    /\ e.kind = "complete"
    /\ IF queue = <<>>
       THEN busy' = FALSE /\ events' = events \ {e} /\ UNCHANGED <<queue, st, evNo>>
       ELSE /\ busy' = TRUE /\ queue' = Tail(queue)
            /\ st' = [st EXCEPT ![Head(queue)] = "tx"]
            /\ Schedule(events \ {e}, e.t, TxStartEvents(Head(queue)))
    /\ UNCHANGED <<bb, slow, released, arrived>>

\* The scheduler runs the next event at its time.
RunEvent ==
    /\ events # {}
    /\ LET e == NextEvent IN
       /\ now' = e.t
       /\ Process(e) \/ Populate(e) \/ TxComplete(e)

\* Time passes while no event is due.
Tick ==
    /\ now < Horizon
    /\ \A e \in events : e.t > now
    /\ now' = now + 1
    /\ UNCHANGED <<events, evNo, queue, busy, bb, st, slow, released, arrived>>

Next == (\E p \in Pkts : Arrive(p)) \/ RunEvent \/ Tick

\* ns-3 runs every scheduled event.
Spec == Init /\ [][Next]_vars /\ WF_vars(RunEvent)

-----------------------------------------------------------------------------
\* Packets sent to the control plane are released in the order they were
\* queued: one transmission at a time (the busy flag) and the fixed
\* latency keep the PCIe link first-in first-out, whatever the sizes.
ReleasedInQueueOrder == released = SubSeq(slow, 1, Len(released))

\* No packet is released before its full control-plane round trip has
\* elapsed (spec, testable properties): BluebirdProcessPacket runs no
\* earlier than the packet's transmission time plus ControlPlaneLatency
\* after the packet reached the leaf, however long it waited in the queue.
ReleasedAfterRoundTrip ==
    [][\A p \in Pkts :
         st[p] # "released" /\ st'[p] = "released" =>
           now' >= arrived[p] + TxTime[p] + CPDelay]_vars

\* Every packet that entered the queue is eventually released: a
\* TxComplete that finds the queue non-empty restarts the link, so no packet
\* waits behind an idle link.
QueuedPacketsReleased ==
    \A p \in Pkts : st[p] = "queued" ~> st[p] = "released"
=============================================================================
