------------------------------- MODULE NTimer -------------------------------
(***************************************************************************)
(* ntimer (kernel/src/timing.cpp): a queue of timed events and the host    *)
(* thread that runs their callbacks.                                       *)
(*                                                                         *)
(* Two host mutexes are involved.  lock_ guards events_: advance holds it  *)
(* except while a callback runs, so a scan, a schedule_event and an        *)
(* unschedule_event are one step each.  new_event_avail_lock_ is taken by  *)
(* the timer thread alone; a notifier does not take it, so a notification  *)
(* between advance and the wait finds nobody waiting.                      *)
(***************************************************************************)
EXTENDS Integers, Sequences, FiniteSets

CONSTANTS Key,          \* event_type and event_user_data of an event
          Delays,       \* us_into_future
          MaxTime,      \* the clock stops here: it stands for every later time
          MaxEvents,    \* bound: events in the queue
          TimerCalls,   \* the calls of the interface that are made
          None

ASSUME TimeAssumption == MaxTime \in Nat /\ Delays \subseteq Nat /\ MaxEvents \in Nat
ASSUME NoneAssumption == None \notin [key : Key, time : Nat] /\ None \notin Nat

VARIABLES events,        \* events_, a vector sorted by descending time
          now,           \* teletimer_->microseconds()
          pc,            \* where the timer thread is in loop()
          global_timer,  \* advance's local: the time of this pass
          firing,        \* the event whose callback is running, or None
          wait_for,      \* advance's result: how long to wait, None: until notified
          deadline,      \* of the wait in progress; None: until notified
          should_paused, should_stop,
          destructor     \* how far ~ntimer has come

threadVars == <<pc, global_timer, firing, wait_for, deadline>>
flagVars == <<should_paused, should_stop, destructor>>
timerVars == <<events, now, threadVars, flagVars>>

Event == [key : Key, time : 0..MaxTime]
Last(q) == q[Len(q)]
Front(q) == SubSeq(q, 1, Len(q) - 1)
Queued(e) == \E i \in DOMAIN events : events[i] = e

\* A caller of the interface other than the timer thread.
Call(name) == name \in TimerCalls /\ destructor = "no"

\* Faulty variant: the new event is not sorted in.
PushUnsorted(q, e) == Append(q, e)

\* push_back and stable_sort: the queue is sorted at all times, so the new event
\* ends up behind every event that is not earlier.
PushSorted(q, e) ==
    LET n == Cardinality({i \in DOMAIN q : q[i].time >= e.time})
    IN  SubSeq(q, 1, n) \o <<e>> \o SubSeq(q, n + 1, Len(q))

\* notify_one: the timer thread leaves the wait if it is in it.
Wake == pc' = IF pc = "waiting" THEN "inner" ELSE pc

ScheduleEvent(k, d) ==
    LET e == [key |-> k, time |-> now + d]
    IN  /\ Len(events) < MaxEvents /\ now < MaxTime /\ now + d <= MaxTime
        /\ events' = PushSorted(events, e)
        /\ IF events = <<>> THEN Wake
           ELSE IF Last(events).time > e.time THEN Wake ELSE UNCHANGED pc
        /\ UNCHANGED <<now, global_timer, firing, wait_for, deadline, flagVars>>

\* The first event of the vector with this key goes; the others keep their order.
Erased(q, k) ==
    LET i == CHOOSE j \in DOMAIN q : q[j].key = k /\ \A m \in 1..(j - 1) : q[m].key # k
    IN  SubSeq(q, 1, i - 1) \o SubSeq(q, i + 1, Len(q))

\* unschedule_event; the timer thread is not told.
UnscheduleEvent(k) ==
    /\ events' = IF \E i \in DOMAIN events : events[i].key = k THEN Erased(events, k) ELSE events
    /\ UNCHANGED <<now, threadVars, flagVars>>

SetPaused(b) == should_paused' = b /\ UNCHANGED <<events, now, threadVars, should_stop, destructor>>

-----------------------------------------------------------------------------
(***************************************************************************)
(* The timer thread.                                                       *)
(***************************************************************************)

\* loop's outer test
TestStop ==
    /\ pc = "outer"
    /\ pc' = IF should_stop THEN "done" ELSE "inner"
    /\ UNCHANGED <<events, now, global_timer, firing, wait_for, deadline, flagVars>>

\* Faulty variant: an event of the next instant is fired now.
DueTooEarly(e, t) == e.time <= t + 1

Due(e, t) == e.time <= t

\* One turn of advance's while loop, with t the time read when the pass began:
\* a due event is popped and its callback started, otherwise advance returns.
Scan(t) ==
    /\ global_timer' = t
    /\ \/ /\ events # <<>> /\ Due(Last(events), t)
          /\ firing' = Last(events) /\ events' = Front(events)
          /\ pc' = "callback"
          /\ UNCHANGED wait_for
       \/ /\ events # <<>> /\ ~Due(Last(events), t)
          /\ wait_for' = Last(events).time - t
          /\ pc' = "towait"
          /\ UNCHANGED <<firing, events>>
       \/ /\ events = <<>>
          /\ wait_for' = None
          /\ pc' = "towait"
          /\ UNCHANGED <<firing, events>>
    /\ UNCHANGED <<now, deadline, flagVars>>

\* loop's inner test, and advance up to the first callback or the end
Advance == pc = "inner" /\ ~should_paused /\ Scan(now)
LeaveInner ==
    /\ pc = "inner" /\ should_paused
    /\ pc' = "outer"
    /\ UNCHANGED <<events, now, global_timer, firing, wait_for, deadline, flagVars>>

AdvanceFurther == pc = "scan" /\ Scan(global_timer)

\* The callback of the event being fired has returned.
Callback ==
    /\ pc = "callback"
    /\ firing' = None /\ pc' = "scan"
    /\ UNCHANGED <<events, now, global_timer, wait_for, deadline, flagVars>>

\* Faulty variant: the wait is not limited by the next event.
WaitUnlimited ==
    /\ pc = "towait"
    /\ pc' = "waiting" /\ deadline' = None
    /\ UNCHANGED <<events, now, global_timer, firing, wait_for, flagVars>>

\* The condition variable's wait or wait_for begins.
WaitStart ==
    /\ pc = "towait"
    /\ pc' = "waiting"
    /\ deadline' = IF wait_for = None THEN None
                   ELSE IF now + wait_for > MaxTime THEN MaxTime ELSE now + wait_for
    /\ UNCHANGED <<events, now, global_timer, firing, wait_for, flagVars>>

\* It ends: in time, or spuriously, as the host's wait may.
WaitEnd ==
    /\ pc = "waiting" /\ pc' = "inner"
    /\ UNCHANGED <<events, now, global_timer, firing, wait_for, deadline, flagVars>>
WaitTimeout == deadline # None /\ now >= deadline /\ WaitEnd
WaitSpurious == "spurious_wakeup" \in TimerCalls /\ WaitEnd

Tick == now < MaxTime /\ now' = now + 1 /\ UNCHANGED <<events, threadVars, flagVars>>

-----------------------------------------------------------------------------
\* ~ntimer: two flags, a notification, then it joins the timer thread.
DestroyStop ==
    /\ Call("destroy")
    /\ should_stop' = TRUE /\ destructor' = "stop"
    /\ UNCHANGED <<events, now, threadVars, should_paused>>
\* Faulty variant: the inner loop is not told to end.
DestroyNoPause ==
    /\ destructor = "stop" /\ destructor' = "pause"
    /\ UNCHANGED <<events, now, threadVars, should_paused, should_stop>>
DestroyPause ==
    /\ destructor = "stop"
    /\ should_paused' = TRUE /\ destructor' = "pause"
    /\ UNCHANGED <<events, now, threadVars, should_stop>>
DestroyNotify ==
    /\ destructor = "pause" /\ destructor' = "join"
    /\ Wake
    /\ UNCHANGED <<events, now, global_timer, firing, wait_for, deadline, should_paused, should_stop>>
DestroyJoin ==
    /\ destructor = "join" /\ pc = "done" /\ destructor' = "joined"
    /\ UNCHANGED <<events, now, threadVars, should_paused, should_stop>>
DestroyRest == DestroyPause \/ DestroyNotify \/ DestroyJoin

TimerInit ==
    /\ events = <<>> /\ now = 0
    /\ pc = "outer" /\ global_timer = 0 /\ firing = None /\ wait_for = None /\ deadline = None
    /\ should_paused = FALSE /\ should_stop = FALSE /\ destructor = "no"

\* What the thread does besides running callbacks.
ThreadStep == TestStop \/ Advance \/ LeaveInner \/ AdvanceFurther \/ WaitStart \/ WaitTimeout

TimerNext ==
    \/ \E k \in Key, d \in Delays : Call("schedule_event") /\ ScheduleEvent(k, d)
    \/ \E k \in Key : Call("unschedule_event") /\ UnscheduleEvent(k)
    \/ \E b \in BOOLEAN : Call("set_paused") /\ SetPaused(b)
    \/ ThreadStep \/ Callback \/ WaitSpurious
    \/ Tick \/ DestroyStop \/ DestroyRest

TimerSpec == TimerInit /\ [][TimerNext]_timerVars

\* The host schedules the timer thread and the destroying thread, time passes.
TimerFairness ==
    /\ WF_timerVars(ThreadStep) /\ WF_timerVars(Callback)
    /\ WF_timerVars(Tick) /\ WF_timerVars(DestroyRest)

FairTimerSpec == TimerSpec /\ TimerFairness
=============================================================================
