---------------------------- MODULE KernelTimer -----------------------------
(***************************************************************************)
(* The timers of the guest (kernel/src/timer.cpp) and the supervisor calls *)
(* timer_after, timer_at_utc and timer_cancel, on top of NTimer.  A call   *)
(* holds the kernel lock; so does timer_callback on the timer thread, but  *)
(* the timer thread takes the event off its queue before it asks for that  *)
(* lock.                                                                   *)
(*                                                                         *)
(* A timer's signal_info is the user data of its events, and is            *)
(* overwritten by the next request: an event does not know which request   *)
(* it is for.  Requests are numbered in the order they are accepted.       *)
(***************************************************************************)
EXTENDS NTimer

CONSTANT MaxRequests     \* bound: requests that are accepted

ASSUME RequestAssumption == MaxRequests \in Nat

VARIABLES outstanding,   \* timer::outstanding
          info,          \* timer::info: the latest request, 0 before the first
          issued,        \* history: the number of requests accepted
          completions,   \* how often each request has been completed
          asked,         \* history: the timer and the time each request asked for
          late           \* history: the timers that were cancelled after the
                         \* timer thread had taken their event

requestVars == <<outstanding, info, issued, completions, asked, late>>
allVars == <<timerVars, requestVars>>

Request == 1..MaxRequests
Pending(k) == (\E i \in DOMAIN events : events[i].key = k) \/ (firing # None /\ firing.key = k)

\* The request status is written and the requester's semaphore signalled.
Complete(r) == completions' = [completions EXCEPT ![r] = @ + 1]

\* timer::after with the request r, accepted; a delay of zero completes at once.
Accept(k, d, r) ==
    /\ issued < MaxRequests /\ issued' = r
    /\ asked' = [asked EXCEPT ![r] = [key |-> k, at |-> now + d]]
    /\ \/ d = 0 /\ Complete(r) /\ UNCHANGED <<outstanding, info, timerVars>>
       \/ /\ d > 0
          /\ outstanding' = [outstanding EXCEPT ![k] = TRUE]
          /\ info' = [info EXCEPT ![k] = r]
          /\ ScheduleEvent(k, d)
          /\ UNCHANGED completions
    /\ UNCHANGED late

\* Faulty variant: a timer that is running is started again.
TimerAfterAgain(k, d) == Call("timer_after") /\ Accept(k, d, issued + 1)

\* timer_after and timer_at_utc; a timer that is running ignores the request.
TimerAfter(k, d) == Call("timer_after") /\ ~outstanding[k] /\ Accept(k, d, issued + 1)

\* Faulty variant: the cancelled request is not completed.
TimerCancelSilent(k) ==
    /\ Call("timer_cancel") /\ outstanding[k]
    /\ outstanding' = [outstanding EXCEPT ![k] = FALSE]
    /\ UnscheduleEvent(k)
    /\ UNCHANGED <<info, issued, completions, asked, late>>

\* timer_cancel: completes the request, then unschedules the timer's event if
\* the timer thread has not taken it yet.
TimerCancel(k) ==
    /\ Call("timer_cancel") /\ outstanding[k]
    /\ Complete(info[k])
    /\ outstanding' = [outstanding EXCEPT ![k] = FALSE]
    /\ UnscheduleEvent(k)
    /\ late' = IF firing # None /\ firing.key = k THEN late \cup {k} ELSE late
    /\ UNCHANGED <<info, issued, asked>>

\* timer_callback: whatever request the timer's info holds now is completed.
TimerCallback ==
    /\ Callback
    /\ Complete(info[firing.key])
    /\ outstanding' = [outstanding EXCEPT ![firing.key] = FALSE]
    /\ UNCHANGED <<info, issued, asked, late>>

Init ==
    /\ TimerInit
    /\ outstanding = [k \in Key |-> FALSE]
    /\ info = [k \in Key |-> 0]
    /\ issued = 0
    /\ completions = [r \in Request |-> 0]
    /\ asked = [r \in Request |-> None]
    /\ late = {}

Next ==
    \/ \E k \in Key, d \in Delays : TimerAfter(k, d)
    \/ \E k \in Key : TimerCancel(k)
    \/ TimerCallback
    \/ (ThreadStep \/ Tick) /\ UNCHANGED requestVars

Spec == Init /\ [][Next]_allVars

-----------------------------------------------------------------------------
\* No accepted request is lost: until it is completed its timer is outstanding,
\* still holds it, and has an event on its way, also when cancels and new
\* requests overtake a callback that is already running.
NoRequestLost ==
    \A r \in 1..issued : completions[r] = 0 =>
        \E k \in Key : outstanding[k] /\ info[k] = r /\ Pending(k)

\* The requests of a timer that no cancel has found without its event.
Punctual == {r \in 1..issued : asked[r].key \notin late}

\* A cancel that finds the timer's event already taken by the timer thread ("If the
\* timer hasn't finished yet, please unschedule it.") is the only way to complete a
\* request twice: however cancels, new
\* requests, the timer thread and other timers interleave, a request of a timer
\* that was never cancelled too late is completed at most once.
OnceUnlessLate == \A r \in Punctual : completions[r] <= 1

\* The callback on the timer thread completes a request of such a timer when its
\* time has come, and then only the one its event was scheduled for.
NotEarly ==
    [][\A r \in Punctual :
          TimerCallback /\ completions'[r] # completions[r] =>
              now >= asked[r].at /\ firing.time = asked[r].at]_allVars
=============================================================================
