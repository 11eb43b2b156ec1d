-------------------------- MODULE NTimerProperties --------------------------
(* What the timer must do. *)
EXTENDS NTimer

Source == INSTANCE EventSource WITH
    pending <- [e \in {events[i] : i \in DOMAIN events} |-> Cardinality({i \in DOMAIN events : events[i] = e})],
    running <- firing,
    clock   <- now

\* The sorted vector, popped from its end by a thread that drops the lock for
\* every callback, is an event source: earliest first, never early, never twice,
\* and nothing that is unscheduled in time is fired.
ImplementsEventSource == Source!Spec

\* The unlimited wait that the timer thread is in, or is about to begin.
Unlimited == \/ pc = "towait" /\ wait_for = None
             \/ pc = "waiting" /\ deadline = None

\* An event queued while the timer thread is not in, or about to begin, an
\* unlimited wait is fired or unscheduled, whatever is added, removed or fired
\* meanwhile: the limited wait always ends in time for the next event.
SeenEventFires ==
    \A e \in Event : (Queued(e) /\ ~Unlimited) ~> (~Queued(e) \/ should_paused)

\* ~ntimer gets to the end of its join when its notification finds the timer
\* thread waiting or between two passes.  (Inside a pass the notification is
\* lost, and a pass that ends with an empty queue then waits for ever.)
DestructorJoins == (destructor = "join" /\ pc \in {"outer", "inner", "done"}) ~> destructor = "joined"

\* Every scheduled event is executed by the timer thread or unscheduled (the
\* comment on timer_thread_).
EveryEventFires ==
    \A e \in Event : Queued(e) ~> (~Queued(e) \/ should_paused)
=============================================================================
