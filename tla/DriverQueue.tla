------------------------------ MODULE DriverQueue ---------------------------
(***************************************************************************)
(* The command queue of the graphics driver: request_queue of queue.h, the *)
(* synchronous commands of itc.cpp, driver::wait_for, in which the user    *)
(* interface waits for a frame, and the driver's thread in                 *)
(* graphics_ogl.cpp.  A command list is the thread that submitted it and   *)
(* whether that thread waits for its status.                               *)
(*                                                                         *)
(* What a thread does while it holds queue_mut_ is one step, except that   *)
(* testing a condition and going to sleep on it are two: abort and finish  *)
(* change the condition and notify without the mutex of the sleeper, and   *)
(* may come in between.  queue_mut is the thread that has tested and will  *)
(* sleep; mut is the holder of the driver's mut_.                          *)
(***************************************************************************)
EXTENDS Integers, Sequences, FiniteSets

CONSTANTS Sender, Driver, Nobody,
          MaxPending,       \* max_pending_count_, 128 in the code
          MaxCommands       \* bound: command lists submitted

ASSUME DriverAssumption ==
    /\ IsFiniteSet(Sender) /\ Driver \notin Sender /\ Nobody \notin Sender \cup {Driver}
    /\ MaxPending \in Nat \ {0} /\ MaxCommands \in Nat

VARIABLES queue,            \* queue_, entries [from, sync]
          queue_mut, mut,
          at,               \* where each sender is
          sync,             \* it waits for the status of its command
          status,           \* the sender's status was written
          driver,           \* where the driver's thread is
          current,          \* the command list it dispatches
          abort_, aborting, \* abort_ is set; steps of abort that were made
          submitted,        \* command lists submitted so far
          missed            \* history: senders whose status was written between
                            \* their test of it and their sleep

driverVars == <<queue, queue_mut, mut, at, sync, status, driver, current, abort_, aborting,
                submitted, missed>>

Idle == [from |-> Nobody, sync |-> FALSE]

DriverInit ==
    /\ queue = <<>> /\ queue_mut = Nobody /\ mut = Nobody
    /\ at = [s \in Sender |-> "out"] /\ sync = [s \in Sender |-> FALSE]
    /\ status = [s \in Sender |-> FALSE]
    /\ driver = "loop" /\ current = Idle
    /\ abort_ = FALSE /\ aborting = 0 /\ submitted = 0 /\ missed = {}

Go(s, place) == at' = [at EXCEPT ![s] = place]

------------------------------------------------------------------------------
\* submit_command_list
Submit(s) ==
    /\ at[s] = "out" /\ submitted < MaxCommands /\ submitted' = submitted + 1
    /\ Go(s, "push") /\ sync' = [sync EXCEPT ![s] = FALSE]
    /\ UNCHANGED <<queue, queue_mut, mut, status, driver, current, abort_, aborting, missed>>

\* send_sync_command_detail, under the driver's mut_ until the sender sleeps
SubmitSync(s) ==
    /\ at[s] = "out" /\ submitted < MaxCommands /\ submitted' = submitted + 1
    /\ mut = Nobody /\ mut' = s
    /\ Go(s, "push") /\ sync' = [sync EXCEPT ![s] = TRUE]
    /\ status' = [status EXCEPT ![s] = FALSE] /\ missed' = missed \ {s}
    /\ UNCHANGED <<queue, queue_mut, driver, current, abort_, aborting>>

\* thread.cpp of the console: a frame is submitted without mut_, to be waited for.
SubmitPresent(s) ==
    /\ at[s] = "out" /\ submitted < MaxCommands /\ submitted' = submitted + 1
    /\ Go(s, "push") /\ sync' = [sync EXCEPT ![s] = TRUE]
    /\ status' = [status EXCEPT ![s] = FALSE] /\ missed' = missed \ {s}
    /\ UNCHANGED <<queue, queue_mut, mut, driver, current, abort_, aborting>>

\* Where a sender goes from push; one that holds mut_ is in send_sync_command_detail.
Pushed(s) == Go(s, IF mut = s THEN "test" ELSE IF sync[s] THEN "wait_for" ELSE "out")

\* request_queue::push: nothing is pushed after an abort.
Push(s) ==
    /\ at[s] \in {"push", "woken"} /\ queue_mut = Nobody
    /\ \/ /\ abort_
          /\ Pushed(s) /\ UNCHANGED <<queue, queue_mut>>
       \/ /\ ~abort_ /\ Len(queue) = MaxPending
          /\ Go(s, "full") /\ queue_mut' = s /\ UNCHANGED queue
       \/ /\ ~abort_ /\ Len(queue) # MaxPending
          /\ queue' = Append(queue, [from |-> s, sync |-> sync[s]])
          /\ Go(s, "notify") /\ UNCHANGED queue_mut
    /\ UNCHANGED <<mut, sync, status, driver, current, abort_, aborting, submitted, missed>>

\* queue_cond_.wait
SleepFull(s) ==
    /\ at[s] = "full" /\ Go(s, "asleep") /\ queue_mut' = Nobody
    /\ UNCHANGED <<queue, mut, sync, status, driver, current, abort_, aborting, submitted, missed>>

\* queue_empty_cond_.notify_one, after the mutex was released
NotifyDriver(s) ==
    /\ at[s] = "notify" /\ Pushed(s)
    /\ driver' = IF driver = "asleep" THEN "pop" ELSE driver
    /\ UNCHANGED <<queue, queue_mut, mut, sync, status, current, abort_, aborting, submitted, missed>>

\* cond_.wait tests the status first ...
TestStatus(s) ==
    /\ at[s] = "test"
    /\ \/ status[s] /\ Go(s, "out") /\ mut' = Nobody
       \/ ~status[s] /\ Go(s, "unset") /\ UNCHANGED mut
    /\ UNCHANGED <<queue, queue_mut, sync, status, driver, current, abort_, aborting, submitted,
                   missed>>

\* ... and sleeps.
SleepStatus(s) ==
    /\ at[s] = "unset" /\ Go(s, "waiting") /\ mut' = Nobody
    /\ UNCHANGED <<queue, queue_mut, sync, status, driver, current, abort_, aborting, submitted,
                   missed>>

\* driver::wait_for reads the status first, without mut_; a status that tells of an
\* error is waited for as one that was not written.
WaitFor(s) ==
    /\ at[s] = "wait_for" /\ (Go(s, "relock") \/ (status[s] /\ Go(s, "out")))
    /\ UNCHANGED <<queue, queue_mut, mut, sync, status, driver, current, abort_, aborting, submitted,
                   missed>>

\* wait_for, and a sender woken from cond_, takes mut_.
Relock(s) ==
    /\ at[s] = "relock" /\ mut = Nobody /\ mut' = s /\ Go(s, "test")
    /\ UNCHANGED <<queue, queue_mut, sync, status, driver, current, abort_, aborting, submitted,
                   missed>>

SenderStep(s) ==
    Push(s) \/ SleepFull(s) \/ NotifyDriver(s) \/ TestStatus(s) \/ SleepStatus(s)
    \/ WaitFor(s) \/ Relock(s)
------------------------------------------------------------------------------
senderVars == <<mut, sync, submitted, missed>>

\* run: should_stop is the last thing abort sets.
Loop ==
    /\ driver = "loop" /\ driver' = IF aborting = 4 THEN "stopped" ELSE "pop"
    /\ UNCHANGED <<queue, queue_mut, at, status, current, abort_, aborting, senderVars>>

\* request_queue::pop; without a command list the driver's thread ends.
Pop ==
    /\ driver = "pop" /\ queue_mut = Nobody
    /\ \/ /\ abort_
          /\ driver' = "stopped" /\ UNCHANGED <<queue, queue_mut, current>>
       \/ /\ ~abort_ /\ queue = <<>>
          /\ driver' = "empty" /\ queue_mut' = Driver /\ UNCHANGED <<queue, current>>
       \/ /\ ~abort_ /\ queue # <<>>
          /\ current' = Head(queue) /\ queue' = Tail(queue)
          /\ driver' = "notify" /\ UNCHANGED queue_mut
    /\ UNCHANGED <<at, status, abort_, aborting, senderVars>>

SleepEmpty ==
    /\ driver = "empty" /\ driver' = "asleep" /\ queue_mut' = Nobody
    /\ UNCHANGED <<queue, at, status, current, abort_, aborting, senderVars>>

\* queue_cond_.notify_one
NotifySender ==
    /\ driver = "notify" /\ driver' = "dispatch"
    /\ \/ \E s \in Sender : at[s] = "asleep" /\ Go(s, "woken")
       \/ (\A s \in Sender : at[s] # "asleep") /\ UNCHANGED at
    /\ UNCHANGED <<queue, queue_mut, status, current, abort_, aborting, senderVars>>

\* dispatch; finish writes the status without mut_ ...
Dispatch ==
    /\ driver = "dispatch" /\ current' = Idle
    /\ IF current.sync
       THEN /\ status' = [status EXCEPT ![current.from] = TRUE]
            /\ missed' = missed \cup {s \in {current.from} : at[s] = "unset"}
            /\ driver' = "finish"
       ELSE driver' = "loop" /\ UNCHANGED <<status, missed>>
    /\ UNCHANGED <<queue, queue_mut, at, abort_, aborting, mut, sync, submitted>>

\* Faulty: only one waiting sender is woken.
FinishOne ==
    /\ driver = "finish" /\ driver' = "loop"
    /\ \/ \E s \in Sender : at[s] = "waiting" /\ Go(s, "relock")
       \/ (\A s \in Sender : at[s] # "waiting") /\ UNCHANGED at
    /\ UNCHANGED <<queue, queue_mut, status, current, abort_, aborting, senderVars>>

\* ... and wakes all who sleep on cond_.
Finish ==
    /\ driver = "finish" /\ driver' = "loop"
    /\ at' = [s \in Sender |-> IF at[s] = "waiting" THEN "relock" ELSE at[s]]
    /\ UNCHANGED <<queue, queue_mut, status, current, abort_, aborting, senderVars>>

DriverStep == Loop \/ Pop \/ SleepEmpty \/ NotifySender \/ Dispatch \/ Finish

\* ogl_graphics_driver::abort: abort_, the two notify_all, should_stop.  It takes no
\* mutex.
Abort ==
    /\ aborting < 4 /\ aborting' = aborting + 1
    /\ abort_' = TRUE
    /\ at' = [s \in Sender |-> IF aborting = 1 /\ at[s] = "asleep" THEN "woken" ELSE at[s]]
    /\ driver' = IF aborting = 2 /\ driver = "asleep" THEN "pop" ELSE driver
    /\ UNCHANGED <<queue, queue_mut, status, current, senderVars>>

DriverNext ==
    \/ \E s \in Sender : Submit(s) \/ SubmitSync(s) \/ SubmitPresent(s) \/ SenderStep(s)
    \/ DriverStep \/ Abort

DriverSpec == DriverInit /\ [][DriverNext]_driverVars
------------------------------------------------------------------------------
\* A sender inside a call, or the driver's thread, that cannot go on by itself: it sleeps
\* on a condition or waits for a mutex.
Stuck(s) ==
    \/ at[s] \in {"out", "asleep", "waiting"}
    \/ at[s] \in {"push", "woken"} /\ queue_mut # Nobody
    \/ at[s] = "relock" /\ mut # Nobody
DriverStuck == driver \in {"asleep", "stopped"} \/ (driver = "pop" /\ queue_mut # Nobody)

Quiet == DriverStuck /\ \A s \in Sender : Stuck(s)

\* "When the queue reached a certain amount of defined elements, when a new thread
\* pushed requests into the queue, that thread will be put into wait state, until
\* the queue is not full again" (queue.h): unless the driver is aborted, its thread and
\* the senders cannot come to rest while a command list is queued, a sender is still on
\* its way in, or one waits for its status, also when several wait on the same
\* condition.  The exception is a status that is written just when the sender has
\* found it unset and is not yet asleep.
EveryCommandDispatched ==
    Quiet /\ ~abort_ =>
        /\ queue = <<>>
        /\ \A s \in Sender : at[s] = "out" \/ (at[s] = "waiting" /\ s \in missed)
=============================================================================
