--------------------------- MODULE MCKernelMutex ----------------------------
(* Small instances of KernelMutex for TLC. *)
EXTENDS KernelMutexProperties, TLC

CONSTANTS t1, t2, t3, t4

LevelsInUse == {LevelOf(c) : c \in SetClass \cup {"normal"}}
CreatedAlike == Permutations({t2, t3, t4} \cap Thread)

AllCalls == {"mutex_wait", "mutex_wait_for", "mutex_try_wait", "mutex_signal",
             "thread_set_priority", "thread_resume", "thread_kill"}
=============================================================================
