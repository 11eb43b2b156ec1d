-------------------------------- MODULE MCParts ------------------------------
(***************************************************************************)
(* Instances of the parts that are checked by themselves: properties,      *)
(* message queues, the driver's command queue, window groups, redrawing    *)
(* and memory chunks.  A behaviour is one of one part; the variables of    *)
(* the others keep their initial values.  Window groups come in two parts: *)
(* many groups that are only reordered, and the groups of one client with  *)
(* every operation.                                                        *)
(***************************************************************************)
EXTENDS KernelProperty, MsgQueue, DriverQueue, WindowGroups, WindowRedraw, MemChunk

CONSTANTS Parts, g1, g2

MCClientOf == [g \in Group |-> CHOOSE c \in Client : TRUE]
MCPosition == {-1, 0, 1, 2}
MCSize == {<<2, 2>>, <<2, 1>>}
MCFull == <<2, 2>>
\* Halves of a window and two of its corners; one without width, an empty one, one that
\* begins outside and one that is inside out.  That of the whole window comes by itself.
MCClientRect ==
    {Rect(0, 0, 1, 2), Rect(1, 0, 2, 2), Rect(0, 0, 2, 1), Rect(0, 1, 2, 2), Rect(0, 0, 1, 1),
     Rect(1, 1, 2, 2), Rect(1, 0, 1, 2), Rect(1, 1, 1, 1), Rect(-1, 0, 1, 2), Rect(2, 2, 1, 0)}
MCWindows == Permutations(Win)

VARIABLE part

allVars == <<part, propertyVars, msgQueueVars, driverVars, windowVars, redrawVars, chunkVars>>

PartsInit ==
    /\ part \in Parts
    /\ PropertyInit /\ MsgQueueInit /\ DriverInit /\ WindowInit /\ RedrawInit /\ ChunkInit
    /\ part # "property" => ndata = CHOOSE v \in Value : TRUE
    /\ part # "memory" => model = "multiple" /\ kind = "disconnected"

OrderNext ==
    \E g \in Group : \/ CreateWindowGroup(g, FALSE)
                     \/ \E pri \in Priority, pos \in Position : SetOrdinalPosition(g, pri, pos)

FocusNext ==
    \/ \E g \in {g1, g2} : \/ \E b \in BOOLEAN : CreateWindowGroup(g, b) \/ ReceiveFocus(g, b)
                           \/ SetOrdinalPosition(g, 0, 0) \/ TouchInput(g)
    \/ \E c \in Client : GetReady(c) \/ GetEvent(c)
    \/ \E key \in {"key_down", "key_up"} : KeyInput(key)
    \/ SetKeyBlock

PropertyPart ==
    /\ part = "property" /\ PropertyNext
    /\ UNCHANGED <<part, msgQueueVars, driverVars, windowVars, redrawVars, chunkVars>>

MsgQueuePart ==
    /\ part = "msgqueue" /\ MsgQueueNext
    /\ UNCHANGED <<part, propertyVars, driverVars, windowVars, redrawVars, chunkVars>>

DriverPart ==
    /\ part = "driver" /\ DriverNext
    /\ UNCHANGED <<part, propertyVars, msgQueueVars, windowVars, redrawVars, chunkVars>>

WindowPart ==
    /\ \/ part = "order" /\ OrderNext
       \/ part = "focus" /\ FocusNext
    /\ UNCHANGED <<part, propertyVars, msgQueueVars, driverVars, redrawVars, chunkVars>>

RedrawPart ==
    /\ part = "redraw" /\ RedrawNext
    /\ UNCHANGED <<part, propertyVars, msgQueueVars, driverVars, windowVars, chunkVars>>

MemoryPart ==
    /\ part = "memory" /\ ChunkNext
    /\ UNCHANGED <<part, propertyVars, msgQueueVars, driverVars, windowVars, redrawVars>>

PartsNext == PropertyPart \/ MsgQueuePart \/ DriverPart \/ WindowPart \/ RedrawPart \/ MemoryPart

PartsSpec == PartsInit /\ [][PartsNext]_allVars
=============================================================================
