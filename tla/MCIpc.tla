-------------------------------- MODULE MCIpc -------------------------------
EXTENDS IpcProperties, TLC

CONSTANTS c1, c2, pool, loose

MCSyncSlot == c1 :> 0 @@ c2 :> 1
MCUses == c1 :> {pool} @@ c2 :> {loose}
MCAsyncSlots == pool :> 1 @@ loose :> 0
=============================================================================
