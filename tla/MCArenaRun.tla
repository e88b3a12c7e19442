---------------------------- MODULE MCArenaRun -----------------------------
EXTENDS ArenaRun

CONSTANTS c1, c2

One == <<c1>>
Two == <<c1, c2>>

AnyTrouble == {"user", "time", "gates"}
=============================================================================
