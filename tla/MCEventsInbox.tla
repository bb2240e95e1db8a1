---------------------------- MODULE MCEventsInbox ----------------------------
(* Small instances of EventsInbox for TLC.  A liveness property is checked, *)
(* so keys and instances are not declared symmetric.                        *)
EXTENDS EventsInbox

CONSTANTS k1, k2, i1, i2
=============================================================================
