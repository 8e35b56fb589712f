------------------------------- MODULE MapTick -------------------------------
(***************************************************************************)
(* What the parallel map tick promises to the rest of the world server.    *)
(* The set of loaded maps changes only between ticks, and during a tick    *)
(* every map loaded at its start is updated exactly once.  MapUpdater      *)
(* implements this with a pool of worker threads.                          *)
(***************************************************************************)
CONSTANT Map

VARIABLES maps,   \* the loaded maps
          phase,  \* "rest" between ticks, "tick" while maps are updated
          left    \* the maps this tick still owes an update

tickVars == <<maps, phase, left>>

Init ==
  /\ maps = {}
  /\ phase = "rest"
  /\ left = {}

\* Loading and unloading of maps, only while no map is being updated.
Reload ==
  /\ phase = "rest"
  /\ maps' \in SUBSET Map
  /\ UNCHANGED <<phase, left>>

Begin ==
  /\ phase = "rest"
  /\ phase' = "tick"
  /\ left' = maps
  /\ UNCHANGED maps

UpdateMap ==
  /\ phase = "tick"
  /\ \E m \in left : left' = left \ {m}
  /\ UNCHANGED <<maps, phase>>

End ==
  /\ phase = "tick"
  /\ left = {}
  /\ phase' = "rest"
  /\ UNCHANGED <<maps, left>>

Next == Reload \/ Begin \/ UpdateMap \/ End

Spec == Init /\ [][Next]_tickVars
==============================================================================
