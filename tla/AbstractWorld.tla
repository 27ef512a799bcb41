--------------------------- MODULE AbstractWorld ---------------------------
(***************************************************************************)
(* What the backend promises everyone who reads GET /world or follows      *)
(* state_update, with no task, request or queue in sight: one world whose  *)
(* version counts its changes, which moves only while it runs, which the   *)
(* player can stop, and which a failed mission freezes until it is reset.  *)
(***************************************************************************)
EXTENDS Naturals

CONSTANT LastVersion  \* bound: the world is followed up to this version

VARIABLE world

Initially ==
  world = [version |-> 0, tick |-> 0, paused |-> FALSE, reason |-> "none",
           failed |-> FALSE]

Running == ~world.paused /\ ~world.failed

\* Every change counts the version up.
Becomes(tick, paused, reason, failed) ==
  world' = [version |-> world.version + 1, tick |-> tick, paused |-> paused,
            reason |-> reason, failed |-> failed]

\* A tick of the mission, perhaps its last.
Advance ==
  /\ Running
  /\ \E mission \in BOOLEAN :
       Becomes(world.tick + 1, world.paused, world.reason, mission)

\* The backend gives up on the tick and waits for the player.
Suspend == Running /\ Becomes(world.tick, TRUE, "error", world.failed)

Stop == Becomes(world.tick, TRUE, "player", world.failed)

Go == ~world.failed /\ Becomes(world.tick, FALSE, "none", world.failed)

\* A new speed or new amounts of a resource; the crew may die of the latter.
Adjust ==
  \E failed \in {world.failed, TRUE} :
    Becomes(world.tick, world.paused, world.reason, failed)

Restart == Becomes(0, FALSE, "none", FALSE)

Change == Advance \/ Suspend \/ Stop \/ Go \/ Adjust \/ Restart

Safe == Initially /\ [][Change]_world

\* A running world does not stand still.
Moving == WF_world(world.version < LastVersion /\ (Advance \/ Suspend))

=============================================================================
