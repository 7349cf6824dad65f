---------------------------- MODULE ChannelSpawner ----------------------------
(***************************************************************************)
(* The spawner of messaging channels, apps/kittypaw/server/spawner.go, for  *)
(* one account and one type of channel: at most one entry in its map.       *)
(*                                                                         *)
(* Each critical section of its mutex is one step.  Stop takes the entry    *)
(* out, cancels the goroutine and waits for it, but not for ever: a         *)
(* replacement may start while the old goroutine is still busy.             *)
(***************************************************************************)
EXTENDS Naturals

CONSTANTS
  Instance,      \* channel goroutines, used again when they are gone
  NoInstance     \* no entry in the map

ASSUME InstanceAssumption == NoInstance \notin Instance

VARIABLES
  entry,         \* running[key]
  life           \* Instance -> "off", "polling", "stopping" (canceled)

spawner == <<entry, life>>

SpawnerTypeOK ==
  /\ entry \in Instance \cup {NoInstance}
  /\ life \in [Instance -> {"off", "polling", "stopping"}]

SpawnerInit ==
  /\ entry = NoInstance
  /\ life = [c \in Instance |-> "off"]

(* TrySpawn, from Reconcile or after Stop in ReplaceSpawn.                 *)
TrySpawn(c) ==
  /\ life[c] = "off" /\ entry = NoInstance
  /\ entry' = c
  /\ life' = [life EXCEPT ![c] = "polling"]

(* Stop, for a channel that was removed or whose configuration changed.    *)
StopChannel ==
  /\ entry # NoInstance
  /\ entry' = NoInstance
  /\ life' = [life EXCEPT ![entry] = "stopping"]

(* Mutant: the end of a goroutine removes whatever entry there is.         *)
ExitClears(c) ==
  /\ life[c] # "off"
  /\ life' = [life EXCEPT ![c] = "off"]
  /\ entry' = NoInstance

(* The goroutine ends, when it was canceled or by an error of its own, and *)
(* removes its entry, not that of its successor.                           *)
Exit(c) ==
  /\ life[c] # "off"
  /\ life' = [life EXCEPT ![c] = "off"]
  /\ entry' = IF entry = c THEN NoInstance ELSE entry

(* StopAll: every goroutine is canceled, those that take too long are left *)
(* behind.                                                                 *)
StopAll ==
  /\ entry' = NoInstance
  /\ life' = [c \in Instance |-> IF life[c] = "off" THEN "off" ELSE "stopping"]

(* The daemon dies.                                                        *)
LoseChannels ==
  /\ entry' = NoInstance
  /\ life' = [c \in Instance |-> "off"]

-----------------------------------------------------------------------------

(* A channel that polls for messages can be found: Stop, a reload and the  *)
(* removal of the account reach it.  No order of stops that time out,      *)
(* respawns and late ends of old goroutines leaves one behind that polls   *)
(* beside its successor until the daemon ends.                             *)
NoStrayChannel == \A c \in Instance : life[c] = "polling" => entry = c

=============================================================================
