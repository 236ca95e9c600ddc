------------------------------ MODULE Spawner ------------------------------
(***************************************************************************)
(* The Spawner service: concurrent calls of Spawn() and Kill() on Docker   *)
(* containers.  Every Spawn() has a container of its own, named after the  *)
(* call; resourceMu is held by a Kill() while Docker purges the container. *)
(***************************************************************************)
EXTENDS Integers, FiniteSets

CONSTANT Spawns     \* calls of Spawn(), each for one container

NoKill == "none"

ASSUME SpawnsAssumption == NoKill \notin Spawns

VARIABLES
    spawnAt,        \* where each Spawn() is: see SpawnSteps
    container,      \* "none", "running" or "gone"
    ttl,            \* containers for which Expire() succeeded
    resources,      \* the registered ones
    resourceMu,     \* the container that a Kill() is purging, or NoKill
    killed          \* containers that a Kill() reported as killed

spawnVars == <<spawnAt, container, ttl, resources, resourceMu, killed>>

SpawnSteps == {"idle", "launched", "connected", "returned",
               "invalid", "launchFailed", "killedOnError", "killFailed"}

SpawnerInit ==
    /\ spawnAt = [s \in Spawns |-> "idle"]
    /\ container = [s \in Spawns |-> "none"]
    /\ ttl = {} /\ resources = {} /\ resourceMu = NoKill /\ killed = {}

\* A request of no known type, a data directory that cannot be made, or
\* RunWithOptions() fails: nothing was started.
SpawnRefused(s) ==
    /\ spawnAt[s] = "idle"
    /\ spawnAt' = [spawnAt EXCEPT ![s] = "invalid"]
    /\ UNCHANGED <<container, ttl, resources, resourceMu, killed>>

\* RunWithOptions(), then Expire(), the error of which is ignored.
LaunchPostgres(s) ==
    /\ spawnAt[s] = "idle"
    /\ spawnAt' = [spawnAt EXCEPT ![s] = "launched"]
    /\ container' = [container EXCEPT ![s] = "running"]
    /\ ttl' \in {ttl, ttl \cup {s}}
    /\ UNCHANGED <<resources, resourceMu, killed>>

\* Retry(tryConnect) gets through, and all that follows it in postgres().
Connected(s) ==
    /\ spawnAt[s] = "launched"
    /\ spawnAt' = [spawnAt EXCEPT ![s] = "connected"]
    /\ UNCHANGED <<container, ttl, resources, resourceMu, killed>>

\* It does not: postgres() returns an error and no resource to kill.
ConnectFails(s) ==
    /\ spawnAt[s] = "launched"
    /\ spawnAt' = [spawnAt EXCEPT ![s] = "launchFailed"]
    /\ UNCHANGED <<container, ttl, resources, resourceMu, killed>>

\* pool.Purge() removes the container; it fails if there is none any more.
PurgeOK(s) == container[s] = "running" /\ container' = [container EXCEPT ![s] = "gone"]

\* Mutant of NoUUID: the deferred function sees no error.
NoUUIDLeaks(s) ==
    /\ spawnAt[s] = "connected"
    /\ spawnAt' = [spawnAt EXCEPT ![s] = "killedOnError"]
    /\ UNCHANGED <<container, ttl, resources, resourceMu, killed>>

\* uuid.NewRandom() fails: the deferred function kills the container.
NoUUID(s) ==
    /\ spawnAt[s] = "connected"
    /\ \/ PurgeOK(s) /\ spawnAt' = [spawnAt EXCEPT ![s] = "killedOnError"]
       \/ spawnAt' = [spawnAt EXCEPT ![s] = "killFailed"] /\ UNCHANGED container
    /\ UNCHANGED <<ttl, resources, resourceMu, killed>>

\* The response carries the ID under which the container is registered.
SpawnReturns(s) ==
    /\ spawnAt[s] = "connected" /\ resourceMu = NoKill
    /\ resources' = resources \cup {s}
    /\ spawnAt' = [spawnAt EXCEPT ![s] = "returned"]
    /\ UNCHANGED <<container, ttl, resourceMu, killed>>

\* Kill() with an ID that is registered; the entry is never removed.
KillStart(s) ==
    /\ resourceMu = NoKill
    /\ s \in resources
    /\ resourceMu' = s
    /\ UNCHANGED <<spawnAt, container, ttl, resources, killed>>

KillNotFound(s) ==
    /\ resourceMu = NoKill
    /\ s \notin resources
    /\ UNCHANGED spawnVars

KillOK(s) ==
    /\ resourceMu = s
    /\ PurgeOK(s)
    /\ resourceMu' = NoKill
    /\ killed' = killed \cup {s}
    /\ UNCHANGED <<spawnAt, ttl, resources>>

KillFails(s) ==
    /\ resourceMu = s
    /\ resourceMu' = NoKill
    /\ UNCHANGED <<spawnAt, container, ttl, resources, killed>>

\* External: the container stops after its TTL and is removed (AutoRemove).
TTLExpires(s) ==
    /\ container[s] = "running" /\ s \in ttl
    /\ container' = [container EXCEPT ![s] = "gone"]
    /\ UNCHANGED <<spawnAt, ttl, resources, resourceMu, killed>>

SpawnerNext ==
    \E s \in Spawns :
        \/ SpawnRefused(s) \/ LaunchPostgres(s)
        \/ Connected(s) \/ ConnectFails(s) \/ NoUUID(s) \/ SpawnReturns(s)
        \/ KillStart(s) \/ KillNotFound(s) \/ KillOK(s) \/ KillFails(s)
        \/ TTLExpires(s)

SpawnerSpec == SpawnerInit /\ [][SpawnerNext]_spawnVars

-----------------------------------------------------------------------------

\* Every container that is running can be killed, or its Spawn() is not over,
\* or its Spawn() failed before it had anything to kill, or Docker refused.
RunningIsTracked ==
    \A s \in Spawns : container[s] = "running" =>
        \/ s \in resources
        \/ spawnAt[s] \in {"launched", "connected", "launchFailed", "killFailed"}

\* A container reported as killed does not run, and only containers that a
\* SpawnResponse named are killed by Kill().
KilledIsGone ==
    \A s \in killed : container[s] = "gone" /\ spawnAt[s] = "returned"

(***************************************************************************)
(* Nothing is leaked that a caller could not kill, and Kill() is right,    *)
(* although the TTL, failures and other calls come between.                *)
(***************************************************************************)
SpawnsAreTracked == RunningIsTracked /\ KilledIsGone

=============================================================================
