------------------------------ MODULE DesktopBoot ------------------------------
(***************************************************************************)
(* How a desktop process gets from its start to its first worker: the      *)
(* credentials of the local database, the Docker container that serves it, *)
(* the health check and the migrations, and the retry of a bootstrap that  *)
(* failed.  Nothing keeps a second desktop process from doing the same on  *)
(* the same file and the same container.                                   *)
(*                                                                         *)
(* Processes may die and Docker may stop between any two steps; a user may *)
(* remove the container or the volume, and repair what an error asks for.  *)
(***************************************************************************)
EXTENDS Naturals

CONSTANTS
  Desktop,       \* desktop processes
  MaxPasswords,  \* bound: passwords in use at the same time
  MaxIncidents,  \* bound: accidents, failures and what users do
  None, Torn     \* no file, no container; a file that is not complete

Password == 1..MaxPasswords

ASSUME NothingIsNoPassword == {None, Torn} \cap Password = {} /\ None # Torn
ASSUME BootBounds == MaxPasswords \in Nat \ {0} /\ MaxIncidents \in Nat

VARIABLES
  credentials,  \* postgres-credentials.json
  container,    \* the container: its POSTGRES_PASSWORD and whether it runs
  volume,       \* the password the data in the volume was initialised with
  pc,           \* where a process is in runBootstrap
  key,          \* the password in a bootstrap's configuration
  incidents     \* how many there have been

host == <<credentials, container, volume>>
process == <<pc, key>>
bootVars == <<host, process, incidents>>

\* Earlier processes may have left credentials, a container that has stopped, its volume.
BootInit ==
  /\ credentials \in {None, 1}
  /\ volume \in {None, credentials}
  /\ container \in {None} \cup
       IF volume = None THEN {} ELSE {[password |-> volume, running |-> FALSE]}
  /\ pc = [p \in Desktop |-> "off"]
  /\ key = [p \in Desktop |-> None]
  /\ incidents = 0

\* bootState.phase; a retry shows as starting from its beginning.
PhaseAt(step) ==
  CASE step = "up" -> "ready" [] step = "error" -> "error" [] OTHER -> "starting"
Phase(p) == PhaseAt(pc[p])

At(p, step) == pc[p] = step
Goto(p, step) == pc' = [pc EXCEPT ![p] = step]
\* fail: whatever is thrown on the way ends the bootstrap in an error phase.
Forget(p) == key' = [key EXCEPT ![p] = None]
Fail(p) == Goto(p, "error") /\ Forget(p) /\ UNCHANGED host

\* generatePassword makes one that nothing on the host has.
InUse ==
  {credentials, volume} \cup {key[p] : p \in Desktop}
    \cup IF container = None THEN {} ELSE {container.password}
Fresh == {w \in Password : w \notin InUse /\ \A v \in Password \ InUse : w <= v}
Incident == incidents < MaxIncidents /\ incidents' = incidents + 1
Smoothly == UNCHANGED incidents

-----------------------------------------------------------------------------
\* loadOrCreatePostgresCredentials.  The calls are synchronous, but another process, or
\* the end of this one, may come between them.

Launch(p) == At(p, "off") /\ Goto(p, "read") /\ UNCHANGED <<host, key>>

\* readStoredCredentials: a file that does not parse fails every bootstrap.
Use(p, password) ==
  IF password = Torn THEN Fail(p)
  ELSE /\ key' = [key EXCEPT ![p] = password] /\ Goto(p, "inspect")
       /\ UNCHANGED host

ReadCredentials(p) ==
  /\ At(p, "read")
  /\ IF credentials = None THEN Goto(p, "open") /\ UNCHANGED <<host, key>>
     ELSE Use(p, credentials)

\* writeFileSync with 'wx' creates the file or finds it there.
OpenAnyway(p) ==  \* mutant: flag 'w'
  /\ credentials' = Torn /\ Goto(p, "write")
  /\ \E w \in Fresh : key' = [key EXCEPT ![p] = w]
  /\ UNCHANGED <<container, volume>>
OpenExclusively(p) ==
  IF credentials = None THEN OpenAnyway(p) ELSE Use(p, credentials)

OpenCredentials(p) == At(p, "open") /\ OpenExclusively(p)

WriteCredentials(p) ==
  /\ At(p, "write")
  /\ credentials' = key[p] /\ Goto(p, "inspect")
  /\ UNCHANGED <<container, volume, key>>

-----------------------------------------------------------------------------
\* ensurePostgresContainer.

MatchesNot(p) == container.password # key[p]

StartsNever(p) == Goto(p, "health")  \* mutant: a container that exists is left alone
StartIfStopped(p) == Goto(p, IF container.running THEN "health" ELSE "start")

\* A container with other settings is an error; one that runs is used as it is.
Inspect(p) ==
  /\ At(p, "inspect")
  /\ IF container = None THEN Goto(p, "create") /\ UNCHANGED key
     ELSE IF MatchesNot(p) THEN Goto(p, "error") /\ Forget(p)
     ELSE StartIfStopped(p) /\ UNCHANGED key
  /\ UNCHANGED host

\* createVolume finds a volume that exists; createContainer refuses a name in use.
CreateContainer(p) ==
  /\ At(p, "create")
  /\ IF container # None THEN Fail(p)
     ELSE /\ container' = [password |-> key[p], running |-> FALSE]
          /\ Goto(p, "start")
          /\ UNCHANGED <<credentials, volume, key>>

\* The first start over an empty volume initialises it.  A start of what runs already
\* may be refused.
StartContainer(p) ==
  /\ At(p, "start")
  /\ \/ /\ container # None
        /\ container' = [container EXCEPT !.running = TRUE]
        /\ volume' = IF volume = None THEN container.password ELSE volume
        /\ Goto(p, "health")
        /\ UNCHANGED <<credentials, key>>
     \/ /\ container # None => container.running
        /\ Fail(p)

Serves == container # None /\ container.running

\* waitForPostgresHealthy: pg_isready asks for no password.
Healthy(p) == At(p, "health") /\ Serves /\ Goto(p, "migrate") /\ UNCHANGED <<host, key>>
HealthTimesOut(p) == At(p, "health") /\ ~Serves /\ Fail(p)

\* prisma migrate deploy logs in; supervisor.start() follows in the same turn.
Migrate(p) ==
  /\ At(p, "migrate")
  /\ Goto(p, IF Serves /\ volume = key[p] THEN "up" ELSE "error") /\ Forget(p)
  /\ UNCHANGED host

\* retryBoot looks at the phase.
Retry(p) == Phase(p) = "error" /\ Goto(p, "read") /\ UNCHANGED <<host, key>>

-----------------------------------------------------------------------------
\* Trouble.

InProgress(p) == pc[p] \notin {"off", "up", "error"}

\* Docker does not answer, an image cannot be pulled, a wait is too short; or the worker
\* of a process that was up has given out.
Fault(p) == (InProgress(p) \/ At(p, "up")) /\ Fail(p)

Die(p) ==
  /\ ~At(p, "off")
  /\ Goto(p, "off") /\ Forget(p)
  /\ UNCHANGED host

DockerStops ==
  /\ Serves /\ container' = [container EXCEPT !.running = FALSE]
  /\ UNCHANGED <<credentials, volume, process>>

RemoveContainer ==
  /\ container # None /\ container' = None
  /\ UNCHANGED <<credentials, volume, process>>

RemoveVolume ==
  /\ container = None /\ volume # None /\ volume' = None
  /\ UNCHANGED <<credentials, container, process>>

\* The user follows the message of 'configuration-invalid' and removes a broken file.
Repair ==
  /\ credentials = Torn /\ \A p \in Desktop : ~At(p, "write")
  /\ credentials' = None
  /\ UNCHANGED <<container, volume, process>>

-----------------------------------------------------------------------------
Boot(p) ==
  \/ ReadCredentials(p) \/ OpenCredentials(p) \/ WriteCredentials(p)
  \/ Inspect(p) \/ CreateContainer(p) \/ StartContainer(p)
  \/ Healthy(p) \/ HealthTimesOut(p) \/ Migrate(p)

Accident ==
  DockerStops \/ RemoveContainer \/ RemoveVolume \/ \E p \in Desktop : Fault(p) \/ Die(p)
=============================================================================
