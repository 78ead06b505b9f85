------------------------------ MODULE Watchdog ------------------------------
(***************************************************************************)
(* The life of the process: watchdog.Monitor starts one goroutine per      *)
(* monitor (an endpoint, a suite, or the heartbeat of an external          *)
(* endpoint), each of which executes its monitor at every tick under a     *)
(* semaphore; main.listenToConfigurationFileChanges stops them, loads the  *)
(* modified configuration and starts new ones.  A generation is what one   *)
(* call of Monitor creates: a configuration, a context, a semaphore and    *)
(* goroutines.  The context and the semaphore are package variables, which *)
(* Monitor replaces one after the other and which every execution reads    *)
(* one by one, without a lock: a goroutine that outlives its generation    *)
(* may see any mixture of the old and the new ones.                        *)
(***************************************************************************)
EXTENDS Integers, FiniteSets

CONSTANTS
  Monitors,        \* everything a configuration may ask to monitor
  Heartbeats,      \* those that are heartbeats of external endpoints
  Concurrency,     \* weight of the semaphore
  Contents,        \* contents the configuration file may get: a set of
                   \*   monitors, or Invalid
  FirstContent,    \* the content at startup
  Invalid,         \* a content that does not load
  SkipInvalid,     \* the contents with skip-invalid-config-update
  HasConnectivity, \* whether a connectivity checker is configured
  MaxEdits         \* bound on the number of edits of the file

ASSUME MonitorAssumption ==
  /\ Invalid \notin SUBSET Monitors
  /\ Heartbeats \subseteq Monitors
  /\ Contents \subseteq (SUBSET Monitors) \cup {Invalid}
  /\ FirstContent \in SUBSET Monitors
ASSUME NumberAssumption == Concurrency \in Nat \ {0} /\ MaxEdits \in Nat
ASSUME FlagAssumption == SkipInvalid \subseteq SUBSET Monitors /\ HasConnectivity \in BOOLEAN

Generations == 0..MaxEdits

VARIABLES
  phase,      \* what the goroutine that (re)starts everything is doing
  gen,        \* the newest generation
  semaphore,  \* the generation whose semaphore monitoringSemaphore is;
              \*   the package's ctx is always that of generation gen
  keys,       \* keys[g]: the monitors of generation g's configuration
  cancelled,  \* cancelled[g]: whether g's context is cancelled
  inUse,      \* inUse[g]: permits of g's semaphore that are taken
  loop,       \* loop[g][m]: where the goroutine of m in g is
  ctx,        \* ctx[g][m]: the generation whose context it has read, ...
  sem,        \* sem[g][m]: ... whose semaphore it has read to acquire, ...
  back,       \* back[g][m]: ... and whose semaphore it will release; all
              \*   three are 0 when the function that read them has returned
  strayed,    \* history: the semaphores of which a permit was or will be
              \*   returned to another one, or one of another returned to it
  file,       \* the content of the configuration file
  read,       \* the content that the load under way has read
  modified,   \* HasLoadedConfigurationBeenModified()
  sameSecond, \* whether the clock still shows the second of the last load
  edits,      \* how many times the file was edited
  blind       \* history: the last edit was made during a load, after the
              \*   file was read, or in the second in which a load ended

process == <<phase, gen, semaphore, keys, cancelled>>
locals == <<ctx, sem, back>>
goroutines == <<inUse, loop, locals, strayed>>
disk == <<file, read, modified, sameSecond, edits, blind>>
vars == <<process, goroutines, disk>>

Phases == {"starting", "watching", "stopped", "read", "closed", "initialized",
           "replacing", "exited"}
Places == {"none", "begun", "idle", "contextRead", "waiting",
           "acquired", "running", "stopped"}

TypeOK ==
  /\ phase \in Phases
  /\ gen \in Generations /\ semaphore \in Generations
  /\ keys \in [Generations -> SUBSET Monitors]
  /\ cancelled \in [Generations -> BOOLEAN]
  /\ inUse \in [Generations -> 0..Concurrency]
  /\ loop \in [Generations -> [Monitors -> Places]]
  /\ ctx \in [Generations -> [Monitors -> Generations]]
  /\ sem \in [Generations -> [Monitors -> Generations]]
  /\ back \in [Generations -> [Monitors -> Generations]]
  /\ strayed \subseteq Generations
  /\ file \in (SUBSET Monitors) \cup {Invalid}
  /\ read \in (SUBSET Monitors) \cup {Invalid}
  /\ modified \in BOOLEAN /\ sameSecond \in BOOLEAN
  /\ edits \in 0..MaxEdits
  /\ blind \in BOOLEAN

Alive == phase # "exited"

Move(g, m, from, to) ==
  /\ Alive
  /\ loop[g][m] = from
  /\ loop' = [loop EXCEPT ![g][m] = to]

-----------------------------------------------------------------------------
(* The goroutine of monitor m in generation g: monitorEndpoint,            *)
(* monitorSuite or monitorExternalEndpointHeartbeat, and the execute       *)
(* function it calls.                                                      *)

(* The select of the loop: the ticker has fired, and the execute function  *)
(* reads the package's context for monitoringSemaphore.Acquire(ctx, 1)...  *)
TickerFires(g, m) ==
  /\ Move(g, m, "idle", "contextRead") \/ Move(g, m, "begun", "contextRead")
  /\ ctx' = [ctx EXCEPT ![g][m] = gen]
  /\ UNCHANGED <<process, inUse, sem, back, strayed, disk>>

\* Slip: the loop looks at the package's context instead of its own.
StopLoopOnNewest(g, m) ==
  /\ cancelled[gen]
  /\ Move(g, m, "idle", "stopped")
  /\ UNCHANGED <<process, inUse, locals, strayed, disk>>

(* ... or the context that the goroutine was started with is cancelled.    *)
StopLoop(g, m) ==
  /\ cancelled[g]
  /\ Move(g, m, "idle", "stopped")
  /\ UNCHANGED <<process, inUse, locals, strayed, disk>>

(* ... and, in a second step, the package's semaphore.  Neither read is    *)
(* synchronized.  An outdated value that one may return is one that it     *)
(* returns a little earlier, and the pairs that the other order of reading *)
(* gives, such as the new context with the old semaphore, are those of     *)
(* this order while Monitor has replaced the context only.                 *)
ReadSemaphore(g, m) ==
  /\ Move(g, m, "contextRead", "waiting")
  /\ sem' = [sem EXCEPT ![g][m] = semaphore]
  /\ UNCHANGED <<process, inUse, ctx, back, strayed, disk>>

\* Slip: a cancelled context does not prevent the execution.
AcquireUncancelled(g, m) ==
  /\ inUse[sem[g][m]] < Concurrency
  /\ Move(g, m, "waiting", "acquired")
  /\ inUse' = [inUse EXCEPT ![sem[g][m]] = @ + 1]
  /\ UNCHANGED <<process, locals, strayed, disk>>

Acquire(g, m) ==
  /\ ~cancelled[ctx[g][m]]
  /\ inUse[sem[g][m]] < Concurrency
  /\ Move(g, m, "waiting", "acquired")
  /\ inUse' = [inUse EXCEPT ![sem[g][m]] = @ + 1]
  /\ UNCHANGED <<process, locals, strayed, disk>>

(* The execute function returns: what it has read is out of scope.         *)
Forget(g, m) ==
  /\ ctx' = [ctx EXCEPT ![g][m] = 0]
  /\ sem' = [sem EXCEPT ![g][m] = 0]
  /\ back' = [back EXCEPT ![g][m] = 0]

AcquireFails(g, m) ==
  /\ cancelled[ctx[g][m]]
  /\ Move(g, m, "waiting", "idle")
  /\ Forget(g, m)
  /\ UNCHANGED <<process, inUse, strayed, disk>>

(* defer monitoringSemaphore.Release(1) reads the package variable again.  *)
Defer(g, m) ==
  /\ Move(g, m, "acquired", "running")
  /\ back' = [back EXCEPT ![g][m] = semaphore]
  /\ strayed' = strayed \cup (IF sem[g][m] = semaphore THEN {} ELSE {sem[g][m], semaphore})
  /\ UNCHANGED <<process, inUse, ctx, sem, disk>>

(* The execution is over and the deferred Release is called.               *)
Return(g, m) ==
  /\ inUse[back[g][m]] > 0
  /\ Move(g, m, "running", "idle")
  /\ inUse' = [inUse EXCEPT ![back[g][m]] = @ - 1]
  /\ Forget(g, m)
  /\ UNCHANGED <<process, strayed, disk>>

\* Slip: the early return comes before the deferred Release.
SkipWithoutRelease(g, m) ==
  /\ HasConnectivity
  /\ Move(g, m, "running", "idle")
  /\ Forget(g, m)
  /\ UNCHANGED <<process, inUse, strayed, disk>>

SkipNoConnectivity(g, m) ==
  /\ HasConnectivity
  /\ Return(g, m)

(* A heartbeat that was received in time has nothing to record.            *)
SkipReceived(g, m) ==
  /\ m \in Heartbeats
  /\ Return(g, m)

(* The check itself, the result stored (UpdateEndpointStatus or            *)
(* UpdateSuiteStatus) and its alerts handled: the end of the function.     *)
Finish(g, m) == Return(g, m)

(* panic("semaphore: released more than held"), which nobody recovers.     *)
ReleasedMore(g, m) ==
  /\ Alive
  /\ loop[g][m] = "running" /\ inUse[back[g][m]] = 0
  /\ phase' = "exited"
  /\ UNCHANGED <<gen, semaphore, keys, cancelled, goroutines, disk>>

-----------------------------------------------------------------------------
(* Starting, stopping and reloading *)

(* Monitor starts the goroutines one after the other.  A heartbeat waits   *)
(* for its first tick, everything else is executed at once.                *)
StartLoop(m) ==
  /\ phase = "starting"
  /\ m \in keys[gen]
  /\ Move(gen, m, "none", IF m \in Heartbeats THEN "idle" ELSE "begun")
  /\ UNCHANGED <<process, inUse, locals, strayed, disk>>

Started ==
  /\ phase = "starting"
  /\ \A m \in keys[gen] : loop[gen][m] # "none"
  /\ phase' = "watching"
  /\ UNCHANGED <<gen, semaphore, keys, cancelled, goroutines, disk>>

(* stop(cfg), once the file was found modified.                            *)
Shutdown ==
  /\ phase = "watching" /\ modified
  /\ phase' = "stopped"
  /\ cancelled' = [cancelled EXCEPT ![gen] = TRUE]
  /\ UNCHANGED <<gen, semaphore, keys, goroutines, disk>>

(* After a second, and save(): loadConfiguration reads the file.           *)
ReadFile ==
  /\ phase = "stopped"
  /\ phase' = "read"
  /\ read' = file
  /\ UNCHANGED <<gen, semaphore, keys, cancelled, goroutines, file, modified, sameSecond, edits, blind>>

(* UpdateLastFileModTime sets the time of the load to the current time.    *)
Stamp == modified' = FALSE /\ sameSecond' = TRUE /\ UNCHANGED <<file, read, edits, blind>>

CloseStore ==
  /\ phase = "read" /\ read # Invalid
  /\ phase' = "closed"
  /\ Stamp
  /\ UNCHANGED <<gen, semaphore, keys, cancelled, goroutines>>

SkipUpdate ==
  /\ phase = "read" /\ read = Invalid /\ keys[gen] \in SkipInvalid
  /\ phase' = "watching"
  /\ Stamp
  /\ UNCHANGED <<gen, semaphore, keys, cancelled, goroutines>>

(* panic(err)                                                              *)
RefuseUpdate ==
  /\ phase = "read" /\ read = Invalid /\ keys[gen] \notin SkipInvalid
  /\ phase' = "exited"
  /\ UNCHANGED <<gen, semaphore, keys, cancelled, goroutines, disk>>

InitializeStorage ==
  /\ phase = "closed"
  /\ phase' = "initialized"
  /\ UNCHANGED <<gen, semaphore, keys, cancelled, goroutines, disk>>

\* Slip: the cancelled context stays in place.
KeepContext ==
  /\ phase = "initialized"
  /\ phase' = "replacing"
  /\ gen' = gen + 1
  /\ keys' = [keys EXCEPT ![gen + 1] = read]
  /\ cancelled' = [cancelled EXCEPT ![gen + 1] = TRUE]
  /\ UNCHANGED <<semaphore, goroutines, disk>>

(* Monitor replaces the package's context, ...                             *)
ReplaceContext ==
  /\ phase = "initialized"
  /\ phase' = "replacing"
  /\ gen' = gen + 1
  /\ keys' = [keys EXCEPT ![gen + 1] = read]
  /\ UNCHANGED <<semaphore, cancelled, goroutines, disk>>

(* ... then its semaphore, and then it starts the goroutines.              *)
ReplaceSemaphore ==
  /\ phase = "replacing"
  /\ phase' = "starting"
  /\ semaphore' = gen
  /\ UNCHANGED <<gen, keys, cancelled, goroutines, disk>>

(* The termination signal: stop(cfg), save() and the end of main.          *)
Terminate ==
  /\ Alive
  /\ gen > 0 \/ phase # "starting"
  /\ phase' = "exited"
  /\ cancelled' = [cancelled EXCEPT ![gen] = TRUE]
  /\ UNCHANGED <<gen, semaphore, keys, goroutines, disk>>

-----------------------------------------------------------------------------
(* The outside world *)

\* Slip: only what is modified once the listener runs is noticed.
EditFileUnderWatch ==
  /\ Alive /\ edits < MaxEdits
  /\ edits' = edits + 1
  /\ file' \in Contents \ {file}
  /\ modified' = (modified \/ (phase = "watching" /\ ~sameSecond))
  /\ blind' = (phase = "read" \/ sameSecond)
  /\ UNCHANGED <<process, goroutines, read, sameSecond>>

(* The modification time has a resolution of one second.                   *)
EditFile ==
  /\ Alive /\ edits < MaxEdits
  /\ edits' = edits + 1
  /\ file' \in Contents \ {file}
  /\ modified' = (modified \/ ~sameSecond)
  /\ blind' = (phase = "read" \/ sameSecond)
  /\ UNCHANGED <<process, goroutines, read, sameSecond>>

SecondPasses ==
  /\ Alive /\ sameSecond
  /\ sameSecond' = FALSE
  /\ UNCHANGED <<process, goroutines, file, read, modified, edits, blind>>

-----------------------------------------------------------------------------
Init ==
  /\ phase = "starting" /\ gen = 0 /\ semaphore = 0
  /\ keys = [g \in Generations |-> IF g = 0 THEN FirstContent ELSE {}]
  /\ cancelled = [g \in Generations |-> FALSE]
  /\ inUse = [g \in Generations |-> 0]
  /\ loop = [g \in Generations |-> [m \in Monitors |-> "none"]]
  /\ ctx = [g \in Generations |-> [m \in Monitors |-> 0]]
  /\ sem = [g \in Generations |-> [m \in Monitors |-> 0]]
  /\ back = [g \in Generations |-> [m \in Monitors |-> 0]]
  /\ strayed = {}
  /\ file = FirstContent /\ read = FirstContent
  /\ modified = FALSE /\ sameSecond = TRUE
  /\ edits = 0 /\ blind = FALSE

Execute(g, m) ==
  \/ ReadSemaphore(g, m) \/ AcquireFails(g, m) \/ Defer(g, m)
  \/ SkipNoConnectivity(g, m) \/ SkipReceived(g, m) \/ Finish(g, m) \/ ReleasedMore(g, m)

Reload ==
  \/ Started \/ Shutdown \/ ReadFile \/ CloseStore \/ SkipUpdate \/ RefuseUpdate
  \/ InitializeStorage \/ ReplaceContext \/ ReplaceSemaphore
  \/ \E m \in Monitors : StartLoop(m)

Next ==
  \/ \E g \in Generations, m \in Monitors :
       TickerFires(g, m) \/ StopLoop(g, m) \/ Acquire(g, m) \/ Execute(g, m)
  \/ Reload \/ Terminate
  \/ EditFile \/ SecondPasses

Spec == Init /\ [][Next]_vars

(* Tickers never stop and the functions a goroutine calls return (every    *)
(* check has a timeout).  A select whose context is cancelled cannot       *)
(* choose the ticker for ever, and the semaphore serves its waiters in     *)
(* order, so that none waits for ever.                                     *)
Fairness ==
  /\ \A g \in Generations, m \in Monitors :
       /\ WF_vars(TickerFires(g, m) \/ Execute(g, m))
       /\ SF_vars(Acquire(g, m))
  /\ SF_vars(\E g \in Generations, m \in Monitors : StopLoop(g, m))  \* each stops once
  /\ WF_vars(Reload)
  /\ WF_vars(SecondPasses)

FairSpec == Spec /\ Fairness

-----------------------------------------------------------------------------
(* Properties *)

(* The goroutines that hold a permit of generation s's semaphore.          *)
Holders(s) ==
  {gm \in Generations \X Monitors :
     loop[gm[1]][gm[2]] \in {"acquired", "running"} /\ sem[gm[1]][gm[2]] = s}

(* watchdog/watchdog.go:28-36, watchdog/endpoint.go:37-42: the permits in  *)
(* use are those that goroutines hold, except of a semaphore that a reload *)
(* exchanged under an execution which then returns its permit elsewhere.   *)
(* However that happens, the semaphore in place never loses a permit, and  *)
(* only a goroutine of a replaced generation returns one elsewhere.        *)
PermitsBalance ==
  /\ \A s \in Generations \ strayed : inUse[s] = Cardinality(Holders(s))
  /\ inUse[semaphore] <= Cardinality(Holders(semaphore))
  /\ \A g \in Generations, m \in Monitors :
       loop[g][m] = "running" /\ sem[g][m] # back[g][m] => g < gen

(* main.go:231-248: from stop(cfg) until start(updatedConfig), nothing     *)
(* starts a new execution, not even a goroutine whose ticker wins.         *)
NothingStartsWhileStopped ==
  [][(phase \in {"stopped", "read", "closed", "initialized"}) =>
       \A g \in Generations, m \in Monitors :
         loop[g][m] = "waiting" => loop'[g][m] # "acquired"]_vars

(* watchdog/endpoint.go:21-28: every monitor of a configuration that stays *)
(* gets its turn over and over, however few permits there are, also while  *)
(* goroutines of the previous configuration are still there.               *)
EveryMonitorServed ==
  \A m \in Monitors :
    (<>[](phase = "watching" /\ ~cancelled[gen] /\ m \in keys[gen]))
      => []<>(loop[gen][m] = "running")

(* watchdog/endpoint.go:23-25: the goroutines of a configuration that was  *)
(* replaced end, except one that waits, with the new context, for a permit *)
(* of the old semaphore which was returned to the new one.                 *)
OldLoopsStop ==
  []<>(\A g \in Generations, m \in Monitors :
         cancelled[g] /\ Alive =>
           \/ loop[g][m] \in {"none", "stopped"}
           \/ loop[g][m] = "waiting" /\ sem[g][m] \in strayed \ {semaphore})

(* main.go:229-249: a valid update brings the monitoring back, also after  *)
(* an invalid one was skipped.                                             *)
ValidUpdateResumes ==
  (phase = "stopped" /\ file # Invalid)
    ~> ((phase = "watching" /\ ~cancelled[gen]) \/ file = Invalid \/ ~Alive)

(* main.go:238: after an invalid update the old configuration continues    *)
(* being used.                                                             *)
WatchingMeansMonitoring == phase = "watching" => ~cancelled[gen]

(* config/config.go:175-176: a file that was modified since it was last    *)
(* read is noticed, whatever was going on when it was edited, and the      *)
(* latest valid content ends up being used, unless the edit fell into the  *)
(* window that comparing whole seconds leaves.                             *)
LatestContentUsed ==
  <>[](phase = "exited" \/ file = Invalid \/ keys[gen] = file \/ blind)
=============================================================================
