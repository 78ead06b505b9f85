---------------------------- MODULE WatchdogProofs ----------------------------
(***************************************************************************)
(* Proofs about Watchdog, for any monitors, any number of permits, any     *)
(* contents of the configuration file and any number of edits.             *)
(***************************************************************************)
EXTENDS Watchdog, FiniteSetTheorems, TLAPS

Reloading == phase \in {"stopped", "read", "closed", "initialized"}

Holding == {"acquired", "running"}

(* Every generation but the first was created because of an edit of its    *)
(* own, and what is being loaded is a content that loads.                  *)
ReloadInv ==
  /\ phase \in {"stopped", "read"} => modified
  /\ phase \in {"closed", "initialized"} => read # Invalid
  /\ gen + (IF modified THEN 1 ELSE 0)
         + (IF phase \in {"closed", "initialized"} THEN 1 ELSE 0) <= edits

(* Contexts of replaced generations are cancelled, and so is the newest    *)
(* one while it is being replaced; nobody uses one that is yet to come.    *)
ContextInv ==
  /\ \A g \in Generations : g < gen \/ (g = gen /\ Reloading) => cancelled[g]
  /\ \A g \in Generations, m \in Monitors : ctx[g][m] <= gen

(* The semaphore is replaced after the context, and before any goroutine   *)
(* of the generation is started.                                           *)
PlacedInv ==
  /\ semaphore <= gen
  /\ phase \in {"replacing", "exited"} \/ semaphore = gen
  /\ \A g \in Generations, m \in Monitors : loop[g][m] # "none" => g <= semaphore

(* A goroutine reads semaphores that are at least as new as itself and     *)
(* never an older one than before; one that it has read twice is the same, *)
(* or both are known as strayed.                                           *)
OrderInv ==
  \A g \in Generations, m \in Monitors :
    /\ loop[g][m] \in {"waiting", "acquired", "running"} =>
         g <= sem[g][m] /\ sem[g][m] <= semaphore
    /\ loop[g][m] = "running" => sem[g][m] <= back[g][m] /\ back[g][m] <= semaphore
    /\ loop[g][m] = "running" /\ sem[g][m] # back[g][m] =>
         sem[g][m] \in strayed /\ back[g][m] \in strayed

(* The semaphores that did not stray are balanced, the newest has lost no  *)
(* permit, and those to come are fresh; only finitely many permits are     *)
(* ever taken, whether or not there are finitely many monitors.            *)
PermitsInv ==
  /\ \A s \in Generations : IsFiniteSet(Holders(s))
  /\ \A s \in Generations \ strayed : inUse[s] = Cardinality(Holders(s))
  /\ inUse[semaphore] <= Cardinality(Holders(semaphore))
  /\ \A s \in Generations : s > semaphore => inUse[s] = 0

WatchdogInv == TypeOK /\ ReloadInv /\ ContextInv /\ PlacedInv /\ OrderInv /\ PermitsInv

-----------------------------------------------------------------------------
(* Generations are numbers, and every number up to the last edit is one.   *)
LEMMA GenerationFacts ==
  /\ MaxEdits \in Nat /\ Concurrency \in Nat
  /\ \A g \in Generations : g \in Nat
  /\ \A g \in Nat : g <= MaxEdits => g \in Generations
BY NumberAssumption DEF Generations

(* What a goroutine has read is a generation, and so are the newest ones.  *)
LEMMA LocalFacts ==
  ASSUME TypeOK
  PROVE  /\ ctx \in [Generations -> [Monitors -> Generations]]
         /\ sem \in [Generations -> [Monitors -> Generations]]
         /\ back \in [Generations -> [Monitors -> Generations]]
         /\ gen \in Generations /\ gen \in Nat
         /\ semaphore \in Generations /\ semaphore \in Nat
         /\ \A g \in Generations, m \in Monitors :
              /\ ctx[g][m] \in Generations /\ ctx[g][m] \in Nat
              /\ sem[g][m] \in Generations /\ sem[g][m] \in Nat
              /\ back[g][m] \in Generations /\ back[g][m] \in Nat
<1>1. /\ ctx \in [Generations -> [Monitors -> Generations]]
      /\ sem \in [Generations -> [Monitors -> Generations]]
      /\ back \in [Generations -> [Monitors -> Generations]]
      /\ gen \in Generations /\ semaphore \in Generations
  BY DEF TypeOK
<1>2. \A g \in Generations, m \in Monitors :
        ctx[g][m] \in Generations /\ sem[g][m] \in Generations /\ back[g][m] \in Generations
  BY <1>1
<1> QED
  BY <1>1, <1>2, GenerationFacts

(* A goroutine moves, all others stay where they are.                      *)
LEMMA MoveEffect ==
  ASSUME TypeOK, NEW g \in Generations, NEW m \in Monitors,
         NEW from, NEW to \in Places, Move(g, m, from, to)
  PROVE  /\ loop' \in [Generations -> [Monitors -> Places]]
         /\ loop[g][m] = from /\ loop'[g][m] = to
         /\ \A h \in Generations, n \in Monitors :
              h # g \/ n # m => loop'[h][n] = loop[h][n]
<1>1. loop \in [Generations -> [Monitors -> Places]]
  BY DEF TypeOK
<1>2. loop[g][m] = from /\ loop' = [loop EXCEPT ![g] = [loop[g] EXCEPT ![m] = to]]
  BY DEF Move
<1> QED
  BY <1>1, <1>2

(* A local of one goroutine changes, those of all others stay.             *)
LEMMA LocalEffect ==
  ASSUME NEW f \in [Generations -> [Monitors -> Generations]],
         NEW g \in Generations, NEW m \in Monitors, NEW v \in Generations, NEW f1,
         f1 = [f EXCEPT ![g][m] = v]
  PROVE  /\ f1 \in [Generations -> [Monitors -> Generations]]
         /\ f1[g][m] = v
         /\ \A h \in Generations, n \in Monitors : h # g \/ n # m => f1[h][n] = f[h][n]
<1>1. f1 = [f EXCEPT ![g] = [f[g] EXCEPT ![m] = v]]
  OBVIOUS
<1> QED
  BY <1>1

(* A move that neither begins nor ends an execution leaves the holders.    *)
LEMMA HoldersKept ==
  ASSUME TypeOK, NEW g \in Generations, NEW m \in Monitors,
         NEW from, NEW to \in Places, Move(g, m, from, to),
         from \in Holding <=> to \in Holding,
         from \in Holding => sem'[g][m] = sem[g][m],
         \A h \in Generations, n \in Monitors : h # g \/ n # m => sem'[h][n] = sem[h][n]
  PROVE  \A s \in Generations : Holders(s)' = Holders(s)
<1>1. ASSUME NEW s \in Generations, NEW h \in Generations, NEW n \in Monitors
      PROVE  (loop'[h][n] \in {"acquired", "running"} /\ sem'[h][n] = s)
               <=> (loop[h][n] \in {"acquired", "running"} /\ sem[h][n] = s)
  BY <1>1, MoveEffect DEF Holding
<1> QED
  BY <1>1 DEF Holders

(* A permit is taken or returned by nobody: the permits stay in order.     *)
LEMMA PermitsKept ==
  ASSUME PermitsInv, \A s \in Generations : Holders(s)' = Holders(s),
         UNCHANGED <<inUse, semaphore>>, strayed \subseteq strayed', semaphore \in Generations
  PROVE  PermitsInv'
BY DEF PermitsInv

(* Acquire takes one permit and makes one more goroutine hold one.         *)
LEMMA HolderAdded ==
  ASSUME WatchdogInv, NEW g \in Generations, NEW m \in Monitors, Acquire(g, m)
  PROVE  PermitsInv' /\ inUse' \in [Generations -> 0..Concurrency]
<1>0. TypeOK /\ OrderInv /\ PermitsInv
  BY DEF WatchdogInv
<1>1. PICK s \in Generations : s = sem[g][m]
  BY <1>0, LocalFacts
<1>2. /\ inUse' = [inUse EXCEPT ![s] = @ + 1] /\ inUse[s] < Concurrency
      /\ UNCHANGED <<sem, semaphore, strayed>>
  BY <1>1 DEF Acquire, process, locals
<1>3. inUse \in [Generations -> 0..Concurrency]
  BY <1>0 DEF TypeOK
<1>4. loop[g][m] = "waiting" /\ loop'[g][m] = "acquired"
      /\ \A h \in Generations, n \in Monitors : h # g \/ n # m => loop'[h][n] = loop[h][n]
  BY <1>0, MoveEffect DEF Acquire, Places
<1>5. Holders(s)' = Holders(s) \cup {<<g, m>>} /\ <<g, m>> \notin Holders(s)
  BY <1>1, <1>2, <1>4 DEF Holders
<1>6. \A t \in Generations : t # s => Holders(t)' = Holders(t)
  BY <1>1, <1>2, <1>4 DEF Holders
<1>7. IsFiniteSet(Holders(s)') /\ Cardinality(Holders(s)') = Cardinality(Holders(s)) + 1
      /\ Cardinality(Holders(s)) \in Nat
  <2>1. IsFiniteSet(Holders(s))
    BY <1>0 DEF PermitsInv
  <2> QED
    BY <1>5, <2>1, FS_AddElement, FS_CardinalityType
<1>8. \A t \in Generations : inUse'[t] = IF t = s THEN inUse[s] + 1 ELSE inUse[t]
  BY <1>2, <1>3
<1>9. inUse' \in [Generations -> 0..Concurrency]
  BY <1>2, <1>3, NumberAssumption
<1>10. semaphore \in Generations /\ ~(s > semaphore) /\ inUse[s] \in Nat
  <2>1. semaphore \in Generations /\ semaphore \in Nat /\ s \in Nat
    BY <1>0, <1>1, LocalFacts
  <2>2. s <= semaphore
    BY <1>0, <1>1, <1>4 DEF OrderInv
  <2> QED
    BY <1>3, <2>1, <2>2
<1>11. \A t \in Generations : IsFiniteSet(Holders(t)')
  BY <1>0, <1>6, <1>7 DEF PermitsInv
<1>12. ASSUME NEW t \in Generations \ strayed
       PROVE  inUse'[t] = Cardinality(Holders(t)')
  BY <1>0, <1>6, <1>7, <1>8 DEF PermitsInv
<1>13. inUse'[semaphore] <= Cardinality(Holders(semaphore)')
  <2>1. inUse[semaphore] <= Cardinality(Holders(semaphore)) /\ inUse[semaphore] \in Nat
        /\ Cardinality(Holders(semaphore)) \in Nat
    BY <1>0, <1>3, <1>10, FS_CardinalityType DEF PermitsInv
  <2>2. CASE s = semaphore
    BY <1>2, <1>7, <1>8, <1>10, <2>1, <2>2 DEF Holders
  <2>3. CASE s # semaphore
    <3>1. Holders(semaphore)' = Holders(semaphore)
      BY <1>2, <1>6, <1>10, <2>3 DEF Holders
    <3>2. inUse'[semaphore] = inUse[semaphore]
      BY <1>8, <1>10, <2>3
    <3> QED
      BY <2>1, <3>1, <3>2
  <2> QED
    BY <2>2, <2>3
<1>14. \A t \in Generations : t > semaphore => inUse'[t] = 0
  BY <1>0, <1>8, <1>10 DEF PermitsInv
<1> QED
  BY <1>0, <1>2, <1>9, <1>11, <1>12, <1>13, <1>14 DEF PermitsInv, Holders

(* The deferred Release returns a permit, to the semaphore that it was     *)
(* taken from or to a newer one: the newest one does not lose any.         *)
LEMMA HolderRemoved ==
  ASSUME WatchdogInv, NEW g \in Generations, NEW m \in Monitors, Return(g, m)
  PROVE  PermitsInv' /\ inUse' \in [Generations -> 0..Concurrency]
<1>0. TypeOK /\ OrderInv /\ PermitsInv
  BY DEF WatchdogInv
<1>1. PICK s \in Generations, b \in Generations : s = sem[g][m] /\ b = back[g][m]
  BY <1>0, LocalFacts
<1>2. /\ inUse' = [inUse EXCEPT ![b] = @ - 1] /\ inUse[b] > 0
      /\ UNCHANGED <<semaphore, strayed>>
  BY <1>1 DEF Return, process
<1>3. inUse \in [Generations -> 0..Concurrency] /\ semaphore \in Generations
  BY <1>0 DEF TypeOK
<1>4. loop[g][m] = "running" /\ loop'[g][m] = "idle"
      /\ \A h \in Generations, n \in Monitors : h # g \/ n # m => loop'[h][n] = loop[h][n]
  BY <1>0, MoveEffect DEF Return, Places
<1>5. \A h \in Generations, n \in Monitors : h # g \/ n # m => sem'[h][n] = sem[h][n]
  <2>1. 0 \in Generations /\ sem' = [sem EXCEPT ![g][m] = 0]
    BY GenerationFacts DEF Return, Forget
  <2>2. sem \in [Generations -> [Monitors -> Generations]]
    BY <1>0 DEF TypeOK
  <2> QED
    BY <2>1, <2>2, LocalEffect
<1>6. Holders(s)' = Holders(s) \ {<<g, m>>} /\ <<g, m>> \in Holders(s)
  BY <1>1, <1>4, <1>5 DEF Holders
<1>7. \A t \in Generations : t # s => Holders(t)' = Holders(t)
  BY <1>1, <1>4, <1>5 DEF Holders
<1>8. IsFiniteSet(Holders(s)') /\ Cardinality(Holders(s)') = Cardinality(Holders(s)) - 1
      /\ Cardinality(Holders(s)) \in Nat
  <2>1. IsFiniteSet(Holders(s))
    BY <1>0 DEF PermitsInv
  <2> QED
    BY <1>6, <2>1, FS_RemoveElement, FS_CardinalityType
<1>9. \A t \in Generations : inUse'[t] = IF t = b THEN inUse[b] - 1 ELSE inUse[t]
  BY <1>2, <1>3
<1>10. inUse' \in [Generations -> 0..Concurrency]
  <2>1. inUse[b] - 1 \in 0..Concurrency
    BY <1>2, <1>3, NumberAssumption
  <2> QED
    BY <1>2, <1>3, <2>1
<1>11. /\ s <= b /\ b <= semaphore /\ s \in Nat /\ b \in Nat /\ semaphore \in Nat
       /\ s # b => s \in strayed /\ b \in strayed
  <2>1. s <= b /\ b <= semaphore /\ (s # b => s \in strayed /\ b \in strayed)
    BY <1>0, <1>1, <1>4 DEF OrderInv
  <2> QED
    BY <1>0, <1>1, <2>1, LocalFacts
<1>12. \A t \in Generations : IsFiniteSet(Holders(t)')
  BY <1>0, <1>7, <1>8 DEF PermitsInv
<1>13. ASSUME NEW t \in Generations \ strayed
       PROVE  inUse'[t] = Cardinality(Holders(t)')
  BY <1>0, <1>7, <1>8, <1>9, <1>11 DEF PermitsInv
<1>14. inUse'[semaphore] <= Cardinality(Holders(semaphore)')
  <2>1. inUse[semaphore] <= Cardinality(Holders(semaphore)) /\ inUse[semaphore] \in Nat
    BY <1>0, <1>3 DEF PermitsInv
  <2>2. Cardinality(Holders(semaphore)) \in Nat
    BY <1>0, <1>3, FS_CardinalityType DEF PermitsInv
  <2>3. CASE s = semaphore
    <3>1. b = semaphore
      BY <1>11, <2>3
    <3>2. inUse'[semaphore] = inUse[semaphore] - 1
      BY <1>3, <1>9, <3>1
    <3>3. Cardinality(Holders(semaphore)') = Cardinality(Holders(semaphore)) - 1
      BY <1>2, <1>8, <2>3 DEF Holders
    <3> QED
      BY <2>1, <2>2, <3>2, <3>3
  <2>4. CASE s # semaphore
    <3>1. Holders(semaphore)' = Holders(semaphore)
      BY <1>2, <1>3, <1>7, <2>4 DEF Holders
    <3>2. inUse'[semaphore] \in {inUse[semaphore], inUse[semaphore] - 1}
      BY <1>3, <1>9
    <3> QED
      BY <2>1, <2>2, <3>1, <3>2
  <2> QED
    BY <2>3, <2>4
<1>15. \A t \in Generations : t > semaphore => inUse'[t] = 0
  <2> SUFFICES ASSUME NEW t \in Generations, t > semaphore PROVE inUse'[t] = 0
    OBVIOUS
  <2>1. t # b
    BY <1>11, GenerationFacts
  <2> QED
    BY <1>0, <1>9, <2>1 DEF PermitsInv
<1> QED
  BY <1>0, <1>2, <1>10, <1>12, <1>13, <1>14, <1>15 DEF PermitsInv, Holders

-----------------------------------------------------------------------------
(* What a goroutine does: call, acquire, execute, release, or end.         *)
LEMMA LoopStep ==
  ASSUME WatchdogInv, NEW g \in Generations, NEW m \in Monitors,
         TickerFires(g, m) \/ StopLoop(g, m) \/ Acquire(g, m)
           \/ (Execute(g, m) /\ ~ReleasedMore(g, m))
  PROVE  WatchdogInv'
<1> USE DEF WatchdogInv
<1>1. UNCHANGED <<process, disk>>
  BY DEF TickerFires, StopLoop, Acquire, Execute, ReadSemaphore, AcquireFails, Defer,
         SkipNoConnectivity, SkipReceived, Finish, Return
<1>2. UNCHANGED <<phase, gen, semaphore, cancelled>>
  BY <1>1 DEF process
<1>3. ReloadInv'
  BY <1>1 DEF ReloadInv, process, disk
<1>4. PICK from, to \in Places : Move(g, m, from, to) /\ from # "none"
  BY DEF TickerFires, StopLoop, Acquire, Execute, ReadSemaphore, AcquireFails, Defer,
         SkipNoConnectivity, SkipReceived, Finish, Return, Places
<1>5. /\ loop' \in [Generations -> [Monitors -> Places]]
      /\ loop[g][m] # "none"
      /\ \A h \in Generations, n \in Monitors :
           h # g \/ n # m => loop'[h][n] = loop[h][n]
  BY <1>4, MoveEffect
<1>6. PlacedInv'
  BY <1>2, <1>5 DEF PlacedInv
<1>7. /\ ctx \in [Generations -> [Monitors -> Generations]]
      /\ sem \in [Generations -> [Monitors -> Generations]]
      /\ back \in [Generations -> [Monitors -> Generations]]
      /\ gen \in Generations /\ semaphore \in Generations /\ 0 \in Generations
      /\ gen \in Nat /\ semaphore \in Nat
  <2>1. TypeOK /\ 0 \in Generations
    BY GenerationFacts
  <2> QED
    BY <2>1, LocalFacts
<1>8. CASE TickerFires(g, m)
  <2>1. ctx' = [ctx EXCEPT ![g][m] = gen] /\ UNCHANGED <<inUse, sem, back, strayed>>
    BY <1>8 DEF TickerFires
  <2>2. /\ ctx' \in [Generations -> [Monitors -> Generations]]
        /\ ctx'[g][m] = gen
        /\ \A h \in Generations, n \in Monitors : h # g \/ n # m => ctx'[h][n] = ctx[h][n]
    BY <1>7, <2>1, LocalEffect
  <2>3. ContextInv'
    BY <1>2, <1>7, <2>2 DEF ContextInv, Reloading
  <2>4. PICK f \in {"idle", "begun"} : Move(g, m, f, "contextRead")
    BY <1>8 DEF TickerFires
  <2>5. PermitsInv'
    BY <1>2, <1>7, <2>1, <2>4, HoldersKept, PermitsKept DEF Places, Holding
  <2>6. loop'[g][m] = "contextRead"
    BY <2>4, MoveEffect DEF Places
  <2>7. OrderInv'
    BY <1>2, <1>5, <2>1, <2>6 DEF OrderInv
  <2>8. TypeOK'
    BY <1>1, <1>5, <2>1, <2>2 DEF TypeOK, process, disk
  <2> QED
    BY <1>3, <1>6, <2>3, <2>5, <2>7, <2>8
<1>9. CASE StopLoop(g, m)
  <2>1. UNCHANGED <<inUse, ctx, sem, back, strayed>> /\ Move(g, m, "idle", "stopped")
    BY <1>9 DEF StopLoop, locals
  <2>2. PermitsInv'
    BY <1>2, <1>7, <2>1, HoldersKept, PermitsKept DEF Places, Holding
  <2>3. loop'[g][m] = "stopped"
    BY <2>1, MoveEffect DEF Places
  <2>4. OrderInv'
    BY <1>2, <1>5, <2>1, <2>3 DEF OrderInv
  <2>5. ContextInv'
    BY <1>2, <2>1 DEF ContextInv, Reloading
  <2>6. TypeOK'
    BY <1>1, <1>5, <2>1 DEF TypeOK, process, disk
  <2> QED
    BY <1>3, <1>6, <2>2, <2>4, <2>5, <2>6
<1>10. CASE ReadSemaphore(g, m)
  <2>1. /\ sem' = [sem EXCEPT ![g][m] = semaphore] /\ UNCHANGED <<inUse, ctx, back, strayed>>
        /\ Move(g, m, "contextRead", "waiting")
    BY <1>10 DEF ReadSemaphore
  <2>2. /\ sem' \in [Generations -> [Monitors -> Generations]]
        /\ sem'[g][m] = semaphore
        /\ \A h \in Generations, n \in Monitors : h # g \/ n # m => sem'[h][n] = sem[h][n]
    BY <1>7, <2>1, LocalEffect
  <2>3. PermitsInv'
    BY <1>2, <1>7, <2>1, <2>2, HoldersKept, PermitsKept DEF Places, Holding
  <2>4. loop'[g][m] = "waiting"
    BY <2>1, MoveEffect DEF Places
  <2>5. g <= semaphore
    BY <1>5 DEF PlacedInv
  <2>6. OrderInv'
    BY <1>2, <1>5, <1>7, <2>1, <2>2, <2>4, <2>5 DEF OrderInv
  <2>7. ContextInv'
    BY <1>2, <2>1 DEF ContextInv, Reloading
  <2>8. TypeOK'
    BY <1>1, <1>5, <2>1, <2>2 DEF TypeOK, process, disk
  <2> QED
    BY <1>3, <1>6, <2>3, <2>6, <2>7, <2>8
<1>11. CASE Acquire(g, m)
  <2>1. UNCHANGED <<ctx, sem, back, strayed>> /\ Move(g, m, "waiting", "acquired")
    BY <1>11 DEF Acquire, locals
  <2>2. PermitsInv' /\ inUse' \in [Generations -> 0..Concurrency]
    BY <1>11, HolderAdded
  <2>3. loop[g][m] = "waiting" /\ loop'[g][m] = "acquired"
    BY <2>1, MoveEffect DEF Places
  <2>4. OrderInv'
    BY <1>2, <1>5, <2>1, <2>3 DEF OrderInv
  <2>5. ContextInv'
    BY <1>2, <2>1 DEF ContextInv, Reloading
  <2>6. TypeOK'
    BY <1>1, <1>5, <2>1, <2>2 DEF TypeOK, process, disk
  <2> QED
    BY <1>3, <1>6, <2>2, <2>4, <2>5, <2>6
<1>12. CASE Defer(g, m)
  <2>1. /\ back' = [back EXCEPT ![g][m] = semaphore] /\ UNCHANGED <<inUse, ctx, sem>>
        /\ Move(g, m, "acquired", "running")
    BY <1>12 DEF Defer
  <2>2. /\ back' \in [Generations -> [Monitors -> Generations]]
        /\ back'[g][m] = semaphore
        /\ \A h \in Generations, n \in Monitors : h # g \/ n # m => back'[h][n] = back[h][n]
    BY <1>7, <2>1, LocalEffect
  <2>3. sem[g][m] \in Generations
    BY <1>7
  <2>4. /\ strayed \subseteq strayed' /\ strayed' \subseteq Generations
        /\ sem[g][m] # semaphore => sem[g][m] \in strayed' /\ semaphore \in strayed'
    BY <1>7, <1>12, <2>3 DEF Defer, TypeOK
  <2>5. PermitsInv'
    BY <1>2, <1>7, <2>1, <2>4, HoldersKept, PermitsKept DEF Places, Holding
  <2>6. loop[g][m] = "acquired" /\ loop'[g][m] = "running"
    BY <2>1, MoveEffect DEF Places
  <2>7. OrderInv'
    <3> SUFFICES ASSUME NEW h \in Generations, NEW n \in Monitors
                 PROVE  /\ loop'[h][n] \in {"waiting", "acquired", "running"} =>
                             h <= sem'[h][n] /\ sem'[h][n] <= semaphore'
                        /\ loop'[h][n] = "running" =>
                             sem'[h][n] <= back'[h][n] /\ back'[h][n] <= semaphore'
                        /\ loop'[h][n] = "running" /\ sem'[h][n] # back'[h][n] =>
                             sem'[h][n] \in strayed' /\ back'[h][n] \in strayed'
      BY DEF OrderInv
    <3>1. CASE h = g /\ n = m
      <4>1. g <= sem[g][m] /\ sem[g][m] <= semaphore
        BY <2>6 DEF OrderInv
      <4>2. sem'[g][m] = sem[g][m] /\ back'[g][m] = semaphore /\ semaphore' = semaphore
        BY <1>2, <2>1, <2>2
      <4>3. semaphore <= semaphore
        BY <1>7
      <4> QED
        BY <2>4, <3>1, <4>1, <4>2, <4>3
    <3>2. CASE h # g \/ n # m
      BY <1>2, <1>5, <2>1, <2>2, <2>4, <3>2 DEF OrderInv
    <3> QED
      BY <3>1, <3>2
  <2>8. ContextInv'
    BY <1>2, <2>1 DEF ContextInv, Reloading
  <2>9. TypeOK'
    BY <1>1, <1>5, <2>1, <2>2, <2>4 DEF TypeOK, process, disk
  <2> QED
    BY <1>3, <1>6, <2>5, <2>7, <2>8, <2>9
<1>13. CASE AcquireFails(g, m) \/ Return(g, m)
  <2>1. /\ ctx' = [ctx EXCEPT ![g][m] = 0] /\ sem' = [sem EXCEPT ![g][m] = 0]
        /\ back' = [back EXCEPT ![g][m] = 0] /\ UNCHANGED strayed
    BY <1>13 DEF AcquireFails, Return, Forget
  <2>2. /\ ctx' \in [Generations -> [Monitors -> Generations]] /\ ctx'[g][m] = 0
        /\ \A h \in Generations, n \in Monitors : h # g \/ n # m => ctx'[h][n] = ctx[h][n]
    BY <1>7, <2>1, LocalEffect
  <2>3. /\ sem' \in [Generations -> [Monitors -> Generations]]
        /\ \A h \in Generations, n \in Monitors : h # g \/ n # m => sem'[h][n] = sem[h][n]
    BY <1>7, <2>1, LocalEffect
  <2>4. /\ back' \in [Generations -> [Monitors -> Generations]]
        /\ \A h \in Generations, n \in Monitors : h # g \/ n # m => back'[h][n] = back[h][n]
    BY <1>7, <2>1, LocalEffect
  <2>5. PermitsInv' /\ inUse' \in [Generations -> 0..Concurrency]
    <3>1. CASE AcquireFails(g, m)
      <4>1. UNCHANGED inUse /\ Move(g, m, "waiting", "idle")
        BY <3>1 DEF AcquireFails
      <4>2. \A s \in Generations : Holders(s)' = Holders(s)
        BY <2>3, <4>1, HoldersKept DEF Places, Holding
      <4>3. inUse \in [Generations -> 0..Concurrency]
        BY DEF TypeOK
      <4> QED
        BY <1>2, <1>7, <2>1, <4>1, <4>2, <4>3, PermitsKept
    <3>2. CASE Return(g, m)
      BY <3>2, HolderRemoved
    <3> QED
      BY <1>13, <3>1, <3>2
  <2>6. loop'[g][m] = "idle"
    BY <1>13, MoveEffect DEF AcquireFails, Return, Places
  <2>7. OrderInv'
    <3> SUFFICES ASSUME NEW h \in Generations, NEW n \in Monitors, h # g \/ n # m
                 PROVE  /\ loop'[h][n] = loop[h][n] /\ sem'[h][n] = sem[h][n]
                        /\ back'[h][n] = back[h][n]
      BY <1>2, <2>1, <2>6 DEF OrderInv
    <3> QED
      BY <1>5, <2>3, <2>4
  <2>8. ContextInv'
    BY <1>2, <1>7, <2>2 DEF ContextInv, Reloading
  <2>9. TypeOK'
    BY <1>1, <1>5, <2>1, <2>2, <2>3, <2>4, <2>5 DEF TypeOK, process, disk
  <2> QED
    BY <1>3, <1>6, <2>5, <2>7, <2>8, <2>9
<1> QED
  BY <1>8, <1>9, <1>10, <1>11, <1>12, <1>13 DEF Execute, SkipNoConnectivity, SkipReceived, Finish

(* Monitor starting the goroutine of a monitor.                            *)
LEMMA StartStep ==
  ASSUME WatchdogInv, NEW m \in Monitors, StartLoop(m)
  PROVE  WatchdogInv'
<1> USE DEF WatchdogInv
<1>1. /\ UNCHANGED <<process, inUse, locals, strayed, disk>>
      /\ UNCHANGED <<phase, gen, semaphore, cancelled, ctx, sem, back>>
      /\ gen \in Generations /\ semaphore \in Generations /\ semaphore = gen
  BY DEF StartLoop, TypeOK, PlacedInv, process, locals
<1>2. PICK to \in {"idle", "begun"} : Move(gen, m, "none", to)
  BY DEF StartLoop
<1>3. /\ loop' \in [Generations -> [Monitors -> Places]]
      /\ loop'[gen][m] = to
      /\ \A h \in Generations, n \in Monitors :
           h # gen \/ n # m => loop'[h][n] = loop[h][n]
  BY <1>1, <1>2, MoveEffect DEF Places
<1>4. PermitsInv'
  BY <1>1, <1>2, HoldersKept, PermitsKept DEF Places, Holding
<1>5. PlacedInv'
  <2>1. gen <= semaphore
    BY <1>1, GenerationFacts
  <2> QED
    BY <1>1, <1>3, <2>1 DEF PlacedInv
<1>6. OrderInv'
  BY <1>1, <1>3 DEF OrderInv
<1>7. ContextInv'
  BY <1>1 DEF ContextInv, Reloading
<1>8. TypeOK'
  BY <1>1, <1>3 DEF TypeOK, process, disk
<1> QED
  BY <1>1, <1>4, <1>5, <1>6, <1>7, <1>8 DEF ReloadInv, process, disk

(* A step after which the context and the semaphore are as they were, the  *)
(* goroutines as well, and the phase leaves what it must.                  *)
LEMMA QuietStep ==
  ASSUME WatchdogInv, UNCHANGED <<goroutines, gen, semaphore>>,
         \A g \in Generations : cancelled[g] => cancelled'[g],
         phase' \in {"replacing", "exited"} \/ semaphore = gen,
         Reloading' => Reloading \/ cancelled'[gen]
  PROVE  ContextInv' /\ PlacedInv' /\ OrderInv' /\ PermitsInv'
<1> USE DEF WatchdogInv, goroutines, locals
<1>1. ContextInv'
  BY DEF ContextInv
<1>2. PlacedInv'
  BY DEF PlacedInv
<1>3. OrderInv'
  BY DEF OrderInv
<1>4. PermitsInv'
  <2>1. \A s \in Generations : Holders(s)' = Holders(s)
    BY DEF Holders
  <2> QED
    BY <2>1, PermitsKept DEF TypeOK
<1> QED
  BY <1>1, <1>2, <1>3, <1>4

(* The steps that leave the goroutines alone.                              *)
LEMMA ProcessStep ==
  ASSUME WatchdogInv,
         \/ Started \/ Shutdown \/ ReadFile \/ CloseStore \/ SkipUpdate \/ RefuseUpdate
         \/ InitializeStorage \/ ReplaceContext \/ ReplaceSemaphore \/ Terminate
         \/ EditFile \/ SecondPasses \/ UNCHANGED vars
         \/ \E g \in Generations, m \in Monitors : ReleasedMore(g, m)
  PROVE  WatchdogInv'
<1> DEFINE Rest == ContextInv' /\ PlacedInv' /\ OrderInv' /\ PermitsInv'
<1>1. /\ WatchdogInv /\ TypeOK /\ ReloadInv /\ ContextInv /\ PlacedInv /\ OrderInv /\ PermitsInv
      /\ gen \in Generations /\ gen \in Nat /\ semaphore \in Generations /\ semaphore \in Nat
  BY GenerationFacts DEF WatchdogInv, TypeOK
<1>2. UNCHANGED goroutines
  BY DEF Started, Shutdown, ReadFile, CloseStore, SkipUpdate, RefuseUpdate, InitializeStorage,
         ReplaceContext, ReplaceSemaphore, Terminate, EditFile, SecondPasses, vars, ReleasedMore
<1> USE DEF ReloadInv, Phases
<1>3. CASE Started \/ RefuseUpdate \/ InitializeStorage
           \/ \E g \in Generations, m \in Monitors : ReleasedMore(g, m)
  <2>1. /\ UNCHANGED <<gen, semaphore, keys, cancelled, disk>> /\ phase' \in Phases
        /\ \/ phase = "starting" /\ phase' = "watching"
           \/ phase' = "exited"
           \/ phase = "closed" /\ phase' = "initialized"
    BY <1>3 DEF Started, RefuseUpdate, InitializeStorage, ReleasedMore
  <2>2. Rest
    <3>1. /\ phase' \in {"replacing", "exited"} \/ semaphore = gen
          /\ Reloading' => Reloading
      BY <1>1, <2>1 DEF PlacedInv, Reloading
    <3> QED
      BY <1>1, <1>2, <2>1, <3>1, QuietStep
  <2>3. TypeOK' /\ ReloadInv'
    BY <1>1, <1>2, <2>1 DEF TypeOK, disk, goroutines, locals
  <2> QED
    BY <2>2, <2>3 DEF WatchdogInv
<1>4. CASE Shutdown \/ Terminate
  <2>1. /\ UNCHANGED <<gen, semaphore, keys, disk>>
        /\ cancelled' = [cancelled EXCEPT ![gen] = TRUE]
        /\ \/ phase = "watching" /\ modified /\ phase' = "stopped"
           \/ phase' = "exited"
    BY <1>4 DEF Shutdown, Terminate
  <2>2. /\ cancelled' \in [Generations -> BOOLEAN] /\ cancelled'[gen]
        /\ \A g \in Generations : cancelled[g] => cancelled'[g]
    BY <1>1, <2>1 DEF TypeOK
  <2>3. Rest
    <3>1. phase' \in {"replacing", "exited"} \/ semaphore = gen
      BY <1>1, <2>1 DEF PlacedInv
    <3> QED
      BY <1>1, <1>2, <2>1, <2>2, <3>1, QuietStep
  <2>4. TypeOK' /\ ReloadInv'
    BY <1>1, <1>2, <2>1, <2>2 DEF TypeOK, disk, goroutines, locals
  <2> QED
    BY <2>3, <2>4 DEF WatchdogInv
<1>5. CASE ReadFile \/ CloseStore \/ SkipUpdate
  <2>1. /\ UNCHANGED <<gen, semaphore, keys, cancelled, file, edits, blind>>
        /\ phase \in {"stopped", "read"} /\ phase' \in {"read", "closed", "watching"}
    BY <1>5 DEF ReadFile, CloseStore, SkipUpdate, Stamp
  <2>2. Rest
    <3>1. semaphore = gen /\ Reloading
      BY <1>1, <2>1 DEF PlacedInv, Reloading
    <3> QED
      BY <1>1, <1>2, <2>1, <3>1, QuietStep
  <2>3. /\ read' \in (SUBSET Monitors) \cup {Invalid}
        /\ modified' \in BOOLEAN /\ sameSecond' \in BOOLEAN
    BY <1>1, <1>5 DEF ReadFile, CloseStore, SkipUpdate, Stamp, TypeOK
  <2>4. TypeOK'
    BY <1>1, <1>2, <2>1, <2>3 DEF TypeOK, goroutines, locals
  <2>5. ReloadInv'
    <3>1. CASE ReadFile
      BY <1>1, <2>1, <3>1 DEF ReadFile
    <3>2. CASE CloseStore
      <4>1. phase' = "closed" /\ ~modified' /\ read' # Invalid /\ gen + 1 <= edits
        BY <1>1, <3>2 DEF CloseStore, Stamp, TypeOK
      <4> QED
        BY <1>1, <2>1, <4>1
    <3>3. CASE SkipUpdate
      <4>1. phase' = "watching" /\ ~modified' /\ gen <= edits
        BY <1>1, <3>3 DEF SkipUpdate, Stamp, TypeOK
      <4> QED
        BY <1>1, <2>1, <4>1
    <3> QED
      BY <1>5, <3>1, <3>2, <3>3
  <2> QED
    BY <2>2, <2>4, <2>5 DEF WatchdogInv
<1>6. CASE ReplaceContext
  <2>1. /\ phase = "initialized" /\ phase' = "replacing" /\ gen' = gen + 1
        /\ keys' = [keys EXCEPT ![gen + 1] = read]
        /\ UNCHANGED <<semaphore, cancelled, disk>>
    BY <1>6 DEF ReplaceContext
  <2>2. gen' \in Generations /\ ReloadInv' /\ gen' \in Nat
    BY <1>1, <2>1, GenerationFacts DEF disk, TypeOK
  <2>3. keys' \in [Generations -> SUBSET Monitors]
    BY <1>1, <2>1 DEF TypeOK
  <2>4. TypeOK'
    BY <1>1, <1>2, <2>1, <2>2, <2>3 DEF TypeOK, disk, goroutines, locals
  <2>5. ContextInv'
    <3>1. ASSUME NEW g \in Generations, g < gen'
          PROVE  g < gen \/ g = gen
      BY <1>1, <2>1, <3>1, GenerationFacts
    <3>2. ASSUME NEW g \in Generations, NEW m \in Monitors
          PROVE  ctx'[g][m] <= gen'
      <4>1. ctx[g][m] \in Nat /\ ctx[g][m] <= gen
        BY <1>1, LocalFacts DEF ContextInv
      <4> QED
        BY <1>1, <1>2, <2>1, <4>1 DEF goroutines, locals
    <3> QED
      BY <1>1, <2>1, <3>1, <3>2 DEF ContextInv, Reloading
  <2>6. PlacedInv'
    BY <1>1, <1>2, <2>1 DEF PlacedInv, goroutines
  <2>7. OrderInv'
    BY <1>1, <1>2, <2>1 DEF OrderInv, goroutines, locals
  <2>8. PermitsInv'
    <3>1. UNCHANGED <<inUse, semaphore, strayed>>
          /\ \A s \in Generations : Holders(s)' = Holders(s)
      BY <1>2, <2>1 DEF Holders, goroutines, locals
    <3> QED
      BY <1>1, <3>1, PermitsKept
  <2> QED
    BY <2>2, <2>4, <2>5, <2>6, <2>7, <2>8 DEF WatchdogInv
<1>7. CASE ReplaceSemaphore
  <2>1. /\ phase = "replacing" /\ phase' = "starting" /\ semaphore' = gen
        /\ UNCHANGED <<gen, keys, cancelled, disk>>
    BY <1>7 DEF ReplaceSemaphore
  <2>2. TypeOK' /\ ReloadInv'
    BY <1>1, <1>2, <2>1 DEF TypeOK, disk, goroutines, locals
  <2>3. ContextInv'
    BY <1>1, <1>2, <2>1 DEF ContextInv, Reloading, goroutines, locals
  <2>4. PlacedInv'
    BY <1>1, <1>2, <2>1, GenerationFacts DEF PlacedInv, goroutines
  <2>5. OrderInv'
    <3>1. \A g \in Generations, m \in Monitors : sem[g][m] \in Nat /\ back[g][m] \in Nat
      BY <1>1, LocalFacts
    <3>2. semaphore <= gen
      BY <1>1 DEF PlacedInv
    <3>3. UNCHANGED <<loop, sem, back, strayed>>
      BY <1>2 DEF goroutines, locals
    <3>4. ASSUME NEW x \in Nat, x <= semaphore
          PROVE  x <= semaphore'
      BY <1>1, <2>1, <3>2, <3>4
    <3> QED
      BY <1>1, <3>1, <3>3, <3>4 DEF OrderInv
  <2>6. PermitsInv'
    <3>1. UNCHANGED <<inUse, strayed>> /\ \A s \in Generations : Holders(s)' = Holders(s)
      BY <1>2 DEF Holders, goroutines, locals
    <3>2. inUse[gen] <= Cardinality(Holders(gen))
      <4>1. CASE semaphore = gen
        BY <1>1, <4>1 DEF PermitsInv
      <4>2. CASE semaphore # gen
        <5>1. gen > semaphore
          BY <1>1, <4>2 DEF PlacedInv
        <5>2. inUse[gen] = 0 /\ Cardinality(Holders(gen)) \in Nat
          BY <1>1, <5>1, FS_CardinalityType DEF PermitsInv
        <5> QED
          BY <5>2
      <4> QED
        BY <4>1, <4>2
    <3>3. \A s \in Generations : s > gen => s > semaphore
      BY <1>1, GenerationFacts DEF PlacedInv
    <3> QED
      BY <1>1, <2>1, <3>1, <3>2, <3>3 DEF PermitsInv
  <2> QED
    BY <2>2, <2>3, <2>4, <2>5, <2>6 DEF WatchdogInv
<1>8. CASE EditFile \/ SecondPasses \/ UNCHANGED vars
  <2>1. UNCHANGED <<phase, gen, semaphore, keys, cancelled>>
    BY <1>8 DEF EditFile, SecondPasses, vars, process
  <2>2. Rest
    BY <1>1, <1>2, <2>1, QuietStep DEF PlacedInv, Reloading
  <2>3. TypeOK' /\ ReloadInv'
    <3>1. CASE EditFile
      <4>1. /\ file' \in (SUBSET Monitors) \cup {Invalid} /\ modified' \in BOOLEAN
            /\ blind' \in BOOLEAN /\ UNCHANGED <<read, sameSecond>>
            /\ modified' = (modified \/ ~sameSecond)
            /\ edits' = edits + 1 /\ edits' \in 0..MaxEdits
        BY <1>1, <3>1, MonitorAssumption, GenerationFacts DEF EditFile, TypeOK
      <4>2. TypeOK'
        BY <1>1, <1>2, <2>1, <4>1 DEF TypeOK, goroutines, locals
      <4>3. edits \in Nat
        BY <1>1 DEF TypeOK
      <4>4. ReloadInv'
        <5> DEFINE busy == IF phase \in {"closed", "initialized"} THEN 1 ELSE 0
                   seen == IF modified THEN 1 ELSE 0
                   seen1 == IF modified' THEN 1 ELSE 0
        <5>1. gen + seen + busy <= edits /\ seen1 <= seen + 1
              /\ seen \in Nat /\ seen1 \in Nat /\ busy \in Nat
          BY <1>1
        <5> HIDE DEF busy, seen, seen1
        <5>2. gen + seen1 + busy <= edits + 1
          BY <1>1, <4>3, <5>1
        <5>3. gen + seen1 + busy <= edits'
          BY <4>1, <5>2
        <5> USE DEF busy, seen, seen1
        <5>4. phase \in {"stopped", "read"} => modified'
          BY <1>1, <4>1
        <5> QED
          BY <1>1, <2>1, <4>1, <5>3, <5>4
      <4> QED
        BY <4>2, <4>4
    <3>2. CASE SecondPasses
      BY <1>1, <1>2, <2>1, <3>2 DEF SecondPasses, TypeOK, goroutines, locals
    <3>3. CASE UNCHANGED vars
      BY <1>1, <1>2, <2>1, <3>3 DEF vars, disk, TypeOK, goroutines, locals
    <3> QED
      BY <1>8, <3>1, <3>2, <3>3
  <2> QED
    BY <2>2, <2>3 DEF WatchdogInv
<1> QED
  BY <1>3, <1>4, <1>5, <1>6, <1>7, <1>8

(* The inductive invariant of the process: also while an execution reads   *)
(* the package's context and semaphores one by one, as a reload replaces   *)
(* them, it takes them in the order in which they were put in place.       *)
THEOREM WatchdogInvariant == Spec => []WatchdogInv
<1>1. Init => WatchdogInv
  <2> SUFFICES ASSUME Init PROVE WatchdogInv
    OBVIOUS
  <2>1. \A s \in Generations : Holders(s) = {} /\ inUse[s] = 0
    BY DEF Init, Holders
  <2>2. 0 \in Generations /\ 0 \in 0..MaxEdits /\ 0 \in 0..Concurrency
    BY GenerationFacts
  <2>3. PermitsInv
    <3>1. semaphore \in Generations
      BY <2>2 DEF Init
    <3> QED
      BY <2>1, <3>1, FS_EmptySet DEF PermitsInv
  <2>4. TypeOK
    <3>1. /\ cancelled \in [Generations -> BOOLEAN] /\ modified \in BOOLEAN
          /\ sameSecond \in BOOLEAN /\ blind \in BOOLEAN
      BY DEF Init
    <3>2. keys \in [Generations -> SUBSET Monitors]
      BY MonitorAssumption DEF Init
    <3>3. /\ inUse \in [Generations -> 0..Concurrency]
          /\ loop \in [Generations -> [Monitors -> Places]]
          /\ ctx \in [Generations -> [Monitors -> Generations]]
          /\ sem \in [Generations -> [Monitors -> Generations]]
          /\ back \in [Generations -> [Monitors -> Generations]]
      BY <2>2 DEF Init, Places
    <3> QED
      BY <2>2, <3>1, <3>2, <3>3, MonitorAssumption DEF Init, TypeOK, Phases
  <2>5. ReloadInv /\ ContextInv
    BY GenerationFacts DEF Init, ReloadInv, ContextInv, Reloading
  <2>6. PlacedInv /\ OrderInv
    BY DEF Init, PlacedInv, OrderInv
  <2> QED
    BY <2>3, <2>4, <2>5, <2>6 DEF WatchdogInv
<1>2. WatchdogInv /\ [Next]_vars => WatchdogInv'
  BY LoopStep, StartStep, ProcessStep DEF Next, Reload, Execute
<1> QED
  BY <1>1, <1>2, PTL DEF Spec

(* watchdog/watchdog.go:28-36, watchdog/endpoint.go:37-42: the permits in  *)
(* use are those that goroutines hold, of every semaphore but those that a *)
(* reload exchanged between an Acquire and the Release deferred for it;    *)
(* the semaphore in place never loses a permit, and only goroutines of     *)
(* replaced generations return one to another semaphore.                   *)
THEOREM PermitsAreBalanced == Spec => []PermitsBalance
<1>1. ASSUME WatchdogInv
      PROVE  PermitsBalance
  <2>1. ASSUME NEW g \in Generations, NEW m \in Monitors,
               loop[g][m] = "running", sem[g][m] # back[g][m]
        PROVE  g < gen
    <3>1. /\ g <= sem[g][m] /\ sem[g][m] <= back[g][m] /\ back[g][m] <= semaphore
          /\ semaphore <= gen
      BY <1>1, <2>1 DEF WatchdogInv, OrderInv, PlacedInv
    <3>2. /\ g \in Nat /\ sem[g][m] \in Nat /\ back[g][m] \in Nat /\ semaphore \in Nat
          /\ gen \in Nat
      BY <1>1, LocalFacts, GenerationFacts DEF WatchdogInv
    <3> QED
      BY <2>1, <3>1, <3>2
  <2> QED
    BY <1>1, <2>1 DEF WatchdogInv, PermitsInv, PermitsBalance
<1> QED
  BY <1>1, WatchdogInvariant, PTL

(* main.go:231-248: from stop(cfg) until start(updatedConfig), nothing     *)
(* starts a new execution.                                                 *)
THEOREM StoppedMeansStopped == Spec => NothingStartsWhileStopped
<1> DEFINE Quiet == phase \in {"stopped", "read", "closed", "initialized"} =>
                      \A g \in Generations, m \in Monitors :
                        loop[g][m] = "waiting" => loop'[g][m] # "acquired"
<1>1. WatchdogInv /\ [Next]_vars => [Quiet]_vars
  <2> SUFFICES ASSUME WatchdogInv, Next, Reloading,
                      NEW g \in Generations, NEW m \in Monitors, loop[g][m] = "waiting"
               PROVE  loop'[g][m] # "acquired"
    BY DEF Reloading
  <2>1. cancelled[ctx[g][m]]
    <3>1. ctx[g][m] \in Generations /\ gen \in Generations
      BY DEF WatchdogInv, TypeOK
    <3>2. ctx[g][m] < gen \/ ctx[g][m] = gen
      BY <3>1, GenerationFacts DEF WatchdogInv, ContextInv
    <3> QED
      BY <3>1, <3>2 DEF WatchdogInv, ContextInv
  <2>2. CASE \E h \in Generations, n \in Monitors :
               TickerFires(h, n) \/ StopLoop(h, n) \/ Acquire(h, n)
                 \/ (Execute(h, n) /\ ~ReleasedMore(h, n))
    <3>1. PICK h \in Generations, n \in Monitors :
               TickerFires(h, n) \/ StopLoop(h, n) \/ Acquire(h, n)
                 \/ (Execute(h, n) /\ ~ReleasedMore(h, n))
      BY <2>2
    <3>2. CASE h = g /\ n = m
      <4>1. AcquireFails(g, m)
        BY <2>1, <3>1, <3>2
        DEF TickerFires, StopLoop, Acquire, Execute, ReadSemaphore, Defer, Return,
            SkipNoConnectivity, SkipReceived, Finish, Move
      <4> QED
        BY <4>1, MoveEffect DEF AcquireFails, WatchdogInv, Places
    <3>3. CASE h # g \/ n # m
      <4>1. PICK from, to \in Places : Move(h, n, from, to)
        BY <3>1 DEF TickerFires, StopLoop, Acquire, Execute, ReadSemaphore, AcquireFails,
                    Defer, Return, SkipNoConnectivity, SkipReceived, Finish, Places
      <4> QED
        BY <3>3, <4>1, MoveEffect DEF WatchdogInv
    <3> QED
      BY <3>2, <3>3
  <2>3. CASE \/ Reload \/ Terminate \/ EditFile \/ SecondPasses
             \/ \E h \in Generations, n \in Monitors : ReleasedMore(h, n)
    BY <2>3
    DEF Reload, Started, Shutdown, ReadFile, CloseStore, SkipUpdate, RefuseUpdate, Stamp,
        InitializeStorage, ReplaceContext, ReplaceSemaphore, ReleasedMore, StartLoop, Terminate, EditFile, SecondPasses,
        goroutines, Reloading
  <2> QED
    BY <2>2, <2>3 DEF Next, Execute
<1> QED
  BY <1>1, WatchdogInvariant, PTL DEF Spec, NothingStartsWhileStopped
=============================================================================
