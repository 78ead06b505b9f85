----------------------------- MODULE Connectivity -----------------------------
(***************************************************************************)
(* The connectivity checker: all goroutines of the watchdog call           *)
(* IsConnected, which reads and writes lastCheck and isConnected without a *)
(* lock.  A check of the network takes up to its timeout; everything else  *)
(* happens in no time.                                                     *)
(***************************************************************************)
EXTENDS Integers

CONSTANTS
  Callers,
  CheckTimeout,    \* 5 seconds
  CheckInterval,   \* Checker.Interval, at least as long
  LastInstant      \* bound: the clock stops here

ASSUME CheckAssumption == CheckTimeout \in Nat /\ CheckInterval \in Nat /\ CheckTimeout <= CheckInterval

VARIABLES
  now,
  lastCheck,      \* Checker.lastCheck
  checkedAt,      \* history: when the check began that isConnected is from
  call,           \* where each call of IsConnected is
  began,          \* its variable now
  answered        \* the last answer: its age, and whether another call was storing

connectivityVars == <<now, lastCheck, checkedAt, call, began, answered>>

Never == -(CheckInterval + CheckTimeout + 1)

(* A race between the two assignments: in either order.                    *)
StoringStates == {"storing", "storingTime", "storingAnswer"}
SomebodyElseStores(c) == \E d \in Callers \ {c} : call[d] \in StoringStates

AnswerIsKept(c) ==
  /\ call[c] = "idle" /\ now <= lastCheck + CheckInterval
  /\ call' = [call EXCEPT ![c] = "answering"]
  /\ UNCHANGED <<now, lastCheck, checkedAt, began, answered>>

\* Slip: the time is stored before the check rather than with its result.
BeginCheckStored(c) ==
  /\ call[c] = "idle" /\ now > lastCheck + CheckInterval
  /\ began' = [began EXCEPT ![c] = now]
  /\ lastCheck' = now
  /\ call' = [call EXCEPT ![c] = "checking"]
  /\ UNCHANGED <<now, checkedAt, answered>>
BeginCheck(c) ==
  /\ call[c] = "idle" /\ now > lastCheck + CheckInterval
  /\ began' = [began EXCEPT ![c] = now]
  /\ call' = [call EXCEPT ![c] = "checking"]
  /\ UNCHANGED <<now, lastCheck, checkedAt, answered>>

EndCheck(c) ==
  /\ call[c] = "checking"
  /\ call' = [call EXCEPT ![c] = "storing"]
  /\ UNCHANGED <<now, lastCheck, checkedAt, began, answered>>

StoreTime(c) ==
  /\ call[c] \in {"storing", "storingTime"}
  /\ lastCheck' = began[c]
  /\ call' = [call EXCEPT ![c] = IF @ = "storing" THEN "storingAnswer" ELSE "answering"]
  /\ UNCHANGED <<now, checkedAt, began, answered>>

StoreAnswer(c) ==
  /\ call[c] \in {"storing", "storingAnswer"}
  /\ checkedAt' = began[c]
  /\ call' = [call EXCEPT ![c] = IF @ = "storing" THEN "storingTime" ELSE "answering"]
  /\ UNCHANGED <<now, lastCheck, began, answered>>

Answer(c) ==
  /\ call[c] = "answering"
  /\ answered' = [age |-> now - checkedAt, race |-> SomebodyElseStores(c)]
  /\ call' = [call EXCEPT ![c] = "idle"]
  /\ UNCHANGED <<now, lastCheck, checkedAt, began>>

TimePasses ==
  /\ now < LastInstant
  /\ \A c \in Callers : call[c] = "idle" \/ (call[c] = "checking" /\ now < began[c] + CheckTimeout)
  /\ now' = now + 1
  /\ UNCHANGED <<lastCheck, checkedAt, call, began, answered>>

ConnectivityInit ==
  /\ now = 0 /\ lastCheck = Never /\ checkedAt = Never
  /\ call = [c \in Callers |-> "idle"] /\ began = [c \in Callers |-> 0]
  /\ answered = [age |-> 0, race |-> FALSE]
ConnectivityIdle == ConnectivityInit

ConnectivityNext ==
  \/ \E c \in Callers : \/ AnswerIsKept(c) \/ BeginCheck(c) \/ EndCheck(c)
                        \/ StoreTime(c) \/ StoreAnswer(c) \/ Answer(c)
  \/ TimePasses

-----------------------------------------------------------------------------
(* connectivity.go:49-54: whether checks are skipped is decided by a check *)
(* of the network that began at most an interval and a timeout ago, however *)
(* many calls overlap and overwrite each other; only in the instant in     *)
(* which another call stores its result, older ones are seen.              *)
AnswersAreFresh == answered.age <= CheckInterval + CheckTimeout \/ answered.race
=============================================================================
