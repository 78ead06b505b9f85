----------------------------- MODULE PartsProofs -----------------------------
(***************************************************************************)
(* Theorems about the parts of the system that are modelled by themselves: *)
(* SSH tunnels and the connectivity checker with any number of goroutines, *)
(* alert providers with any number of recipients, the evaluation of an     *)
(* endpoint, the pages of its results, its uptime, and its maintenance     *)
(* windows.                                                                *)
(***************************************************************************)
EXTENDS Tunnels, Connectivity, Providers, Evaluation, Paging, Uptime, Maintenance, TLAPS

-----------------------------------------------------------------------------
(* SSH tunnels                                                             *)

TunnelsSpec == TunnelsInit /\ [][TunnelsNext]_tunnelVars

TunnelsTypeOK ==
  /\ clients \in Nat
  /\ client \in 0..clients /\ connected \subseteq 1..clients
  /\ reachable \subseteq Checks
  /\ step \in [Checks -> Called \cup {"idle", "done", "gaveUp", "refused"}]
  /\ held \in [Checks -> Nat]
  /\ attempt \in [Checks -> Nat]
  /\ trouble \in [Checks -> 0..MaxRetries]

(* The tunnel was taken from a check as often as it has tried, and once    *)
(* more if it is about to use a connection that is no longer there.        *)
TroubleInv(c) ==
  /\ step[c] = "connecting" =>
       attempt[c] = 0 /\ (client \in connected \cup {0} \/ trouble[c] >= 1)
  /\ step[c] = "dialling" =>
       /\ attempt[c] < MaxRetries /\ trouble[c] >= attempt[c]
       /\ held[c] \in connected \/ trouble[c] >= attempt[c] + 1
  /\ step[c] = "reconnecting" => attempt[c] < MaxRetries /\ trouble[c] >= attempt[c]
  /\ step[c] = "gaveUp" => trouble[c] >= MaxRetries

TunnelsInv ==
  /\ TunnelsTypeOK
  /\ connected \subseteq {client}
  /\ \A c \in reachable : TroubleInv(c)

(* What TroubleFor adds to: nobody's trouble gets less, and that of a      *)
(* check that is counted gets more, up to the number of retries.           *)
LEMMA TroubleGrows ==
  ASSUME TunnelsTypeOK, NEW S \in SUBSET Checks, trouble' = TroubleFor(S)
  PROVE  /\ trouble' \in [Checks -> 0..MaxRetries]
         /\ \A c \in Checks : trouble'[c] >= trouble[c]
         /\ \A c \in Checks : c \in S /\ step[c] \in Called =>
              trouble'[c] = MaxRetries \/ trouble'[c] = trouble[c] + 1
<1>1. \A c \in Checks :
        trouble'[c] = IF c \in S /\ step[c] \in Called /\ trouble[c] < MaxRetries
                      THEN trouble[c] + 1 ELSE trouble[c]
  BY DEF TroubleFor, TunnelUsers
<1>2. trouble' = [c \in Checks |-> trouble'[c]]
  BY DEF TroubleFor
<1>3. \A c \in Checks : trouble[c] \in Nat /\ trouble[c] <= MaxRetries
  BY TunnelAssumption DEF TunnelsTypeOK
<1>4. \A c \in Checks : trouble'[c] \in 0..MaxRetries
  BY <1>1, <1>3, TunnelAssumption
<1>5. trouble' \in [Checks -> 0..MaxRetries]
  BY <1>2, <1>4
<1> QED
  BY <1>1, <1>3, <1>5, TunnelAssumption

(* A check at rest stays as it is whatever others do: a connection that it *)
(* counts on is either still there or gone with one more trouble.          *)
LEMMA TroubleStays ==
  ASSUME TunnelsTypeOK, NEW c \in Checks, TroubleInv(c),
         step'[c] = step[c], attempt'[c] = attempt[c], held'[c] = held[c],
         trouble'[c] \in Nat, trouble'[c] >= trouble[c],
         step[c] \in Called =>
           \/ trouble'[c] = MaxRetries \/ trouble'[c] = trouble[c] + 1
           \/ connected \subseteq connected' /\ client' \in connected' \cup {client}
  PROVE  TroubleInv(c)'
<1>1. trouble[c] \in Nat /\ attempt[c] \in Nat /\ MaxRetries \in Nat /\ MaxRetries >= 1
  BY TunnelAssumption DEF TunnelsTypeOK
<1> QED
  BY <1>1 DEF TroubleInv, Called

(* Every step of a check, of the server or of a reload leaves at most one  *)
(* connection, and accounts for the tries of every check.                  *)
LEMMA TunnelsStep ==
  ASSUME TunnelsInv, [TunnelsNext]_tunnelVars
  PROVE  TunnelsInv'
<1> USE DEF TunnelsInv, TunnelsTypeOK
<1>0. /\ MaxRetries \in Nat /\ MaxRetries >= 1 /\ clients + 1 \in Nat
      /\ 0 \in 0..MaxRetries /\ 1 \in 0..MaxRetries /\ client \in Nat
      /\ \A c \in Checks : trouble[c] \in Nat /\ attempt[c] \in Nat /\ attempt[c] + 1 \in Nat
      /\ \A c \in reachable : c \in Checks
  BY TunnelAssumption
<1>1. ASSUME NEW c \in Checks, ReadClient(c)
      PROVE  TunnelsInv'
  <2>1. TunnelsTypeOK' /\ connected' \subseteq {client'} /\ TroubleInv(c)'
    BY <1>0, <1>1 DEF ReadClient, Called, TroubleInv
  <2>2. ASSUME NEW d \in reachable, d # c
        PROVE  TroubleInv(d)'
    BY <1>0, <1>1, <2>2, TroubleStays DEF ReadClient
  <2> QED
    BY <1>1, <2>1, <2>2 DEF ReadClient
<1>2. ASSUME NEW c \in Checks, Connect(c)
      PROVE  TunnelsInv'
  <2>1. TunnelsTypeOK' /\ connected' \subseteq {client'} /\ connected \subseteq connected'
          /\ client' \in connected' \cup {client}
    <3>1. CASE client # 0
      BY <1>0, <1>2, <3>1 DEF Connect, ClientMissing, Called
    <3>2. CASE client = 0 /\ serverUp
      <4>1. /\ client' = clients + 1 /\ clients' = clients + 1
            /\ connected' = connected \cup {clients + 1}
            /\ held' = [held EXCEPT ![c] = clients + 1]
            /\ step' = [step EXCEPT ![c] = "dialling"]
            /\ UNCHANGED <<reachable, attempt, trouble>>
        BY <1>2, <3>2 DEF Connect, ClientMissing, Connected
      <4>2. connected = {}
        BY <1>0, <3>2
      <4> QED
        BY <1>0, <4>1, <4>2 DEF Called
    <3>3. CASE client = 0 /\ ~serverUp
      BY <1>0, <1>2, <3>3 DEF Connect, ClientMissing, Called
    <3> QED
      BY <3>1, <3>2, <3>3
  <2>2. c \in reachable => TroubleInv(c)'
    BY <1>0, <1>2 DEF Connect, ClientMissing, Connected, Called, TroubleInv
  <2>3. ASSUME NEW d \in reachable, d # c
        PROVE  TroubleInv(d)'
    BY <1>0, <1>2, <2>1, <2>3, TroubleStays DEF Connect
  <2> QED
    BY <1>2, <2>1, <2>2, <2>3 DEF Connect
<1>3. ASSUME NEW c \in Checks, Dial(c)
      PROVE  TunnelsInv'
  <2>1. TunnelsTypeOK' /\ connected' \subseteq {client'}
    BY <1>0, <1>3 DEF Dial, Retry, Called
  <2>2. c \in reachable => TroubleInv(c)'
    BY <1>0, <1>3 DEF Dial, Retry, Called, TroubleInv
  <2>3. ASSUME NEW d \in reachable, d # c
        PROVE  TroubleInv(d)'
    BY <1>0, <1>3, <2>3, TroubleStays DEF Dial, Retry
  <2> QED
    BY <1>3, <2>1, <2>2, <2>3 DEF Dial
<1>4. ASSUME NEW c \in Checks, Reconnect(c), serverUp
      PROVE  TunnelsInv'
  <2>1. /\ client' = clients + 1 /\ clients' = clients + 1
        /\ connected' = (connected \ {client}) \cup {clients + 1}
        /\ held' = [held EXCEPT ![c] = clients + 1]
        /\ step[c] = "reconnecting" /\ step' = [step EXCEPT ![c] = "dialling"]
        /\ trouble' = TroubleFor(Checks \ {c}) /\ UNCHANGED <<attempt, reachable>>
    BY <1>4 DEF Reconnect, Connected, Hold
  <2>2. /\ trouble' \in [Checks -> 0..MaxRetries]
        /\ \A d \in Checks : trouble'[d] >= trouble[d]
        /\ \A d \in Checks \ {c} : step[d] \in Called =>
             trouble'[d] = MaxRetries \/ trouble'[d] = trouble[d] + 1
    BY <2>1, TroubleGrows
  <2>3. TunnelsTypeOK' /\ connected' \subseteq {client'}
    BY <1>0, <2>1, <2>2 DEF Called
  <2>4. c \in reachable => TroubleInv(c)'
    <3>1. step'[c] = "dialling" /\ held'[c] \in connected' /\ attempt'[c] = attempt[c]
      BY <2>1
    <3>2. c \in reachable => attempt[c] < MaxRetries /\ trouble[c] >= attempt[c]
      BY <2>1 DEF TroubleInv
    <3>3. trouble'[c] \in Nat /\ trouble'[c] >= trouble[c]
      BY <1>0, <2>2
    <3> QED
      BY <1>0, <3>1, <3>2, <3>3 DEF TroubleInv
  <2>5. ASSUME NEW d \in reachable, d # c
        PROVE  TroubleInv(d)'
    <3>1. d \in Checks /\ TroubleInv(d)
      BY <1>0
    <3>2. step'[d] = step[d] /\ attempt'[d] = attempt[d] /\ held'[d] = held[d]
      BY <2>1, <2>5, <3>1
    <3>3. /\ trouble'[d] \in Nat /\ trouble'[d] >= trouble[d]
          /\ step[d] \in Called => trouble'[d] = MaxRetries \/ trouble'[d] = trouble[d] + 1
      BY <1>0, <2>2, <2>5, <3>1
    <3> QED
      BY <3>1, <3>2, <3>3, TroubleStays
  <2> QED
    BY <2>1, <2>3, <2>4, <2>5
<1>5. ASSUME NEW c \in Checks, Reconnect(c), ~serverUp
      PROVE  TunnelsInv'
  <2>1. /\ client' = 0 /\ connected' = connected \ {client} /\ Retry(c)
        /\ step[c] = "reconnecting" /\ trouble' = TroubleFor(Checks)
        /\ UNCHANGED <<clients, held, reachable>>
    BY <1>5 DEF Reconnect
  <2>2. /\ trouble' \in [Checks -> 0..MaxRetries]
        /\ \A d \in Checks : trouble'[d] >= trouble[d]
        /\ \A d \in Checks : step[d] \in Called =>
             trouble'[d] = MaxRetries \/ trouble'[d] = trouble[d] + 1
    BY <2>1, TroubleGrows
  <2>3. TunnelsTypeOK' /\ connected' \subseteq {client'}
    BY <1>0, <2>1, <2>2 DEF Called, Retry
  <2>4. c \in reachable => TroubleInv(c)'
    BY <1>0, <2>1, <2>2 DEF TroubleInv, Retry, Called
  <2>5. ASSUME NEW d \in reachable, d # c
        PROVE  TroubleInv(d)'
    BY <1>0, <2>1, <2>2, <2>5, TroubleStays DEF Retry
  <2> QED
    BY <2>1, <2>3, <2>4, <2>5
<1>6. ASSUME NEW c \in Checks, CheckAgain(c)
      PROVE  TunnelsInv'
  <2>1. TunnelsTypeOK' /\ connected' \subseteq {client'} /\ TroubleInv(c)'
    BY <1>6 DEF CheckAgain, TroubleInv
  <2>2. ASSUME NEW d \in reachable, d # c
        PROVE  TroubleInv(d)'
    BY <1>0, <1>6, <2>2, TroubleStays DEF CheckAgain
  <2> QED
    BY <1>6, <2>1, <2>2 DEF CheckAgain
<1>7. CASE CloseTunnels \/ ConnectionBreaks
  <2>1. /\ client' \in {0, client} /\ connected' = connected \ {client}
        /\ trouble' = TroubleFor(Checks)
        /\ UNCHANGED <<clients, reachable, step, held, attempt>>
    BY <1>7 DEF CloseTunnels, ConnectionBreaks
  <2>2. /\ trouble' \in [Checks -> 0..MaxRetries]
        /\ \A d \in Checks : trouble'[d] >= trouble[d]
        /\ \A d \in Checks : step[d] \in Called =>
             trouble'[d] = MaxRetries \/ trouble'[d] = trouble[d] + 1
    BY <2>1, TroubleGrows
  <2>3. TunnelsTypeOK' /\ connected' \subseteq {client'}
    BY <1>0, <2>1, <2>2
  <2>4. ASSUME NEW d \in reachable
        PROVE  TroubleInv(d)'
    BY <1>0, <2>1, <2>2, <2>4, TroubleStays
  <2> QED
    BY <2>1, <2>3, <2>4
<1>8. CASE ServerStartsOrStops \/ UNCHANGED tunnelVars
  BY <1>8 DEF ServerStartsOrStops, tunnelVars, TroubleInv
<1> QED
  BY <1>1, <1>2, <1>3, <1>4, <1>5, <1>6, <1>7, <1>8 DEF TunnelsNext

(* Dial, connectUnsafe and Close of sshtunnel.go, for any number of checks *)
(* and of breaks: at most one connection is open, the tunnel's own, and a  *)
(* check whose target answers gives up only after MaxRetries mishaps.      *)
THEOREM TunnelShared == TunnelsSpec => []TunnelIsShared
<1>1. TunnelsInit => TunnelsInv
  BY TunnelAssumption DEF TunnelsInit, TunnelsInv, TunnelsTypeOK, TroubleInv
<1>2. TunnelsInv => TunnelIsShared
  BY DEF TunnelsInv, TunnelIsShared, TroubleInv
<1> QED
  BY <1>1, <1>2, TunnelsStep, PTL DEF TunnelsSpec

-----------------------------------------------------------------------------
(* The connectivity checker                                                *)

ConnectivitySpec == ConnectivityInit /\ [][ConnectivityNext]_connectivityVars

ConnectivityTypeOK ==
  /\ now \in Nat /\ lastCheck \in Int /\ checkedAt \in Int
  /\ lastCheck <= now
  /\ call \in [Callers -> StoringStates \cup {"idle", "checking", "answering"}]
  /\ began \in [Callers -> Int]
  /\ answered \in [age : Int, race : BOOLEAN]

(* What a call that is under way knows: it began at most a timeout ago;    *)
(* whoever has stored the time, or found it, sees one that is at most an   *)
(* interval old; whoever has stored the answer sees one that is at most a  *)
(* timeout old.                                                            *)
CallInv(c) ==
  /\ call[c] \in StoringStates \cup {"checking"} => began[c] <= now /\ now <= began[c] + CheckTimeout
  /\ call[c] \in {"answering", "storingAnswer"} => now <= lastCheck + CheckInterval
  /\ call[c] = "storingTime" => now <= checkedAt + CheckTimeout

(* The answer is at most a timeout older than the time says, unless the    *)
(* call that has stored the time has yet to store its answer.              *)
PairInv == lastCheck <= checkedAt + CheckTimeout \/ \E c \in Callers : call[c] = "storingAnswer"

ConnectivityInv ==
  /\ ConnectivityTypeOK
  /\ \A c \in Callers : CallInv(c)
  /\ PairInv
  /\ AnswersAreFresh

(* Every step of a call, and the passing of time, keeps the times together *)
(* that the two unlocked assignments of IsConnected write.                 *)
LEMMA ConnectivityStep ==
  ASSUME ConnectivityInv, [ConnectivityNext]_connectivityVars
  PROVE  ConnectivityInv'
<1> USE DEF ConnectivityInv, ConnectivityTypeOK, AnswersAreFresh, StoringStates
<1>0. /\ CheckTimeout \in Nat /\ CheckInterval \in Nat /\ CheckTimeout <= CheckInterval
      /\ now \in Int
  BY CheckAssumption
<1>1. ASSUME NEW c \in Callers, AnswerIsKept(c)
      PROVE  ConnectivityInv'
  <2>1. /\ call[c] = "idle" /\ call' = [call EXCEPT ![c] = "answering"]
        /\ now <= lastCheck + CheckInterval
        /\ UNCHANGED <<now, lastCheck, checkedAt, began, answered>>
    BY <1>1 DEF AnswerIsKept
  <2>2. ConnectivityTypeOK' /\ \A d \in Callers : CallInv(d)'
    BY <2>1 DEF CallInv
  <2>3. PairInv'
    BY <2>1 DEF PairInv
  <2> QED
    BY <2>1, <2>2, <2>3
<1>2. ASSUME NEW c \in Callers, BeginCheck(c)
      PROVE  ConnectivityInv'
  <2>1. /\ call[c] = "idle" /\ call' = [call EXCEPT ![c] = "checking"]
        /\ began' = [began EXCEPT ![c] = now]
        /\ UNCHANGED <<now, lastCheck, checkedAt, answered>>
    BY <1>2 DEF BeginCheck
  <2>2. ConnectivityTypeOK' /\ \A d \in Callers : CallInv(d)'
    BY <1>0, <2>1 DEF CallInv
  <2>3. PairInv'
    BY <2>1 DEF PairInv
  <2> QED
    BY <2>1, <2>2, <2>3
<1>3. ASSUME NEW c \in Callers, EndCheck(c)
      PROVE  ConnectivityInv'
  <2>1. /\ call[c] = "checking" /\ call' = [call EXCEPT ![c] = "storing"]
        /\ UNCHANGED <<now, lastCheck, checkedAt, began, answered>>
    BY <1>3 DEF EndCheck
  <2>2. ConnectivityTypeOK' /\ \A d \in Callers : CallInv(d)'
    BY <2>1 DEF CallInv
  <2>3. PairInv'
    BY <2>1 DEF PairInv
  <2> QED
    BY <2>1, <2>2, <2>3
<1>4. ASSUME NEW c \in Callers, StoreTime(c)
      PROVE  ConnectivityInv'
  <2>1. /\ call[c] \in {"storing", "storingTime"} /\ lastCheck' = began[c]
        /\ call' = [call EXCEPT ![c] = IF call[c] = "storing" THEN "storingAnswer" ELSE "answering"]
        /\ UNCHANGED <<now, checkedAt, began, answered>>
    BY <1>4 DEF StoreTime
  <2>2. began[c] \in Int /\ began[c] <= now /\ now <= began[c] + CheckTimeout
    BY <2>1 DEF CallInv
  <2>3. now <= lastCheck' + CheckInterval
    BY <1>0, <2>1, <2>2
  <2>4. ConnectivityTypeOK' /\ \A d \in Callers : CallInv(d)'
    BY <1>0, <2>1, <2>2, <2>3 DEF CallInv
  <2>5. PairInv'
    BY <1>0, <2>1, <2>2 DEF PairInv, CallInv
  <2> QED
    BY <2>1, <2>4, <2>5
<1>5. ASSUME NEW c \in Callers, StoreAnswer(c)
      PROVE  ConnectivityInv'
  <2>1. /\ call[c] \in {"storing", "storingAnswer"} /\ checkedAt' = began[c]
        /\ call' = [call EXCEPT ![c] = IF call[c] = "storing" THEN "storingTime" ELSE "answering"]
        /\ UNCHANGED <<now, lastCheck, began, answered>>
    BY <1>5 DEF StoreAnswer
  <2>2. began[c] \in Int /\ began[c] <= now /\ now <= began[c] + CheckTimeout
    BY <2>1 DEF CallInv
  <2>3. ConnectivityTypeOK' /\ \A d \in Callers : CallInv(d)'
    BY <1>0, <2>1, <2>2 DEF CallInv
  <2>4. PairInv'
    BY <1>0, <2>1, <2>2 DEF PairInv
  <2> QED
    BY <2>1, <2>3, <2>4
<1>6. ASSUME NEW c \in Callers, Answer(c)
      PROVE  ConnectivityInv'
  <2>1. /\ call[c] = "answering" /\ call' = [call EXCEPT ![c] = "idle"]
        /\ answered' = [age |-> now - checkedAt, race |-> SomebodyElseStores(c)]
        /\ UNCHANGED <<now, lastCheck, checkedAt, began>>
    BY <1>6 DEF Answer
  <2>2. SomebodyElseStores(c) \in BOOLEAN
    BY DEF SomebodyElseStores
  <2>3. answered'.age = now - checkedAt /\ answered'.race = SomebodyElseStores(c)
          /\ answered' \in [age : Int, race : BOOLEAN]
    BY <1>0, <2>1, <2>2
  <2>4. ConnectivityTypeOK' /\ \A d \in Callers : CallInv(d)'
    BY <2>1, <2>3 DEF CallInv
  <2>5. PairInv'
    BY <2>1 DEF PairInv
  <2>6. now <= lastCheck + CheckInterval
    BY <2>1 DEF CallInv
  <2>7. CASE lastCheck <= checkedAt + CheckTimeout
    <3>1. now - checkedAt <= CheckInterval + CheckTimeout
      BY <1>0, <2>6, <2>7
    <3> QED
      BY <2>3, <2>4, <2>5, <3>1
  <2>8. CASE \E d \in Callers : call[d] = "storingAnswer"
    <3>1. SomebodyElseStores(c)
      BY <2>1, <2>8 DEF SomebodyElseStores
    <3> QED
      BY <2>3, <2>4, <2>5, <3>1
  <2> QED
    BY <2>7, <2>8 DEF PairInv
<1>7. CASE TimePasses
  <2>1. /\ now' = now + 1 /\ UNCHANGED <<lastCheck, checkedAt, call, began, answered>>
        /\ \A c \in Callers : call[c] = "idle" \/ (call[c] = "checking" /\ now < began[c] + CheckTimeout)
    BY <1>7 DEF TimePasses
  <2>2. ConnectivityTypeOK' /\ \A d \in Callers : CallInv(d)'
    BY <1>0, <2>1 DEF CallInv
  <2>3. PairInv'
    BY <2>1 DEF PairInv
  <2> QED
    BY <2>1, <2>2, <2>3
<1>8. CASE UNCHANGED connectivityVars
  BY <1>8 DEF connectivityVars, CallInv, PairInv
<1> QED
  BY <1>1, <1>2, <1>3, <1>4, <1>5, <1>6, <1>7, <1>8 DEF ConnectivityNext

(* Checker.IsConnected, for any number of callers that overlap and any     *)
(* timeout up to the interval: an answer is at most an interval and a      *)
(* timeout old, unless another call is storing its own in that instant.    *)
THEOREM AnswersStayFresh == ConnectivitySpec => []AnswersAreFresh
<1>1. ConnectivityInit => ConnectivityInv
  BY CheckAssumption
     DEF ConnectivityInit, ConnectivityInv, ConnectivityTypeOK, CallInv, PairInv, AnswersAreFresh,
         StoringStates, Never
<1>2. ConnectivityInv => AnswersAreFresh
  BY DEF ConnectivityInv
<1> QED
  BY <1>1, <1>2, ConnectivityStep, PTL DEF ConnectivitySpec

-----------------------------------------------------------------------------
(* Alert providers                                                         *)

ProvidersSpec == ProvidersInit /\ [][ProvidersNext]_providerVars

Keyed == {"reply", "own", "echo"}
IncidentKinds == Keyed \cup {"notice", "alias", "reported", "title", "contains"}

ProvidersTypeOK ==
  /\ type \in Types /\ setup \in SetUps(type)
  /\ triggered \in BOOLEAN /\ key \in Nat /\ lost \in BOOLEAN
  /\ open \subseteq {"endpoint", "neighbour"} \X Nat
  /\ turn \in Nat /\ DOMAIN sent = {"count", "ok", "resolved", "with"}
  /\ sent.count \in Nat /\ sent.ok \in BOOLEAN /\ sent.resolved \in BOOLEAN

(* As long as no key was lost, every incident of the endpoint that is open *)
(* is the one whose key the provider keeps.  Keys are not empty, and       *)
(* incidents of a provider that reports by notices only do not exist.      *)
KeyInv ==
  /\ <<"endpoint", 0>> \notin open
  /\ provider.incident \in Keyed /\ setup.onResolved /\ ~lost => \A i \in OpenHere : i[2] = key
  /\ provider.incident = "notice" => OpenHere = {}

(* Nothing closes the incident of the neighbour but clickup.               *)
NeighbourInv == provider.incident # "contains" => <<"neighbour", 0>> \in open

(* A loop over the recipients has told everyone before the one it has come *)
(* to, and has not succeeded yet.                                          *)
TurnInv ==
  turn # 0 =>
    /\ provider.oneByOne /\ ~sent.ok
    /\ turn <= Recipients + 1 /\ told = 1..(turn - 1)

ProvidersInv ==
  /\ ProvidersTypeOK /\ Accepted /\ KeyInv /\ NeighbourInv /\ TurnInv
  /\ SentAsConfigured /\ SuccessMeansEveryoneTold /\ ResolutionClosesIncident

(* What the other proofs need of a provider of the table: it deals with    *)
(* incidents in one of the ways listed, and by notices if it has a loop;   *)
(* Validate only looks at settings that exist; what a client keeps is      *)
(* neither filled in nor looked at, and it has a repository.               *)
RowOK(p) ==
  /\ p.incident \in IncidentKinds
  /\ p.required \cup p.checked \cup p.pair \subseteq Settings(p)
  /\ p.client \cap (p.builtin \cup p.checked \cup p.pair) = {}
  /\ p.client # {} => "RepositoryURL" \in (p.required \cap p.checked) \ (p.builtin \cup p.pair)
  /\ p.oneByOne => p.incident = "notice"

(* All 41 are like that.                                                   *)
LEMMA TableFacts == \A t \in Types : RowOK(Providers[t])
<1>1. /\ RowOK(AWSSES) /\ RowOK(ClickUp) /\ RowOK(Custom) /\ RowOK(Datadog)
      /\ RowOK(Discord) /\ RowOK(Email) /\ RowOK(Gitea) /\ RowOK(GitHub)
      /\ RowOK(GitLab) /\ RowOK(GoogleChat)
  BY DEF RowOK, Settings, IncidentKinds, Keyed, Webhook, Requires, NoGroups,
         AWSSES, ClickUp, Custom, Datadog, Discord, Email, Gitea, GitHub, GitLab, GoogleChat
<1>2. /\ RowOK(Gotify) /\ RowOK(HomeAssistant) /\ RowOK(IFTTT) /\ RowOK(Ilert)
      /\ RowOK(IncidentIO) /\ RowOK(Line) /\ RowOK(Matrix) /\ RowOK(Mattermost)
      /\ RowOK(Messagebird) /\ RowOK(N8N) /\ RowOK(NewRelic) /\ RowOK(Ntfy)
  BY DEF RowOK, Settings, IncidentKinds, Keyed, Webhook, Requires, NoGroups,
         Gotify, HomeAssistant, IFTTT, Ilert, IncidentIO, Line, Matrix, Mattermost, Messagebird,
         N8N, NewRelic, Ntfy
<1>3. /\ RowOK(Opsgenie) /\ RowOK(PagerDuty) /\ RowOK(Plivo) /\ RowOK(Pushover)
      /\ RowOK(RocketChat) /\ RowOK(SendGrid) /\ RowOK(Signal) /\ RowOK(SIGNL4)
      /\ RowOK(Slack) /\ RowOK(Splunk)
  BY DEF RowOK, Settings, IncidentKinds, Keyed, Webhook, Requires, NoGroups,
         Opsgenie, PagerDuty, Plivo, Pushover, RocketChat, SendGrid, Signal, SIGNL4, Slack,
         Splunk
<1>4. /\ RowOK(Squadcast) /\ RowOK(Teams) /\ RowOK(TeamsWorkflows) /\ RowOK(Telegram)
      /\ RowOK(Twilio) /\ RowOK(Vonage) /\ RowOK(Webex) /\ RowOK(Zapier)
      /\ RowOK(Zulip)
  BY DEF RowOK, Settings, IncidentKinds, Keyed, Webhook, Requires, NoGroups,
         Squadcast, Teams, TeamsWorkflows, Telegram, Twilio, Vonage, Webex, Zapier, Zulip
<1>5. Types = {"awsses", "clickup", "custom", "datadog", "discord", "email", "gitea", "github",
               "gitlab", "googlechat", "gotify", "homeassistant", "ifttt", "ilert",
               "incidentio", "line", "matrix", "mattermost", "messagebird", "n8n", "newrelic",
               "ntfy", "opsgenie", "pagerduty", "plivo", "pushover", "rocketchat", "sendgrid",
               "signal", "signl4", "slack", "splunk", "squadcast", "teams", "teamsworkflows",
               "telegram", "twilio", "vonage", "webex", "zapier", "zulip"}
  BY DEF Types, Providers
<1>6. \A t \in {"awsses", "clickup", "custom", "datadog", "discord", "email", "gitea", "github",
        "gitlab", "googlechat"} :
        Providers[t] \in {AWSSES, ClickUp, Custom, Datadog, Discord, Email, Gitea, GitHub, GitLab,
                GoogleChat}
  BY DEF Providers
<1>7. \A t \in {"gotify", "homeassistant", "ifttt", "ilert", "incidentio", "line", "matrix",
        "mattermost", "messagebird", "n8n", "newrelic", "ntfy"} :
        Providers[t] \in {Gotify, HomeAssistant, IFTTT, Ilert, IncidentIO, Line, Matrix, Mattermost,
                Messagebird, N8N, NewRelic, Ntfy}
  BY DEF Providers
<1>8. \A t \in {"opsgenie", "pagerduty", "plivo", "pushover", "rocketchat", "sendgrid", "signal",
        "signl4", "slack", "splunk"} :
        Providers[t] \in {Opsgenie, PagerDuty, Plivo, Pushover, RocketChat, SendGrid, Signal, SIGNL4,
                Slack, Splunk}
  BY DEF Providers
<1>9. \A t \in {"squadcast", "teams", "teamsworkflows", "telegram", "twilio", "vonage", "webex",
        "zapier", "zulip"} :
        Providers[t] \in {Squadcast, Teams, TeamsWorkflows, Telegram, Twilio, Vonage, Webex, Zapier, Zulip}
  BY DEF Providers
<1> QED
  BY <1>1, <1>2, <1>3, <1>4, <1>5, <1>6, <1>7, <1>8, <1>9

(* What every set-up is like.                                              *)
LEMMA SetUpFacts ==
  ASSUME type \in Types, setup \in SetUps(type)
  PROVE  /\ setup.onResolved \in BOOLEAN
         /\ Len(setup.groups) \in {0, 1, 2} /\ DOMAIN setup.groups = 1..Len(setup.groups)
         /\ \A i \in DOMAIN setup.groups : Place(i) \in {"first", "second"}
<1> DEFINE G == IF provider.groups
                THEN {<<>>, <<"core">>, <<"edge", "core">>, <<"core", "core">>, <<"">>} ELSE {<<>>}
<1>1. /\ setup \in [setting : Settings(provider), value : [Sources -> {"none", "good"} \cup Peculiar],
                    group : {"", "core"}, groups : G, onResolved : BOOLEAN]
  BY DEF SetUps, provider
<1>2. setup.onResolved \in BOOLEAN /\ setup.groups \in G
  BY <1>1
<1> HIDE DEF G
<1>3. PICK x, y : setup.groups \in {<<>>, <<x>>, <<x, y>>}
  BY <1>2, Zenon DEF G
<1>4. Len(setup.groups) \in {0, 1, 2} /\ DOMAIN setup.groups = 1..Len(setup.groups)
  BY <1>3
<1>5. \A i \in 1..2 : Place(i) \in {"first", "second"}
  BY DEF Place
<1>6. \A n \in {0, 1, 2} : 1..n \subseteq 1..2
  OBVIOUS
<1> QED
  BY <1>2, <1>4, <1>5, <1>6

(* A setting has the name of its source for a value, or none.              *)
LEMMA ConfigurationFacts ==
  ASSUME NEW source, NEW s \in Settings(provider)
  PROVE  /\ DOMAIN Configuration(source) = Settings(provider)
         /\ Configuration(source)[s] \in {source, Unset}
  BY DEF Configuration

(* The first override of a group is the one with the smallest index.       *)
LEMMA FirstIsMin == ASSUME NEW S PROVE (CHOOSE i \in S : \A j \in S : i <= j) = Min(S)
BY DEF Min

(* GetConfig applies the overrides in the order of their precedence.       *)
LEMMA MostSpecificApplies ==
  ASSUME type \in Types, setup \in SetUps(type)
  PROVE  /\ DOMAIN GetConfig = Settings(provider)
         /\ \A s \in Settings(provider) : GetConfig[s] = MostSpecific(s)
<1> DEFINE I == {i \in 1..Len(setup.groups) : setup.groups[i] = setup.group}
           ofGroup == IF I # {} THEN Min(I) ELSE 0
           D == Configuration("default")
           A == Configuration("alert")
           O == Configuration(Place(ofGroup))
           grouped == IF ofGroup = 0 THEN D ELSE Merge(D, O)
           merged == Merge(grouped, A)
<1>1. GetConfig = FillIn(merged)
  BY DEF GetConfig, SelectInSeq
<1>2. I # {} => ofGroup \in I /\ \A j \in I : ofGroup <= j
  <2>1. I \subseteq {1, 2}
    <3>1. Len(setup.groups) \in {0, 1, 2}
      BY SetUpFacts
    <3> QED
      BY <3>1
  <2>2. I # {} => \E x \in I : \A j \in I : x <= j
    BY <2>1
  <2> QED
    BY <2>2 DEF Min
<1>3. DOMAIN D = Settings(provider) /\ DOMAIN O = Settings(provider) /\ DOMAIN grouped = Settings(provider)
  BY DEF Configuration, Merge
<1>4. DOMAIN merged = Settings(provider) /\ DOMAIN GetConfig = Settings(provider)
  BY <1>1, <1>3 DEF Merge, FillIn
<1>5. ASSUME NEW s \in Settings(provider)
      PROVE  GetConfig[s] = MostSpecific(s)
  <2>1. GetConfig[s] = IF A[s] # Unset THEN A[s]
                       ELSE IF ofGroup # 0 /\ O[s] # Unset THEN O[s]
                       ELSE IF D[s] # Unset THEN D[s]
                       ELSE IF s \in provider.builtin THEN "builtin" ELSE Unset
    BY <1>1, <1>3, <1>4 DEF FillIn, Merge, IsSet
  <2>2. A[s] \in {"alert", Unset} /\ D[s] \in {"default", Unset} /\ O[s] \in {Place(ofGroup), Unset}
    BY ConfigurationFacts
  <2>3. ofGroup # 0 => Place(ofGroup) \in {"first", "second"}
    BY <1>2, SetUpFacts
  <2> DEFINE group == {i \in DOMAIN setup.groups : setup.groups[i] = setup.group}
             first == IF group = {} THEN {} ELSE {Place(CHOOSE i \in group : \A j \in group : i <= j)}
             holders == {x \in first \cup {"default", "alert"} : IsSet(Configuration(x), s)}
  <2>4. group = I
    BY SetUpFacts
  <2>5. (CHOOSE i \in group : \A j \in group : i <= j) = Min(group)
    BY FirstIsMin
  <2>6. ofGroup # 0 <=> I # {}
    BY <1>2, SetUpFacts
  <2>7. first = IF ofGroup = 0 THEN {} ELSE {Place(ofGroup)}
    <3>1. first = IF group = {} THEN {} ELSE {Place(Min(group))}
      BY <2>5
    <3> HIDE DEF first, group, I
    <3> QED
      BY <2>4, <2>6, <3>1
  <2>8. MostSpecific(s) =
          IF "alert" \in holders THEN "alert"
          ELSE IF holders \ {"default", "alert"} # {} THEN CHOOSE x \in holders : x \notin {"default", "alert"}
          ELSE IF "default" \in holders THEN "default"
          ELSE IF s \in provider.builtin THEN "builtin" ELSE Unset
    BY DEF MostSpecific
  <2> HIDE DEF first, group, I, ofGroup
  <2>9. /\ "alert" \in holders <=> A[s] # Unset
        /\ "default" \in holders <=> D[s] # Unset
        /\ holders \ {"default", "alert"} =
             IF ofGroup # 0 /\ O[s] # Unset THEN {Place(ofGroup)} ELSE {}
    BY <2>3, <2>7 DEF IsSet
  <2> HIDE DEF holders, A, D, O
  <2>10. holders \ {"default", "alert"} = {Place(ofGroup)} =>
           (CHOOSE x \in holders : x \notin {"default", "alert"}) = Place(ofGroup)
    OBVIOUS
  <2>11. CASE A[s] # Unset
    BY <2>1, <2>2, <2>8, <2>9, <2>11
  <2>12. CASE A[s] = Unset /\ ofGroup # 0 /\ O[s] # Unset
    <3>1. holders \ {"default", "alert"} # {} /\ "alert" \notin holders
      BY <2>9, <2>12
    <3>2. MostSpecific(s) = Place(ofGroup)
      BY <2>8, <2>9, <2>10, <2>12, <3>1
    <3> QED
      BY <2>1, <2>2, <2>12, <3>2
  <2>13. CASE A[s] = Unset /\ ~(ofGroup # 0 /\ O[s] # Unset)
    <3>1. holders \ {"default", "alert"} = {} /\ "alert" \notin holders
      BY <2>9, <2>13
    <3> QED
      BY <2>1, <2>2, <2>8, <2>9, <2>13, <3>1
  <2> QED
    BY <2>11, <2>12, <2>13
<1> QED
  BY <1>4, <1>5

(* What SentAsConfigured says of one configuration.                        *)
AsConfigured(cfg) ==
  /\ \A s \in Settings(provider) :
       cfg[s] = IF s \in OfTheClient THEN Configuration("default")[s] ELSE MostSpecific(s)
  /\ \A s \in provider.required : IsSet(cfg, s)
  /\ \A s \in provider.checked : WellFormed(cfg, s)
  /\ provider.pair # {} => provider.pair \subseteq {s \in DOMAIN cfg : IsSet(cfg, s)}
                           \/ \A s \in provider.pair : ~IsSet(cfg, s)

(* A configuration that is valid is used with the settings that apply.     *)
LEMMA UsedAsConfigured ==
  ASSUME ProvidersTypeOK, Accepted, Valid(GetConfig)
  PROVE  AsConfigured(InUse(GetConfig))
<1> DEFINE D == Configuration("default")
           cfg == InUse(GetConfig)
           kept == IF KeepsClient(GetConfig) THEN provider.client \cup {"RepositoryURL"} ELSE {}
<1>1. type \in Types /\ setup \in SetUps(type)
  BY DEF ProvidersTypeOK
<1>2. RowOK(provider)
  BY <1>1, TableFacts DEF provider
<1>3. /\ DOMAIN GetConfig = Settings(provider)
      /\ \A s \in Settings(provider) : GetConfig[s] = MostSpecific(s)
  BY <1>1, MostSpecificApplies
<1>4. /\ DOMAIN cfg = Settings(provider)
      /\ \A s \in Settings(provider) : cfg[s] = IF s \in kept THEN D[s] ELSE GetConfig[s]
  BY <1>3 DEF InUse
<1>5. /\ \A s \in provider.required \ provider.builtin : s \in Settings(provider) /\ D[s] # Unset
      /\ \A s \in provider.checked \ provider.builtin : D[s] # Unset => WellFormed(D, s)
  <2>1. Valid(FillIn(D))
    BY DEF Accepted
  <2>2. DOMAIN D = Settings(provider)
    BY DEF Configuration
  <2>3. \A s \in Settings(provider) \ provider.builtin : FillIn(D)[s] = D[s]
    BY <2>2 DEF FillIn
  <2>4. provider.required \cup provider.checked \subseteq Settings(provider)
    BY <1>2 DEF RowOK
  <2> QED
    BY <2>1, <2>3, <2>4 DEF Valid, IsSet, WellFormed
<1>6. /\ kept \cap (provider.builtin \cup provider.pair) = {}
      /\ kept \cap provider.checked \subseteq {"RepositoryURL"}
      /\ kept # {} => provider.client # {} /\ "RepositoryURL" \in provider.required
      /\ kept # {} => "RepositoryURL" \in Settings(provider) /\ D["RepositoryURL"] = "default"
  <2>1. /\ kept \cap (provider.builtin \cup provider.pair) = {}
        /\ kept \cap provider.checked \subseteq {"RepositoryURL"}
        /\ kept # {} => provider.client # {}
             /\ "RepositoryURL" \in provider.required \ provider.builtin
    BY <1>2 DEF KeepsClient, RowOK
  <2>2. kept # {} => "RepositoryURL" \in Settings(provider) /\ D["RepositoryURL"] # Unset
    BY <1>5, <2>1
  <2> QED
    BY <2>1, <2>2, ConfigurationFacts
<1>7. ASSUME NEW s \in Settings(provider)
      PROVE  cfg[s] = IF s \in OfTheClient THEN D[s] ELSE MostSpecific(s)
  <2>1. provider.client # {} => "RepositoryURL" \in Settings(provider)
    BY <1>2 DEF RowOK
  <2>2. KeepsClient(GetConfig) <=>
          /\ provider.client # {}
          /\ MostSpecific("RepositoryURL") = "default" \/ setup.value["alert"] = "sameName"
    BY <1>3, <2>1 DEF KeepsClient
  <2> HIDE DEF cfg, D
  <2>3. CASE s \in OfTheClient
    <3>1. s \in kept
      BY <2>2, <2>3 DEF OfTheClient
    <3> QED
      BY <1>4, <2>3, <3>1
  <2>4. CASE s \notin OfTheClient /\ s \in kept
    <3>1. s = "RepositoryURL" /\ MostSpecific(s) = "default"
      BY <2>2, <2>4 DEF OfTheClient
    <3> QED
      BY <1>4, <1>6, <2>4, <3>1
  <2>5. CASE s \notin OfTheClient /\ s \notin kept
    BY <1>3, <1>4, <2>5
  <2> QED
    BY <2>3, <2>4, <2>5
<1>8. \A s \in provider.required : IsSet(cfg, s)
  <2>1. \A s \in provider.required : s \in Settings(provider) /\ GetConfig[s] # Unset
    BY <1>2 DEF RowOK, Valid, IsSet
  <2> HIDE DEF cfg, kept, D
  <2> QED
    BY <1>4, <1>5, <1>6, <2>1 DEF IsSet
<1>9. \A s \in provider.checked : WellFormed(cfg, s)
  <2>1. \A s \in provider.checked : s \in Settings(provider)
    BY <1>2 DEF RowOK
  <2>2. Unset \notin Malformed
    BY DEF Malformed, Unset, Sources
  <2>3. \A s \in provider.checked : GetConfig[s] # Unset => WellFormed(GetConfig, s)
    BY DEF Valid, IsSet
  <2> HIDE DEF cfg, kept, D
  <2>4. \A s \in provider.checked : s \in kept => D[s] # Unset /\ WellFormed(D, s)
    <3>1. \A s \in provider.checked : s \in kept => s \in provider.required \ provider.builtin
      BY <1>6
    <3> QED
      BY <1>5, <3>1
  <2> QED
    BY <1>4, <2>1, <2>2, <2>3, <2>4 DEF WellFormed
<1>10. provider.pair \subseteq {s \in DOMAIN cfg : IsSet(cfg, s)} \/ \A s \in provider.pair : ~IsSet(cfg, s)
  <2> HIDE DEF cfg, kept, D
  <2>1. \A s \in provider.pair : s \in DOMAIN cfg /\ cfg[s] = GetConfig[s]
    BY <1>2, <1>4, <1>6 DEF RowOK
  <2>2. \A s, t \in provider.pair : (GetConfig[s] # Unset) <=> (GetConfig[t] # Unset)
    BY DEF Valid, IsSet
  <2> QED
    BY <2>1, <2>2 DEF IsSet
<1> HIDE DEF cfg
<1> QED
  BY <1>7, <1>8, <1>9, <1>10 DEF AsConfigured, cfg

(* The set-up stays, and with it all that follows from it.                 *)
LEMMA SameSetUp ==
  ASSUME UNCHANGED <<type, setup>>
  PROVE  /\ provider' = provider
         /\ (setup \in SetUps(type))' <=> setup \in SetUps(type)
         /\ Accepted' <=> Accepted
         /\ \A cfg : AsConfigured(cfg)' <=> AsConfigured(cfg)
<1>1. provider' = provider /\ setup' = setup /\ type' = type
  BY DEF provider
<1>2. \A x : Configuration(x)' = Configuration(x)
  BY <1>1 DEF Configuration
<1>3. \A cfg : FillIn(cfg)' = FillIn(cfg)
  BY <1>1 DEF FillIn
<1>4. \A cfg : \A s : WellFormed(cfg, s)' <=> WellFormed(cfg, s)
  BY <1>1 DEF WellFormed, Malformed
<1>5. \A cfg : Valid(cfg)' <=> Valid(cfg)
  BY <1>1, <1>4 DEF Valid
<1>6. Accepted' <=> Accepted
  <2>1. FillIn(Configuration("default"))' = FillIn(Configuration("default"))
    BY <1>2, <1>3
  <2>2. Valid(FillIn(Configuration("default")))' <=> Valid(FillIn(Configuration("default")))
    BY <1>5, <2>1
  <2> QED
    BY <1>1, <1>2, <1>4, <2>2 DEF Accepted
<1>7. \A s : MostSpecific(s)' = MostSpecific(s)
  BY <1>1, <1>2 DEF MostSpecific
<1>8. OfTheClient' = OfTheClient
  BY <1>1, <1>7 DEF OfTheClient
<1>9. \A cfg : AsConfigured(cfg)' <=> AsConfigured(cfg)
  <2>1. Configuration("default")' = Configuration("default")
    BY <1>2
  <2> QED
    BY <1>1, <1>4, <1>7, <1>8, <2>1 DEF AsConfigured
<1> QED
  BY <1>1, <1>6, <1>9

(* What was sent as configured remains so.                                 *)
LEMMA SentStays ==
  ASSUME UNCHANGED <<type, setup>>, NEW cfg, sent'.with = cfg, cfg # NoConfig => AsConfigured(cfg)
  PROVE  SentAsConfigured'
<1>1. cfg # NoConfig => AsConfigured(cfg)'
  BY SameSetUp
<1> QED
  BY <1>1 DEF SentAsConfigured, AsConfigured

(* What an incident is opened under, or closed by, are numbers.            *)
LEMMA KeyFacts ==
  ASSUME ProvidersTypeOK
  PROVE  /\ KeyToOpen \in Nat /\ KeyToOpen # 0
         /\ \A reply \in Replies : \A resolved \in BOOLEAN : KeyKept(reply, resolved) \in Nat
         /\ \A i \in OpenHere : i = <<"endpoint", i[2]>> /\ i[2] \in Nat
<1>1. key \in Nat /\ NewKey \in Nat /\ NewKey # 0 /\ Endpoint = 1
  BY DEF ProvidersTypeOK, NewKey, Endpoint
<1>2. KeyToOpen \in Nat /\ KeyToOpen # 0
  BY <1>1 DEF KeyToOpen
<1>3. \A reply \in Replies : \A resolved \in BOOLEAN : KeyKept(reply, resolved) \in Nat
  BY <1>1, <1>2 DEF KeyKept, Replies
<1>4. \A i \in OpenHere : i = <<"endpoint", i[2]>> /\ i[2] \in Nat
  BY DEF ProvidersTypeOK, OpenHere
<1> QED
  BY <1>2, <1>3, <1>4

(* A notification that was taken opens one more incident, whose key is     *)
(* kept, or was lost and said to be.                                       *)
LEMMA NotifyStep ==
  ASSUME ProvidersInv, Notify
  PROVE  ProvidersInv'
<1> USE DEF ProvidersInv
<1>1. PICK reply \in Replies :
        /\ told' = IF reply = "refused" THEN {} ELSE Everyone
        /\ sent' = Outcome(~Failed(reply, FALSE), FALSE, InUse(GetConfig))
        /\ triggered' = (triggered \/ ~Failed(reply, FALSE))
        /\ key' = KeyKept(reply, FALSE)
        /\ IF reply = "refused" \/ provider.incident = "notice" THEN UNCHANGED <<open, lost>>
           ELSE /\ open' = open \cup {<<"endpoint", KeyToOpen>>}
                /\ lost' = (lost \/ (provider.incident \in {"reply", "echo"} /\ reply = "garbled")
                                 \/ (provider.incident = "reply" /\ key # 0))
  BY DEF Notify
<1>2. Valid(GetConfig) /\ turn = 0 /\ UNCHANGED <<type, setup, turn>>
  BY DEF Notify, Ready
<1>3. PICK failed \in BOOLEAN : failed = Failed(reply, FALSE)
  BY DEF Failed
<1>4. /\ sent'.count = sent.count + 1 /\ sent'.ok = ~failed /\ sent'.resolved = FALSE
      /\ sent'.with = InUse(GetConfig)
  BY <1>1, <1>3 DEF Outcome
<1>5. lost' \in BOOLEAN
  BY <1>1 DEF ProvidersTypeOK
<1>6. triggered' \in BOOLEAN
  BY <1>1, <1>3 DEF ProvidersTypeOK
<1>7. ProvidersTypeOK'
  <2>1. key' \in Nat
    BY <1>1, KeyFacts DEF ProvidersTypeOK
  <2>2. open' \subseteq {"endpoint", "neighbour"} \X Nat
    BY <1>1, KeyFacts DEF ProvidersTypeOK
  <2>3. sent'.count \in Nat /\ DOMAIN sent' = {"count", "ok", "resolved", "with"}
    BY <1>1, <1>4 DEF ProvidersTypeOK, Outcome
  <2> QED
    BY <1>2, <1>3, <1>4, <1>5, <1>6, <2>1, <2>2, <2>3, SameSetUp DEF ProvidersTypeOK
<1>8. Accepted' /\ provider' = provider
  BY <1>2, SameSetUp
<1>9. SentAsConfigured'
  <2>1. PICK cfg : cfg = InUse(GetConfig) /\ sent'.with = cfg
    BY <1>4
  <2>2. AsConfigured(cfg)
    BY <1>2, <2>1, UsedAsConfigured
  <2> QED
    BY <1>2, <2>1, <2>2, SentStays
<1>10. KeyInv'
  <2>1. <<"endpoint", 0>> \notin open'
    BY <1>1, KeyFacts DEF KeyInv
  <2>2. provider.incident = "notice" => OpenHere' = {}
    BY <1>1 DEF KeyInv, OpenHere
  <2>3. ASSUME provider.incident \in Keyed, setup.onResolved, ~lost', NEW i \in OpenHere'
        PROVE  i[2] = key'
    <3>1. i \in OpenHere => i[2] = key /\ key # 0 /\ OpenHere # {}
      BY <1>1, <2>3, KeyFacts DEF KeyInv, Keyed, OpenHere
    <3>2. i \in OpenHere \/ (i = <<"endpoint", KeyToOpen>> /\ reply # "refused")
      BY <1>1, <2>3 DEF OpenHere
    <3>3. key' = IF reply = "refused" /\ provider.incident = "reply" THEN key
                 ELSE IF provider.incident = "reply" THEN NewKey ELSE KeyToOpen
      BY <1>1, <2>3 DEF KeyKept, Replies, Keyed
    <3>4. KeyToOpen = IF provider.incident \in {"own", "echo"} THEN (IF key = 0 THEN NewKey ELSE key) ELSE NewKey
      BY <2>3 DEF KeyToOpen, Keyed
    <3>5. reply # "refused" /\ provider.incident = "reply" => key = 0
      BY <1>1, <2>3 DEF Keyed
    <3>6. CASE i \in OpenHere
      BY <2>3, <3>1, <3>3, <3>4, <3>5, <3>6 DEF Keyed
    <3>7. CASE i = <<"endpoint", KeyToOpen>> /\ reply # "refused"
      <4>1. i[2] = KeyToOpen
        BY <3>7
      <4> QED
        BY <2>3, <3>3, <3>4, <3>7, <4>1 DEF Keyed
    <3> QED
      BY <3>2, <3>6, <3>7
  <2> QED
    BY <1>2, <1>8, <2>1, <2>2, <2>3 DEF KeyInv
<1>11. NeighbourInv'
  BY <1>1, <1>8 DEF NeighbourInv
<1>12. SuccessMeansEveryoneTold' /\ TurnInv'
  BY <1>1, <1>2, <1>3, <1>4 DEF SuccessMeansEveryoneTold, Failed, TurnInv
<1>13. ResolutionClosesIncident'
  BY <1>4 DEF ResolutionClosesIncident
<1> QED
  BY <1>7, <1>8, <1>9, <1>10, <1>11, <1>12, <1>13

(* A resolution that was taken closes all incidents of the endpoint, if    *)
(* their key is known; whatever becomes of it, none of a neighbour.        *)
LEMMA ResolveStep ==
  ASSUME ProvidersInv, Resolve
  PROVE  ProvidersInv'
<1> USE DEF ProvidersInv
<1>1. PICK reply, failed, closed :
        /\ reply \in Replies /\ failed \in BOOLEAN
        /\ failed <=> Failed(reply, TRUE) \/ (provider.incident = "contains" /\ Matches = {})
        /\ told' = IF reply = "refused" THEN {} ELSE Everyone
        /\ closed \in IF ~failed THEN {Matches}
                      ELSE IF provider.incident \in {"title", "contains"} THEN SUBSET Matches
                      ELSE {IF reply = "refused" THEN {} ELSE Matches}
        /\ open' = open \ closed
        /\ sent' = Outcome(~failed, TRUE, InUse(GetConfig))
        /\ key' = KeyKept(reply, TRUE)
        /\ lost' = (lost /\ \E i \in open' : i[1] = "endpoint")
  BY DEF Resolve
<1>2. /\ Valid(GetConfig) /\ triggered' = FALSE /\ setup.onResolved
      /\ turn = 0 /\ UNCHANGED <<type, setup, turn>>
  BY DEF Resolve, Ready
<1>3. /\ sent'.count = sent.count + 1 /\ sent'.ok = ~failed /\ sent'.resolved = TRUE
      /\ sent'.with = InUse(GetConfig)
  BY <1>1 DEF Outcome
<1>4. lost' \in BOOLEAN /\ (lost' => lost)
  BY <1>1 DEF ProvidersTypeOK
<1>5. provider.incident \in IncidentKinds
  BY TableFacts DEF ProvidersTypeOK, RowOK, provider
<1>6. ProvidersTypeOK'
  <2>1. key' \in Nat
    BY <1>1, KeyFacts
  <2>2. open' \subseteq {"endpoint", "neighbour"} \X Nat
    BY <1>1 DEF ProvidersTypeOK
  <2>3. sent'.count \in Nat /\ DOMAIN sent' = {"count", "ok", "resolved", "with"}
    BY <1>1, <1>3 DEF ProvidersTypeOK, Outcome
  <2> QED
    BY <1>2, <1>3, <1>4, <2>1, <2>2, <2>3, SameSetUp DEF ProvidersTypeOK
<1>7. Accepted' /\ provider' = provider
  BY <1>2, SameSetUp
<1>8. SentAsConfigured'
  <2>1. PICK cfg : cfg = InUse(GetConfig) /\ sent'.with = cfg
    BY <1>3
  <2>2. AsConfigured(cfg)
    BY <1>2, <2>1, UsedAsConfigured
  <2> QED
    BY <1>2, <2>1, <2>2, SentStays
<1>9. closed \subseteq Matches /\ (~failed => closed = Matches)
  BY <1>1
<1>10. NeighbourInv'
  <2>1. provider.incident # "contains" => <<"neighbour", 0>> \notin Matches
    BY DEF Matches, OpenHere
  <2> QED
    BY <1>1, <1>7, <1>9, <2>1 DEF NeighbourInv
<1>11. ~lost' /\ provider.incident \in Keyed => ~lost \/ OpenHere' = {}
  BY <1>1 DEF OpenHere
<1>12. KeyInv'
  <2>1. <<"endpoint", 0>> \notin open' /\ (provider.incident = "notice" => OpenHere' = {})
    BY <1>1 DEF KeyInv, OpenHere
  <2>2. ASSUME provider.incident \in Keyed, ~lost', NEW i \in OpenHere'
        PROVE  i[2] = key'
    <3>1. ~lost /\ i \in OpenHere /\ i \notin closed
      BY <1>1, <1>11, <2>2 DEF OpenHere
    <3>2. i[2] = key /\ key # 0
      BY <1>2, <2>2, <3>1, KeyFacts DEF KeyInv, OpenHere
    <3>3. i \in Matches
      BY <2>2, <3>1, <3>2 DEF Matches, Keyed
    <3>4. reply = "refused"
      BY <1>1, <1>9, <2>2, <3>1, <3>3 DEF Keyed
    <3> QED
      BY <1>1, <2>2, <3>2, <3>4 DEF KeyKept, KeyToOpen, Keyed
  <2> QED
    BY <1>2, <1>7, <2>1, <2>2 DEF KeyInv
<1>13. SuccessMeansEveryoneTold' /\ TurnInv'
  BY <1>1, <1>2, <1>3 DEF SuccessMeansEveryoneTold, Failed, TurnInv
<1>14. ResolutionClosesIncident'
  <2>1. ASSUME ~failed, ~lost'
        PROVE  OpenHere' = {}
    <3>1. CASE provider.incident \in Keyed
      <4>1. ~lost => OpenHere \subseteq Matches
        BY <1>2, <3>1 DEF KeyInv, Matches, Keyed
      <4> QED
        BY <1>1, <1>9, <1>11, <2>1, <3>1, <4>1 DEF OpenHere
    <3>2. CASE provider.incident \in {"title", "alias", "reported", "contains"}
      <4>1. OpenHere \subseteq Matches
        BY <3>2 DEF Matches, OpenHere
      <4> QED
        BY <1>1, <1>9, <2>1, <4>1 DEF OpenHere
    <3>3. CASE provider.incident = "notice"
      BY <1>1, <3>3 DEF KeyInv, OpenHere
    <3> QED
      BY <1>5, <3>1, <3>2, <3>3 DEF IncidentKinds
  <2>2. sent'.ok => ~failed
    BY <1>3
  <2> QED
    BY <1>7, <1>10, <2>1, <2>2 DEF ResolutionClosesIncident, NeighbourInv
<1> QED
  BY <1>6, <1>7, <1>8, <1>10, <1>12, <1>13, <1>14

(* A step of a loop over the recipients: everyone before the one it has    *)
(* come to was told, and it only succeeds after the last one.              *)
LEMMA LoopOverStep ==
  ASSUME ProvidersInv,
         \/ \E resolved \in BOOLEAN : StartLoopOver(resolved)
         \/ TellNext \/ TellFails \/ EveryoneHandled
  PROVE  ProvidersInv'
<1> USE DEF ProvidersInv
<1>1. /\ UNCHANGED <<type, setup, key, open, lost>> /\ provider.oneByOne
      /\ turn \in Nat /\ Recipients \in Nat /\ Recipients # 0
  <2>1. turn \in Nat /\ Recipients \in Nat /\ Recipients # 0
    BY RecipientsAssumption DEF ProvidersTypeOK
  <2>2. turn \in Everyone \/ turn > Recipients => turn # 0
    BY <2>1 DEF Everyone
  <2> QED
    BY <2>1, <2>2 DEF StartLoopOver, TellNext, TellFails, EveryoneHandled, TurnInv
<1>2. provider' = provider /\ Accepted' /\ (setup \in SetUps(type))'
  BY <1>1, SameSetUp DEF ProvidersTypeOK
<1>3. provider.incident = "notice"
  BY <1>1, TableFacts DEF ProvidersTypeOK, RowOK, provider
<1>4. KeyInv' /\ NeighbourInv'
  BY <1>1, <1>2 DEF KeyInv, NeighbourInv, OpenHere
<1>5. OpenHere' = {}
  BY <1>1, <1>3 DEF KeyInv, OpenHere
<1>6. ResolutionClosesIncident'
  BY <1>3, <1>4, <1>5, <1>2 DEF ResolutionClosesIncident, NeighbourInv
<1>7. triggered' \in BOOLEAN /\ turn' \in Nat /\ DOMAIN sent' = {"count", "ok", "resolved", "with"}
      /\ sent'.count \in Nat /\ sent'.ok \in BOOLEAN /\ sent'.resolved \in BOOLEAN
  <2>1. CASE \E resolved \in BOOLEAN : StartLoopOver(resolved)
    BY <2>1 DEF StartLoopOver, Outcome, ProvidersTypeOK
  <2>2. CASE TellNext \/ TellFails
    BY <1>1, <2>2 DEF TellNext, TellFails, ProvidersTypeOK
  <2>3. CASE EveryoneHandled
    <3>1. sent'.count = sent.count /\ sent'.ok = TRUE /\ sent'.resolved = sent.resolved
      BY <2>3 DEF EveryoneHandled, ProvidersTypeOK
    <3> QED
      BY <2>3, <3>1 DEF EveryoneHandled, ProvidersTypeOK
  <2> QED
    BY <2>1, <2>2, <2>3
<1>8. ProvidersTypeOK'
  BY <1>1, <1>2, <1>7 DEF ProvidersTypeOK
<1>9. CASE \E resolved \in BOOLEAN : StartLoopOver(resolved)
  <2>1. PICK cfg, resolved : /\ cfg = InUse(GetConfig) /\ sent' = Outcome(FALSE, resolved, cfg)
                             /\ Valid(GetConfig) /\ told' = {} /\ turn' = 1
    BY <1>9 DEF StartLoopOver
  <2>2. sent'.ok = FALSE /\ sent'.with = cfg
    BY <2>1 DEF Outcome
  <2>3. SentAsConfigured'
    BY <1>1, <2>1, <2>2, UsedAsConfigured, SentStays
  <2>4. TurnInv' /\ SuccessMeansEveryoneTold'
    <3>1. told' = 1..(turn' - 1) /\ turn' <= Recipients + 1
      BY <1>1, <2>1
    <3> QED
      BY <1>1, <1>2, <2>1, <2>2, <3>1 DEF TurnInv, SuccessMeansEveryoneTold
  <2> QED
    BY <1>2, <1>4, <1>6, <1>8, <2>3, <2>4
<1>10. CASE TellNext \/ TellFails \/ EveryoneHandled
  <2>1. PICK cfg : cfg = sent.with
    OBVIOUS
  <2>2. sent'.with = cfg /\ (cfg # NoConfig => AsConfigured(cfg))
    <3>1. cfg # NoConfig => AsConfigured(cfg)
      BY <2>1 DEF SentAsConfigured, AsConfigured
    <3>2. sent'.with = sent.with
      BY <1>10 DEF TellNext, TellFails, EveryoneHandled, ProvidersTypeOK
    <3> QED
      BY <2>1, <3>1, <3>2
  <2>3. SentAsConfigured'
    BY <1>1, <2>2, SentStays
  <2>4. TurnInv' /\ SuccessMeansEveryoneTold'
    <3>1. CASE TellNext
      <4>1. /\ turn \in 1..Recipients /\ told' = told \cup {turn} /\ turn' = turn + 1
            /\ UNCHANGED sent /\ ~sent.ok /\ told = 1..(turn - 1)
        BY <1>1, <3>1 DEF TellNext, Everyone, TurnInv
      <4>2. told' = 1..(turn' - 1) /\ turn' <= Recipients + 1
        BY <1>1, <4>1
      <4> QED
        BY <1>1, <1>2, <4>1, <4>2 DEF TurnInv, SuccessMeansEveryoneTold
    <3>2. CASE TellFails
      <4>1. turn \in 1..Recipients /\ turn' = 0 /\ UNCHANGED sent /\ ~sent.ok
        BY <1>1, <3>2 DEF TellFails, Everyone, TurnInv
      <4> QED
        BY <4>1 DEF TurnInv, SuccessMeansEveryoneTold
    <3>3. CASE EveryoneHandled
      <4>1. turn' = 0 /\ turn = Recipients + 1 /\ told = 1..(turn - 1) /\ UNCHANGED told
        BY <1>1, <3>3 DEF EveryoneHandled, TurnInv
      <4>2. told' = Everyone
        BY <1>1, <4>1 DEF Everyone
      <4> QED
        BY <4>1, <4>2 DEF TurnInv, SuccessMeansEveryoneTold, Everyone
    <3> QED
      BY <1>10, <3>1, <3>2, <3>3
  <2> QED
    BY <1>2, <1>4, <1>6, <1>8, <2>3, <2>4
<1> QED
  BY <1>9, <1>10

(* Every notification and resolution, and their absence.                   *)
LEMMA ProvidersStep ==
  ASSUME ProvidersInv, [ProvidersNext]_providerVars
  PROVE  ProvidersInv'
<1> USE DEF ProvidersInv
<1>1. CASE NotConfigured
  <2>1. /\ sent' = Outcome(FALSE, FALSE, NoConfig) /\ told' = {}
        /\ turn = 0
        /\ UNCHANGED <<type, setup, triggered, key, open, lost, turn>>
    BY <1>1 DEF NotConfigured, Ready
  <2>2. sent'.count = sent.count + 1 /\ sent'.ok = FALSE /\ sent'.resolved = FALSE /\ sent'.with = NoConfig
    BY <2>1 DEF Outcome
  <2>3. provider' = provider /\ Accepted' /\ (setup \in SetUps(type))'
    BY <2>1, SameSetUp DEF ProvidersTypeOK
  <2>4. sent'.count \in Nat /\ DOMAIN sent' = {"count", "ok", "resolved", "with"}
    BY <2>1, <2>2 DEF ProvidersTypeOK, Outcome
  <2>5. ProvidersTypeOK'
    BY <2>1, <2>2, <2>3, <2>4 DEF ProvidersTypeOK
  <2>6. KeyInv' /\ NeighbourInv'
    BY <2>1, <2>3 DEF KeyInv, NeighbourInv, OpenHere
  <2>7. SentAsConfigured'
    BY <2>1, <2>2, SentStays
  <2>8. SuccessMeansEveryoneTold' /\ ResolutionClosesIncident' /\ TurnInv'
    BY <2>1, <2>2 DEF SuccessMeansEveryoneTold, ResolutionClosesIncident, TurnInv
  <2> QED
    BY <2>3, <2>5, <2>6, <2>7, <2>8
<1>2. CASE ForgetTriggered \/ UNCHANGED providerVars
  <2>1. /\ triggered' \in {FALSE, triggered} /\ UNCHANGED <<type, setup, key, open, lost, told, turn, sent>>
    BY <1>2 DEF ForgetTriggered, providerVars
  <2>2. provider' = provider /\ Accepted' /\ (setup \in SetUps(type))'
    BY <2>1, SameSetUp DEF ProvidersTypeOK
  <2>3. triggered' \in BOOLEAN
    BY <2>1 DEF ProvidersTypeOK
  <2>4. ProvidersTypeOK'
    BY <2>1, <2>2, <2>3 DEF ProvidersTypeOK
  <2>5. KeyInv' /\ NeighbourInv'
    BY <2>1, <2>2 DEF KeyInv, NeighbourInv, OpenHere
  <2>6. SentAsConfigured'
    <3>1. PICK cfg : cfg = sent.with
      OBVIOUS
    <3>2. sent'.with = cfg /\ (cfg # NoConfig => AsConfigured(cfg))
      BY <2>1, <3>1 DEF SentAsConfigured, AsConfigured
    <3> QED
      BY <2>1, <3>2, SentStays
  <2>7. SuccessMeansEveryoneTold' /\ ResolutionClosesIncident' /\ TurnInv'
    BY <2>1, <2>2 DEF SuccessMeansEveryoneTold, ResolutionClosesIncident, OpenHere, TurnInv
  <2> QED
    BY <2>2, <2>4, <2>5, <2>6, <2>7
<1> QED
  BY <1>1, <1>2, NotifyStep, ResolveStep, LoopOverStep DEF ProvidersNext

(* All of it holds of every provider, set-up and history of answers.       *)
THEOREM ProvidersInvariant == ProvidersSpec => []ProvidersInv
<1>1. ProvidersInit => ProvidersInv
  <2> SUFFICES ASSUME ProvidersInit PROVE ProvidersInv
    OBVIOUS
  <2>1. /\ type \in Types /\ setup \in SetUps(type) /\ Accepted
        /\ triggered = FALSE /\ key = 0 /\ lost = FALSE /\ open = {<<"neighbour", 0>>}
        /\ sent.count = 0 /\ sent.ok = FALSE /\ sent.resolved = FALSE /\ sent.with = NoConfig
        /\ turn = 0
    BY DEF ProvidersInit
  <2>2. ProvidersTypeOK
    <3>1. open \subseteq {"endpoint", "neighbour"} \X Nat
      BY <2>1
    <3>2. sent.count \in Nat /\ key \in Nat /\ DOMAIN sent = {"count", "ok", "resolved", "with"}
      BY <2>1 DEF ProvidersInit
    <3> QED
      BY <2>1, <3>1, <3>2 DEF ProvidersTypeOK
  <2>3. OpenHere = {}
    BY <2>1 DEF OpenHere
  <2>4. KeyInv /\ NeighbourInv /\ TurnInv
    BY <2>1, <2>3 DEF KeyInv, NeighbourInv, TurnInv
  <2>5. SentAsConfigured /\ SuccessMeansEveryoneTold /\ ResolutionClosesIncident
    BY <2>1 DEF SentAsConfigured, SuccessMeansEveryoneTold, ResolutionClosesIncident
  <2> QED
    BY <2>1, <2>2, <2>4, <2>5 DEF ProvidersInv
<1> QED
  BY <1>1, ProvidersStep, PTL DEF ProvidersSpec

(* GetConfig of all 41 providers: what is sent goes out with the most      *)
(* specific value of every setting that is not blank, whatever the         *)
(* overrides are; gitea and github keep the host, token and client         *)
(* configuration of their default for a repository of the same owner and   *)
(* name, and nothing else.                                                 *)
THEOREM ConfigurationApplies == ProvidersSpec => []SentAsConfigured
<1>1. ProvidersInv => SentAsConfigured
  BY DEF ProvidersInv
<1> QED
  BY <1>1, ProvidersInvariant, PTL

(* Send of all 41 providers, with any number of recipients: no error means *)
(* that everyone was told, also by those that loop over them and return    *)
(* the first error.                                                        *)
THEOREM EveryoneTold == ProvidersSpec => []SuccessMeansEveryoneTold
<1>1. ProvidersInv => SuccessMeansEveryoneTold
  BY DEF ProvidersInv
<1> QED
  BY <1>1, ProvidersInvariant, PTL

(* The resolution of all 41 providers: with a key that was not lost, it    *)
(* closes what was opened, and nothing of a neighbour's.                   *)
THEOREM IncidentsAreClosed == ProvidersSpec => []ResolutionClosesIncident
<1>1. ProvidersInv => ResolutionClosesIncident
  BY DEF ProvidersInv
<1> QED
  BY <1>1, ProvidersInvariant, PTL

-----------------------------------------------------------------------------
(* The evaluation of an endpoint                                           *)

EvaluationSpec == EvaluationInit /\ [][EvaluationNext]_evaluationVars

(* What is known at each stage.                                            *)
StageInv ==
  /\ endpoint \in EndpointConfigs
  /\ stage \in {"new", "prepared", "called", "judged"}
  /\ stage = "new" => retrieved = {} /\ problems = {}
  /\ stage = "prepared" => problems \subseteq {"before"}

(* Until a field is retrieved, its placeholder stands for the default.     *)
DefaultInv == Source \notin retrieved => text = Default(endpoint.name)

(* What Prepare has found out, unless it failed.                           *)
PreparedInv ==
  stage # "new" /\ problems = {} =>
    /\ Mentioned("IP") => "IP" \in retrieved
    /\ Mentioned("DOMAIN_EXPIRATION") => "DOMAIN_EXPIRATION" \in retrieved \/ "hostname" \notin retrieved

(* What the call has, unless it failed, and what it means that it did not  *)
(* come to one.                                                            *)
CalledInv ==
  stage \in {"called", "judged"} =>
    /\ problems = {} /\ NeedsToReadBody =>
         "BODY" \in retrieved \/ endpoint.type \in {"STARTTLS", "SCTP", "ICMP", "SSH banner"}
    /\ "before" \in problems => ~healthy

EvaluationInv ==
  StageInv /\ DefaultInv /\ PreparedInv /\ CalledInv /\ healthy \in BOOLEAN /\ HealthyMeansReached

(* No literal or list of literals equals what stands for a value that was  *)
(* not retrieved, those with a zero excepted.                              *)
LEMMA NothingEqualsDefault ==
  ASSUME NEW o \in Others, o[1] # "pat", o \notin Zero, o[1] = "any" => o[2] \cap Zero = {},
         NEW t \in {Empty, Invalid, False, <<"decimal", 0>>}
  PROVE  ~IsEqual(o, t) /\ ~IsEqual(t, o)
<1>1. /\ t[1] \notin {"pat", "any"} /\ t[1] \in {"empty", "(INVALID)", "false", "decimal"}
      /\ t = <<t[1], 0>> /\ t[2] = 0
  BY DEF Empty, Invalid, False
<1>2. CASE o = <<"any", {<<"decimal", 2>>, <<"word", 1>>}>>
  <2>1. o[1] = "any" /\ o[2] = {<<"decimal", 2>>, <<"word", 1>>}
    BY <1>2
  <2>2. t \notin o[2]
    BY <1>1, <2>1
  <2> QED
    BY <1>1, <2>1, <2>2 DEF IsEqual, IsWhole
<1>3. CASE o \in {<<"decimal", 2>>, <<"hex", 2>>, <<"float", 2>>, <<"duration", 2>>, <<"word", 1>>, True}
  <2>1. o[1] \notin {"pat", "any"} /\ o # t /\ o[2] # 0
    BY <1>1, <1>3 DEF True
  <2> QED
    BY <1>1, <2>1 DEF IsEqual
<1>4. o # <<"any", {<<"decimal", 0>>, False}>>
  <2>1. SUFFICES ASSUME o = <<"any", {<<"decimal", 0>>, False}>> PROVE FALSE
    OBVIOUS
  <2>2. o[1] = "any" /\ o[2] = {<<"decimal", 0>>, False}
    BY <2>1
  <2> QED
    BY <2>2 DEF Zero
<1> QED
  BY <1>2, <1>3, <1>4 DEF Others, Literals, Zero

(* What a condition that asks for a value makes of one that it has not.    *)
LEMMA DefaultFails ==
  ASSUME endpoint \in EndpointConfigs, text = Default(endpoint.name), Source # "CONTEXT.path",
         endpoint.operator = "==", endpoint.other[1] # "pat", endpoint.other \notin Zero,
         endpoint.other[1] = "any" => endpoint.other[2] \cap Zero = {},
         endpoint.function = "none" \/ Source = "BODY"
  PROVE  ~Holds
<1>1. /\ endpoint.other \in Others /\ endpoint.name \in Names
      /\ endpoint.function \in {"none", "len", "has"} /\ endpoint.otherFirst \in BOOLEAN
  BY DEF EndpointConfigs
<1>2. endpoint.name # "CONTEXT.path"
  BY DEF Source
<1>3. text \in {Empty, Invalid, False, <<"decimal", 0>>}
  BY <1>1, <1>2 DEF Default, Names
<1>4. TextOfPlaceholder \in {Empty, Invalid, False, <<"decimal", 0>>}
  <2>1. CASE endpoint.function = "none"
    BY <1>2, <1>3, <2>1 DEF TextOfPlaceholder
  <2>2. CASE endpoint.function = "has" /\ Source = "BODY"
    BY <1>1, <1>2, <2>2 DEF TextOfPlaceholder, Source, Default
  <2>3. CASE endpoint.function = "len" /\ Source = "BODY"
    BY <1>1, <1>2, <2>3 DEF TextOfPlaceholder, Source, Default, Length
  <2> QED
    BY <1>1, <2>1, <2>2, <2>3
<1>5. ~IsEqual(endpoint.other, TextOfPlaceholder) /\ ~IsEqual(TextOfPlaceholder, endpoint.other)
  BY <1>1, <1>4, NothingEqualsDefault
<1> QED
  BY <1>1, <1>5 DEF Holds

(* Every step of an evaluation.                                            *)
LEMMA EvaluationStep ==
  ASSUME EvaluationInv, [EvaluationNext]_evaluationVars
  PROVE  EvaluationInv'
<1> USE DEF EvaluationInv
<1>1. CASE Prepare
  <2>1. stage = "new" /\ stage' = "prepared" /\ endpoint' = endpoint /\ healthy' = healthy
    BY <1>1 DEF Prepare
  <2> DEFINE LooksUp(host) == {n \in {"IP", "DOMAIN_EXPIRATION"} : Mentioned(n) /\ (n = "IP" \/ host)}
             Found(host, given) ==
               (IF given THEN LooksUp(host) ELSE {}) \cup (IF host THEN {"hostname"} ELSE {})
  <2>2. PICK resolved, parsed, hasHost, answer \in BOOLEAN :
          /\ Retrieve(Found(hasHost, answer))
          /\ problems' = IF resolved /\ parsed /\ (LooksUp(hasHost) = {} \/ answer) THEN {} ELSE {"before"}
    BY <1>1, ZenonT(40) DEF Prepare
  <2>3. retrieved' = Found(hasHost, answer)
    BY <2>1, <2>2 DEF Retrieve, StageInv
  <2>4. DefaultInv'
    <3> HIDE DEF Found
    <3> QED
      BY <2>1, <2>2 DEF Retrieve, DefaultInv, Source, Default
  <2>5. PreparedInv'
    <3>1. \A n : Mentioned(n)' <=> Mentioned(n)
      BY <2>1 DEF Mentioned, Source
    <3>2. problems' = {} => LooksUp(hasHost) = {} \/ answer
      BY <2>2
    <3> QED
      BY <2>2, <2>3, <3>1, <3>2 DEF PreparedInv
  <2>6. StageInv'
    BY <2>1, <2>2 DEF StageInv
  <2> QED
    BY <2>1, <2>4, <2>5, <2>6 DEF CalledInv, HealthyMeansReached
<1>2. CASE SkipCall
  BY <1>2 DEF SkipCall, StageInv, DefaultInv, PreparedInv, CalledInv, HealthyMeansReached,
              Source, Default, Mentioned, NeedsToReadBody
<1>3. CASE CallSucceeds
  <2>1. /\ stage = "prepared" /\ problems = {} /\ stage' = "called"
        /\ endpoint' = endpoint /\ healthy' = healthy
        /\ problems' \in {{}, {"reading"}} /\ Retrieve(Answers)
    BY <1>3 DEF CallSucceeds
  <2>2. retrieved' = retrieved \cup Answers
    BY <2>1 DEF Retrieve
  <2>3. "hostname" \notin Answers
    BY DEF Answers
  <2>4. NeedsToReadBody => "BODY" \in Answers \/ endpoint.type \in {"STARTTLS", "SCTP", "ICMP", "SSH banner"}
    BY DEF Answers
  <2>5. DefaultInv'
    BY <2>1 DEF Retrieve, DefaultInv, Source, Default
  <2>6. StageInv' /\ PreparedInv' /\ CalledInv' /\ HealthyMeansReached'
    BY <2>1, <2>2, <2>3, <2>4
       DEF StageInv, PreparedInv, CalledInv, HealthyMeansReached, Mentioned, Source, NeedsToReadBody
  <2> QED
    BY <2>1, <2>5, <2>6
<1>4. CASE CallFails
  <2>1. /\ stage = "prepared" /\ problems = {} /\ stage' = "called"
        /\ endpoint' = endpoint /\ problems' = {"call"}
    BY <1>4 DEF CallFails
  <2>2. PICK late \in BOOLEAN :
          /\ retrieved' = retrieved \cup (IF late THEN {"CONNECTED"} ELSE {}) \cup LeftByFailure
          /\ text' \in IF late /\ Source = "CONNECTED" THEN {True}
                       ELSE IF Source \notin LeftByFailure THEN {text}
                       ELSE IF Source = "STATUS" THEN {<<"decimal", 2>>} ELSE Possible(endpoint.name)
          /\ healthy' = AfterFailure
    BY <1>4 DEF CallFails
  <2>3. DefaultInv'
    BY <2>1, <2>2 DEF DefaultInv, Source, Default
  <2>4. healthy' \in BOOLEAN
    BY <2>2 DEF AfterFailure
  <2> QED
    BY <2>1, <2>3, <2>4 DEF StageInv, PreparedInv, CalledInv, HealthyMeansReached
<1>5. CASE Judge
  <2>1. /\ stage = "called" /\ stage' = "judged" /\ healthy' = (healthy /\ Holds)
        /\ UNCHANGED <<endpoint, retrieved, text, problems>>
    BY <1>5 DEF Judge
  <2>2. healthy' \in BOOLEAN /\ (healthy' => healthy /\ Holds)
    BY <2>1
  <2>3. StageInv' /\ DefaultInv' /\ PreparedInv' /\ CalledInv'
    BY <2>1, <2>2 DEF StageInv, DefaultInv, PreparedInv, CalledInv, Source, Default, Mentioned, NeedsToReadBody
  <2>4. ASSUME healthy', "call" \in problems
        PROVE  \/ Source \in retrieved \cup {"CONTEXT.path"}
               \/ endpoint.operator # "==" \/ endpoint.other[1] = "pat" \/ endpoint.other \in Zero
               \/ endpoint.other[1] = "any" /\ endpoint.other[2] \cap Zero # {}
               \/ endpoint.function # "none" /\ Source # "BODY"
    BY <2>2, <2>4, DefaultFails DEF StageInv, DefaultInv
  <2>5. HealthyMeansReached'
    BY <2>1, <2>2, <2>4 DEF HealthyMeansReached, CalledInv, Source
  <2> QED
    BY <2>2, <2>3, <2>5
<1>6. CASE UNCHANGED evaluationVars
  <2>1. UNCHANGED <<stage, endpoint, retrieved, text, problems, healthy>>
    BY <1>6 DEF evaluationVars
  <2>2. StageInv' /\ DefaultInv'
    BY <2>1 DEF StageInv, DefaultInv, Source, Default
  <2>3. PreparedInv' /\ CalledInv'
    BY <2>1 DEF PreparedInv, CalledInv, Mentioned, Source, NeedsToReadBody
  <2>4. HealthyMeansReached'
    BY <2>1 DEF HealthyMeansReached, Source
  <2> QED
    BY <2>1, <2>2, <2>3, <2>4
<1> QED
  BY <1>1, <1>2, <1>3, <1>4, <1>5, <1>6 DEF EvaluationNext

(* EvaluateHealthWithContext: all of it holds of every endpoint and every  *)
(* course that its evaluation may take.                                    *)
THEOREM EvaluationInvariant == EvaluationSpec => []EvaluationInv
<1>1. EvaluationInit => EvaluationInv
  BY DEF EvaluationInit, EvaluationInv, StageInv, DefaultInv, PreparedInv, CalledInv, HealthyMeansReached
<1> QED
  BY <1>1, EvaluationStep, PTL DEF EvaluationSpec

(* needsToReadBody and its like: a condition that is judged after nothing  *)
(* failed had what it asks for retrieved.                                  *)
THEOREM RetrievedInTime == EvaluationSpec => []RetrievedBeforeUse
<1>1. EvaluationInv => RetrievedBeforeUse
  BY DEF EvaluationInv, PreparedInv, CalledInv, RetrievedBeforeUse, NeedsToReadBody
<1> QED
  BY <1>1, EvaluationInvariant, PTL

(* An endpoint that was not reached is healthy only in the ways that       *)
(* HealthyMeansReached lists.                                              *)
THEOREM HealthyWasReached == EvaluationSpec => []HealthyMeansReached
<1>1. EvaluationInv => HealthyMeansReached
  BY DEF EvaluationInv
<1> QED
  BY <1>1, EvaluationInvariant, PTL

-----------------------------------------------------------------------------
(* Pages of results                                                        *)

PagingSpec == PagingInit /\ [][PagingNext]_pagingVars

PagingTypeOK ==
  /\ pager \in {"memory", "sql"}
  /\ inserted \in Nat /\ newest \in 0..inserted
  /\ keptRows \in 0..inserted /\ keptRows <= KeptResults + ResultSlack /\ InMemory <= keptRows
  /\ page \in 1..(HalfWord - 1) /\ pageSize \in 1..(HalfWord - 1)
  /\ read \subseteq Int

(* A reader has read, of what is still kept, everything down to some       *)
(* number, and that is at most where the page that it has reached ends by  *)
(* now.                                                                    *)
ReaderInv ==
  newest # 0 =>
    /\ pageSize <= KeptResults /\ (page - 1) * pageSize <= KeptResults + ResultSlack
    /\ \E m \in Int :
         /\ m <= inserted - page * pageSize
         /\ \A r \in read : r > m
         /\ \A id \in FirstKept..newest : id > m => id \in read

PagingInv == PagingTypeOK /\ ReaderInv

(* What division leaves.                                                   *)
LEMMA Remainder ==
  ASSUME NEW a \in Int, NEW m \in Nat \ {0}
  PROVE  /\ a % m \in 0..(m - 1)
         /\ \E q \in Int : a = m * q + (a % m)
<1>1. a % m \in 0..(m - 1)
  BY SMT
<1>2. a = m * (a \div m) + (a % m)
  BY SMT
<1>3. a \div m \in Int
  BY SMT
<1> QED
  BY <1>1, <1>2, <1>3

(* Integers wrap around: by a multiple of the word, into its range.        *)
LEMMA WrappedFacts ==
  ASSUME NEW a \in Int
  PROVE  /\ Wrapped(a) \in Integer64
         /\ \E q \in Int : Wrapped(a) = a - (2 * HalfWord) * q
<1> DEFINE m == 2 * HalfWord
<1>1. m \in Nat \ {0} /\ HalfWord \in Nat /\ m = 2 * HalfWord
  BY PagingAssumption
<1>2. a + HalfWord \in Int
  BY <1>1
<1>3. Wrapped(a) = ((a + HalfWord) % m) - HalfWord
  BY DEF Wrapped
<1> HIDE DEF m
<1>4. /\ (a + HalfWord) % m \in 0..(m - 1)
      /\ \E q \in Int : a + HalfWord = m * q + ((a + HalfWord) % m)
  BY <1>1, <1>2, Remainder
<1>5. PICK q \in Int : a + HalfWord = m * q + ((a + HalfWord) % m)
  BY <1>4
<1>6. m * q \in Int
  BY <1>1
<1>7. Wrapped(a) \in Integer64 /\ Wrapped(a) = a - m * q
  BY <1>1, <1>3, <1>4, <1>5, <1>6 DEF Integer64
<1> QED
  BY <1>1, <1>7

(* How far apart the multiples of a word are.                              *)
LEMMA MultipleOfWord ==
  ASSUME NEW m \in Nat \ {0}, NEW q \in Int
  PROVE  /\ m * q \in Int
         /\ m * q > -m /\ m * q < m => q = 0
         /\ q = 0 => m * q = 0
         /\ q = 1 => m * q = m
         /\ q = -1 => m * q = -m
         /\ q >= 1 => m * q >= m
         /\ q >= 2 => m * q >= 2 * m
         /\ q <= -2 => m * q <= -2 * m
  BY SMT

(* Nothing happens to what is in range...                                  *)
LEMMA InRange ==
  ASSUME NEW a \in Integer64
  PROVE  Wrapped(a) = a
<1>1. HalfWord \in Nat \ {0} /\ a \in Int /\ -HalfWord <= a /\ a < HalfWord
  BY PagingAssumption DEF Integer64
<1>2. PICK q \in Int : Wrapped(a) = a - (2 * HalfWord) * q
  BY <1>1, WrappedFacts
<1>3. Wrapped(a) \in Int /\ -HalfWord <= Wrapped(a) /\ Wrapped(a) < HalfWord
  BY <1>1, WrappedFacts DEF Integer64
<1> DEFINE m == 2 * HalfWord
<1>4. m \in Nat \ {0} /\ m = 2 * HalfWord
  BY <1>1
<1>5. Wrapped(a) = a - m * q
  BY <1>2
<1> HIDE DEF m
<1>6. /\ m * q \in Int /\ (m * q > -m /\ m * q < m => q = 0) /\ (q = 0 => m * q = 0)
  BY <1>4, MultipleOfWord
<1> QED
  BY <1>1, <1>3, <1>4, <1>5, <1>6

(* ... and what is above is brought down by one word.                      *)
LEMMA AboveRange ==
  ASSUME NEW a \in HalfWord..(3 * HalfWord - 1)
  PROVE  Wrapped(a) = a - 2 * HalfWord
<1>1. HalfWord \in Nat \ {0} /\ a \in Int /\ HalfWord <= a /\ a < 3 * HalfWord
  BY PagingAssumption
<1>2. PICK q \in Int : Wrapped(a) = a - (2 * HalfWord) * q
  BY <1>1, WrappedFacts
<1>3. Wrapped(a) \in Int /\ -HalfWord <= Wrapped(a) /\ Wrapped(a) < HalfWord
  BY <1>1, WrappedFacts DEF Integer64
<1> DEFINE m == 2 * HalfWord
<1>4. m \in Nat \ {0} /\ m = 2 * HalfWord
  BY <1>1
<1>5. Wrapped(a) = a - m * q
  BY <1>2
<1> HIDE DEF m
<1>6. /\ m * q \in Int /\ (q = 1 => m * q = m) /\ (q >= 2 => m * q >= 2 * m)
      /\ (q = 0 => m * q = 0) /\ (q = -1 => m * q = -m) /\ (q <= -2 => m * q <= -2 * m)
  BY <1>4, MultipleOfWord
<1> QED
  BY <1>1, <1>3, <1>4, <1>5, <1>6

(* A page that ends in range is where it should be, whichever way the      *)
(* product that it starts at has gone.                                     *)
LEMMA PageInRange ==
  ASSUME NEW n \in 0..(HalfWord - 1), NEW x \in 0..HalfWord
  PROVE  Wrapped(n - Wrapped(x)) = n - x
<1>1. HalfWord \in Nat \ {0} /\ n \in Int /\ 0 <= n /\ n < HalfWord /\ x \in Int /\ 0 <= x /\ x <= HalfWord
  BY PagingAssumption
<1>2. CASE x < HalfWord
  <2>1. x \in Integer64 /\ n - x \in Integer64
    BY <1>1, <1>2 DEF Integer64
  <2> QED
    BY <2>1, InRange
<1>3. CASE x = HalfWord
  <2>1. x \in HalfWord..(3 * HalfWord - 1)
    BY <1>1, <1>3
  <2>2. Wrapped(x) = x - 2 * HalfWord
    BY <2>1, AboveRange
  <2>3. n - Wrapped(x) = n + HalfWord
    BY <1>1, <1>3, <2>2
  <2> DEFINE raised == n + HalfWord
  <2>4. raised \in HalfWord..(3 * HalfWord - 1) /\ raised = n + HalfWord
    BY <1>1
  <2> HIDE DEF raised
  <2>5. Wrapped(raised) = raised - 2 * HalfWord
    BY <2>4, AboveRange
  <2> QED
    BY <1>1, <1>3, <2>3, <2>4, <2>5
<1> QED
  BY <1>1, <1>2, <1>3

(* The products that the code forms.                                       *)
LEMMA Products ==
  ASSUME NEW p \in Nat \ {0}, NEW size \in Nat \ {0}
  PROVE  /\ p * size \in Nat \ {0} /\ (p - 1) * size \in Nat /\ (p + 1) * size \in Nat
         /\ (p - 1) * size = p * size - size
         /\ (p + 1) * size = p * size + size
         /\ p <= p * size /\ size <= p * size
  BY SMT

(* What there is to a store and to a page.                                 *)
LEMMA StoreFacts ==
  ASSUME PagingTypeOK
  PROVE  /\ InMemory \in Nat /\ InMemory <= KeptResults /\ InMemory < HalfWord /\ InMemory <= inserted
         /\ FirstInMemory \in Nat \ {0} /\ FirstInMemory = inserted - InMemory + 1
         /\ FirstRow \in Nat \ {0} /\ FirstRow <= FirstInMemory
         /\ FirstKept \in Nat \ {0} /\ ResultSlack \in Nat
         /\ inserted \in Nat /\ newest \in Nat /\ newest <= inserted
         /\ HalfWord \in Nat /\ page \in Nat \ {0} /\ pageSize \in Nat \ {0}
         /\ page < HalfWord /\ pageSize < HalfWord
         /\ KeptResults \in Nat \ {0} /\ KeptResults + ResultSlack + 1 < HalfWord
         /\ 2 * KeptResults + ResultSlack <= HalfWord
  BY PagingAssumption DEF PagingTypeOK, InMemory, FirstInMemory, FirstRow, FirstKept

(* Of two integers that have been wrapped, both derived from one product,  *)
(* the second is behind the first unless it is negative.                   *)
LEMMA SliceInOrder ==
  ASSUME NEW n \in 0..(HalfWord - 1), NEW p \in 1..(HalfWord - 1), NEW size \in 1..(HalfWord - 1)
  PROVE  LET indexes == Indexes(n, p, size) IN
           indexes[1] >= 0 /\ indexes[2] >= 0 => indexes[1] <= indexes[2] /\ indexes[2] <= n
<1>1. /\ HalfWord \in Nat \ {0} /\ n \in Int /\ 0 <= n /\ n < HalfWord
      /\ p \in Nat \ {0} /\ size \in Nat \ {0} /\ size < HalfWord
  BY PagingAssumption
<1> DEFINE m == 2 * HalfWord
           x == p * size
           y == (p - 1) * size
           a == Wrapped(x)
           b == Wrapped(y)
           start == Wrapped(n - a)
           end == Wrapped(n - b)
<1>2. m \in Nat \ {0} /\ m = 2 * HalfWord
  BY <1>1
<1>3. x \in Int /\ y \in Int /\ y = x - size
  BY <1>1, Products
<1>4. Indexes(n, p, size) =
        <<IF start > n THEN -1 ELSE IF start < 0 THEN 0 ELSE start, IF end > n THEN n ELSE end>>
  BY <1>1 DEF Indexes
<1> HIDE DEF x, y
<1>5. PICK i \in Int : a = x - m * i
  BY <1>3, WrappedFacts
<1>6. PICK j \in Int : b = y - m * j
  BY <1>3, WrappedFacts
<1>7. a \in Int /\ b \in Int
  BY <1>1, <1>3, WrappedFacts DEF Integer64
<1> HIDE DEF a, b
<1>8. n - a \in Int /\ n - b \in Int
  BY <1>1, <1>7
<1>9. PICK k \in Int : start = (n - a) - m * k
  BY <1>8, WrappedFacts
<1>10. PICK l \in Int : end = (n - b) - m * l
  BY <1>8, WrappedFacts
<1>11. /\ start \in Int /\ -HalfWord <= start /\ start < HalfWord
       /\ end \in Int /\ -HalfWord <= end /\ end < HalfWord
  BY <1>1, <1>8, WrappedFacts DEF Integer64
<1> HIDE DEF start, end, m
<1>12. /\ m * i \in Int /\ m * j \in Int /\ m * k \in Int /\ m * l \in Int
       /\ m * (j - i + k - l) = m * j - m * i + m * k - m * l
  BY <1>2
<1>13. end - start = size + m * (j - i + k - l)
  BY <1>1, <1>3, <1>5, <1>6, <1>7, <1>9, <1>10, <1>12
<1> DEFINE z == j - i + k - l
<1>14. z \in Int
  OBVIOUS
<1> HIDE DEF z
<1>15. /\ m * z \in Int /\ (z = 0 => m * z = 0) /\ (z = -1 => m * z = -m)
       /\ (z >= 1 => m * z >= m) /\ (z <= -2 => m * z <= -2 * m)
  BY <1>2, <1>14, MultipleOfWord
<1>16. end - start = size + m * z
  BY <1>13 DEF z
<1>17. end = start + size \/ end = start + size - m
  BY <1>1, <1>2, <1>11, <1>14, <1>15, <1>16
<1> QED
  BY <1>1, <1>2, <1>4, <1>11, <1>17

(* The results, of those from first on, that are so far from the newest.   *)
Between(first, size, x) == {id \in first..inserted : inserted - x < id /\ id <= inserted - (x - size)}

(* A page whose end does not wrap is that in either store: of what it has. *)
LEMMA PageContents ==
  ASSUME PagingTypeOK, NEW p \in 1..(HalfWord - 1), NEW size \in 1..(HalfWord - 1), p * size <= HalfWord
  PROVE  /\ MemoryPage(p, size) = Between(FirstInMemory, size, p * size)
         /\ SQLPage(p, size) = Between(FirstRow, size, p * size)
         /\ Page(p, size) = Between(FirstKept, size, p * size)
<1> DEFINE x == p * size
           y == (p - 1) * size
<1>1. p \in Nat \ {0} /\ size \in Nat \ {0} /\ size < HalfWord
  BY StoreFacts
<1>2. x \in Nat /\ y \in Nat /\ y = x - size /\ x <= HalfWord /\ y < HalfWord /\ x = p * size
  BY <1>1, StoreFacts, Products
<1> HIDE DEF x, y
<1>3. /\ Wrapped(InMemory - Wrapped(x)) = InMemory - x
      /\ Wrapped(InMemory - Wrapped(y)) = InMemory - y
  <2>1. InMemory \in 0..(HalfWord - 1) /\ x \in 0..HalfWord /\ y \in 0..HalfWord
    BY <1>2, StoreFacts
  <2> QED
    BY <2>1, PageInRange
<1>4. Indexes(InMemory, p, size) =
        <<IF InMemory - x < 0 THEN 0 ELSE InMemory - x, InMemory - y>>
  BY <1>1, <1>2, <1>3, StoreFacts DEF Indexes, x, y
<1>5. MemoryPage(p, size) = Between(FirstInMemory, size, x)
  BY <1>1, <1>2, <1>4, StoreFacts DEF MemoryPage, Between
<1>6. Wrapped(y) = y
  BY <1>2, StoreFacts, InRange DEF Integer64
<1>7. SQLPage(p, size) = Between(FirstRow, size, x)
  BY <1>1, <1>2, <1>6, StoreFacts DEF SQLPage, Between, y
<1> QED
  BY <1>2, <1>5, <1>7 DEF Page, FirstKept

(* Every request makes integers of what it is given.                       *)
LEMMA Requests ==
  ASSUME NEW a \in Integer64 \cup {NotANumber}, NEW b \in Integer64 \cup {NotANumber}
  PROVE  PageOf(a) \in 1..(HalfWord - 1) /\ PageSizeOf(PageOf(a), b) \in 1..(HalfWord - 1)
  BY PagingAssumption DEF Integer64, NotANumber, PageOf, PageSizeOf

(* ... and every page has numbers of results.                              *)
LEMMA PagesAreNumbers ==
  ASSUME PagingTypeOK, NEW p \in 1..(HalfWord - 1), NEW size \in 1..(HalfWord - 1)
  PROVE  Page(p, size) \subseteq Int
<1>1. SQLPage(p, size) \subseteq Int
  BY StoreFacts DEF SQLPage
<1>2. MemoryPage(p, size) \subseteq Int
  BY DEF MemoryPage
<1> QED
  BY <1>1, <1>2 DEF Page

(* Reading, asking and inserting.                                          *)
LEMMA PagingStep ==
  ASSUME PagingInv, [PagingNext]_pagingVars
  PROVE  PagingInv'
<1> USE DEF PagingInv
<1>0. /\ HalfWord \in Nat /\ KeptResults \in Nat \ {0} /\ ResultSlack \in Nat
      /\ KeptResults + ResultSlack + 1 < HalfWord /\ 2 * KeptResults + ResultSlack <= HalfWord
  BY PagingAssumption
<1>1. CASE InsertOne
  <2>1. /\ inserted' = inserted + 1 /\ UNCHANGED <<pager, newest, page, pageSize, read>>
        /\ keptRows' = IF keptRows + 1 > KeptResults + ResultSlack THEN KeptResults ELSE keptRows + 1
    BY <1>1 DEF InsertOne
  <2>2. PagingTypeOK'
    BY <1>0, <2>1 DEF PagingTypeOK, InMemory
  <2>3. FirstKept' >= FirstKept /\ FirstKept' \in Int /\ FirstKept \in Int
    BY <1>0, <2>1 DEF FirstKept, FirstRow, FirstInMemory, InMemory, PagingTypeOK
  <2>4. ASSUME newest # 0
        PROVE  ReaderInv'
    <3>1. PICK m \in Int :
            /\ m <= inserted - page * pageSize
            /\ \A r \in read : r > m
            /\ \A id \in FirstKept..newest : id > m => id \in read
      BY <2>4 DEF ReaderInv
    <3>2. m <= inserted' - page' * pageSize'
      BY <2>1, <3>1, StoreFacts, Products
    <3>3. \A id \in (FirstKept..newest)' : id > m => id \in read'
      BY <2>1, <2>3, <3>1, StoreFacts
    <3> QED
      BY <2>1, <2>4, <3>1, <3>2, <3>3 DEF ReaderInv
  <2> QED
    BY <2>1, <2>2, <2>4 DEF ReaderInv
<1>2. CASE AskForPage
  <2>1. PICK a, b \in Integer64 \cup {NotANumber} :
          page' = PageOf(a) /\ pageSize' = PageSizeOf(PageOf(a), b)
    BY <1>2 DEF AskForPage
  <2>2. page' \in 1..(HalfWord - 1) /\ pageSize' \in 1..(HalfWord - 1)
    BY <2>1, Requests
  <2>3. newest = 0 /\ UNCHANGED <<pager, inserted, keptRows, newest>> /\ read' = Page(page', pageSize')
    BY <1>2 DEF AskForPage
  <2>4. read' \subseteq Int
    BY <2>2, <2>3, PagesAreNumbers
  <2> QED
    BY <2>2, <2>3, <2>4 DEF PagingTypeOK, ReaderInv, InMemory
<1>3. CASE BeginReading
  <2>1. /\ page' = 1 /\ pageSize' \in 1..KeptResults /\ newest' = inserted /\ inserted > 0
        /\ read' = Page(1, pageSize') /\ UNCHANGED <<pager, inserted, keptRows>>
    BY <1>3 DEF BeginReading
  <2>2. PICK size : size = pageSize'
    OBVIOUS
  <2>3. /\ size \in 1..(HalfWord - 1) /\ 1 \in 1..(HalfWord - 1) /\ size <= KeptResults /\ size \in Int
        /\ 1 * size = size /\ (1 - 1) * size = 0
    <3>1. size \in 1..KeptResults
      BY <2>1, <2>2
    <3>2. size \in Int /\ 1 <= size /\ size <= KeptResults
      BY <1>0, <3>1
    <3> QED
      BY <1>0, <3>2
  <2>4. read' = {id \in FirstKept..inserted : inserted - size < id /\ id <= inserted - (size - size)}
    BY <1>0, <2>1, <2>2, <2>3, PageContents DEF Between
  <2>5. PagingTypeOK'
    BY <1>0, <2>1, <2>2, <2>3, <2>4, StoreFacts DEF PagingTypeOK, InMemory
  <2>6. FirstKept' = FirstKept
    BY <2>1 DEF FirstKept, FirstRow, FirstInMemory, InMemory
  <2>7. ReaderInv'
    <3> DEFINE m == inserted - size
    <3>1. m \in Int /\ m <= inserted' - page' * pageSize'
      BY <2>1, <2>2, <2>3, StoreFacts
    <3>2. \A r \in read' : r > m
      BY <2>4
    <3>3. \A id \in (FirstKept..newest)' : id > m => id \in read'
      BY <2>1, <2>3, <2>4, <2>6, StoreFacts
    <3>4. pageSize' <= KeptResults /\ (page' - 1) * pageSize' <= KeptResults + ResultSlack
      <4>1. (page' - 1) * pageSize' = (1 - 1) * size
        BY <2>1, <2>2
      <4>2. pageSize' <= KeptResults /\ 0 <= KeptResults + ResultSlack
        BY <1>0, <2>2, <2>3
      <4> QED
        BY <2>3, <4>1, <4>2
    <3> QED
      BY <3>1, <3>2, <3>3, <3>4 DEF ReaderInv
  <2> QED
    BY <2>5, <2>7
<1>4. CASE ReadNextPage
  <2>1. /\ newest # 0 /\ page * pageSize <= KeptResults + ResultSlack /\ page' = page + 1
        /\ read' = read \cup Page(page + 1, pageSize)
        /\ UNCHANGED <<pager, inserted, keptRows, newest, pageSize>>
    BY <1>4 DEF ReadNextPage
  <2> DEFINE x == page * pageSize
  <2>2. /\ x \in Nat /\ (page + 1) * pageSize = x + pageSize /\ page <= x /\ pageSize <= x
        /\ (page' - 1) * pageSize' = x /\ page' * pageSize' = x + pageSize
    <3>1. page \in Nat \ {0} /\ pageSize \in Nat \ {0} /\ page' = page + 1 /\ pageSize' = pageSize
      BY <2>1, StoreFacts
    <3>2. /\ x \in Nat /\ (page + 1) * pageSize = x + pageSize /\ page <= x /\ pageSize <= x
      BY <3>1, Products
    <3>3. page' - 1 = page
      BY <3>1
    <3> QED
      BY <3>1, <3>2, <3>3
  <2>3. x = page * pageSize
    OBVIOUS
  <2> HIDE DEF x
  <2>4. page + 1 \in 1..(HalfWord - 1) /\ (page + 1) * pageSize <= HalfWord
    BY <1>0, <2>1, <2>2, <2>3, StoreFacts DEF ReaderInv
  <2>5. Page(page + 1, pageSize) =
          {id \in FirstKept..inserted : inserted - (x + pageSize) < id /\ id <= inserted - (x + pageSize - pageSize)}
    BY <2>2, <2>4, PageContents DEF PagingTypeOK, Between
  <2>6. PagingTypeOK'
    <3>1. read' \subseteq Int
      BY <2>1, <2>4, PagesAreNumbers DEF PagingTypeOK
    <3>2. page' \in 1..(HalfWord - 1)
      BY <2>1, <2>4
    <3> QED
      BY <2>1, <3>1, <3>2 DEF PagingTypeOK, InMemory
  <2>7. FirstKept' = FirstKept
    BY <2>1 DEF FirstKept, FirstRow, FirstInMemory, InMemory
  <2>8. PICK m \in Int :
          /\ m <= inserted - x
          /\ \A r \in read : r > m
          /\ \A id \in FirstKept..newest : id > m => id \in read
    BY <2>1, <2>3 DEF ReaderInv
  <2> DEFINE below == IF m <= inserted - (x + pageSize) THEN m ELSE inserted - (x + pageSize)
  <2>9. below \in Int /\ below <= m /\ below <= inserted - (x + pageSize)
    BY <2>2, <2>8, StoreFacts
  <2>10. \A r \in read' : r > below
    BY <2>1, <2>2, <2>5, <2>8, StoreFacts DEF PagingTypeOK
  <2>11. \A id \in FirstKept..newest : id > below => id \in read'
    BY <2>1, <2>2, <2>5, <2>8, StoreFacts
  <2> HIDE DEF below
  <2>12. ReaderInv'
    BY <2>1, <2>2, <2>3, <2>7, <2>9, <2>10, <2>11, StoreFacts DEF ReaderInv
  <2> QED
    BY <2>6, <2>12
<1>5. CASE UNCHANGED pagingVars
  BY <1>5 DEF pagingVars, PagingTypeOK, ReaderInv, FirstKept, FirstRow, FirstInMemory, InMemory
<1> QED
  BY <1>1, <1>2, <1>3, <1>4, <1>5 DEF PagingNext

(* What it has read shows a reader what it has missed.                     *)
LEMMA NothingMissed == ASSUME PagingInv PROVE PagesMissNothing
<1> USE DEF PagingInv
<1> DEFINE x == page * pageSize
<1>1. LET indexes == Indexes(InMemory, page, pageSize) IN
        indexes[1] >= 0 /\ indexes[2] >= 0 => indexes[1] <= indexes[2] /\ indexes[2] <= InMemory
  <2>1. InMemory \in 0..(HalfWord - 1)
    BY StoreFacts
  <2> QED
    BY <2>1, SliceInOrder DEF PagingTypeOK
<1>2. page * pageSize < HalfWord =>
        MemoryPage(page, pageSize) = SQLPage(page, pageSize) \cap (FirstInMemory..inserted)
  <2>1. page * pageSize \in Nat
    BY StoreFacts, Products
  <2>2. ASSUME page * pageSize < HalfWord
        PROVE  MemoryPage(page, pageSize) = SQLPage(page, pageSize) \cap (FirstInMemory..inserted)
    <3>1. /\ page * pageSize <= HalfWord
          /\ page \in 1..(HalfWord - 1) /\ pageSize \in 1..(HalfWord - 1)
      BY <2>1, <2>2, StoreFacts DEF PagingTypeOK
    <3>2. /\ MemoryPage(page, pageSize) = Between(FirstInMemory, pageSize, page * pageSize)
          /\ SQLPage(page, pageSize) = Between(FirstRow, pageSize, page * pageSize)
      BY <3>1, PageContents
    <3> QED
      BY <3>2, StoreFacts DEF Between
  <2> QED
    BY <2>2
<1>3. CASE newest = 0
  BY <1>1, <1>2, <1>3, StoreFacts DEF PagesMissNothing
<1>4. CASE newest # 0
  <2>1. PICK m \in Int :
          /\ m <= inserted - x
          /\ \A r \in read : r > m
          /\ \A id \in FirstKept..newest : id > m => id \in read
    BY <1>4 DEF ReaderInv
  <2>2. {id \in FirstKept..newest : \E r \in read : r <= id} \subseteq read
    BY <2>1, StoreFacts DEF PagingTypeOK
  <2>3. ASSUME Page(page, pageSize) = {}, NEW id \in FirstKept..newest, id \notin read
        PROVE  FALSE
    <3>1. /\ x \in Nat /\ pageSize \in Nat \ {0} /\ pageSize <= x
          /\ (page - 1) * pageSize = x - pageSize
      BY StoreFacts, Products
    <3>2. x <= HalfWord
      BY <1>4, <3>1, StoreFacts DEF ReaderInv
    <3>3. Page(page, pageSize) = {i \in FirstKept..inserted : inserted - x < i /\ i <= inserted - (x - pageSize)}
      BY <3>2, PageContents DEF PagingTypeOK, Between
    <3> HIDE DEF x
    <3>4. id <= inserted - x
      BY <2>1, <2>3, <3>1, StoreFacts
    <3>5. inserted - x + 1 \in FirstKept..inserted
      BY <2>3, <3>1, <3>4, StoreFacts
    <3> QED
      BY <2>3, <3>1, <3>3, <3>5, StoreFacts
  <2> QED
    BY <1>1, <1>2, <2>2, <2>3 DEF PagesMissNothing
<1> QED
  BY <1>3, <1>4

(* memory/util.go:28-62, sql.go's LIMIT and OFFSET: whatever is asked for, *)
(* with integers that wrap around, and whatever is inserted meanwhile.     *)
THEOREM PagesAreComplete == PagingSpec => []PagesMissNothing
<1>1. PagingInit => PagingInv
  <2> SUFFICES ASSUME PagingInit PROVE PagingInv
    OBVIOUS
  <2> QED
    BY PagingAssumption DEF PagingInit, PagingInv, PagingTypeOK, ReaderInv, InMemory
<1>2. PagingInv /\ [PagingNext]_pagingVars => PagingInv'
  BY PagingStep
<1>3. PagingInv => PagesMissNothing
  BY NothingMissed
<1> QED
  BY <1>1, <1>2, <1>3, PTL DEF PagingSpec

-----------------------------------------------------------------------------
(* Uptime                                                                  *)

UptimeSpec == UptimeInit /\ [][UptimeNext]_uptimeVars

(* Every hour that counts is in one entry: its own, or after a merge that  *)
(* of its day.  None of the last two whole days has been merged.           *)
EntriesInv(es, hours) ==
  /\ DOMAIN es \subseteq Nat
  /\ \A h \in DOMAIN es : \A x \in es[h] : x \in hours /\ x >= h /\ DayStart(x) = DayStart(h)
  /\ \A h \in DOMAIN es : h >= DayStart(hour - Days(2)) \/ upStore = "memory" => es[h] = {h}
  /\ \A g, h \in DOMAIN es : \A x \in es[g] : x \in es[h] => g = h
  /\ \A x \in hours : DayStart(x) > DayStart(hour - Days(Retention)) => \E h \in DOMAIN es : x \in es[h]

UptimeInv ==
  /\ upStore \in {"memory", "sql"}
  /\ hour \in Nat /\ hour >= Origin
  /\ seen \subseteq 0..hour
  /\ EntriesInv(entries, seen)

(* A day begins at a multiple of its length.                               *)
LEMMA DayFacts ==
  ASSUME NEW h \in Nat
  PROVE  /\ HoursPerDay \in Nat \ {0}
         /\ DayStart(h) \in Nat /\ DayStart(h) <= h /\ h < DayStart(h) + HoursPerDay
         /\ \E q \in Nat : DayStart(h) = HoursPerDay * q
<1>1. HoursPerDay \in Nat \ {0} /\ h \in Int
  BY UptimeAssumption
<1>2. h % HoursPerDay \in 0..(HoursPerDay - 1) /\ \E q \in Int : h = HoursPerDay * q + (h % HoursPerDay)
  BY <1>1, Remainder
<1>3. PICK q \in Int : h = HoursPerDay * q + (h % HoursPerDay)
  BY <1>2
<1> DEFINE start == HoursPerDay * q
<1>4. start \in Int
  BY <1>1
<1>5. DayStart(h) = start
  <2> DEFINE r == h % HoursPerDay
  <2>1. DayStart(h) = h - r /\ h = start + r /\ r \in Int
    BY <1>2, <1>3 DEF DayStart
  <2> HIDE DEF r, start
  <2> QED
    BY <1>1, <1>4, <2>1
<1>6. q <= -1 => HoursPerDay * q <= -HoursPerDay
  BY <1>1
<1>7. q >= 0
  BY <1>1, <1>2, <1>3, <1>4, <1>6
<1>8. start \in Nat /\ start <= h /\ h < start + HoursPerDay
  BY <1>1, <1>2, <1>3, <1>4, <1>7
<1> QED
  BY <1>1, <1>5, <1>7, <1>8

(* Two days are a day apart or the same one.                               *)
LEMMA DaysApart ==
  ASSUME NEW g \in Nat, NEW h \in Nat
  PROVE  /\ g <= h => DayStart(g) <= DayStart(h)
         /\ DayStart(g) < DayStart(h) => DayStart(g) + HoursPerDay <= DayStart(h)
<1>1. /\ HoursPerDay \in Nat \ {0}
      /\ DayStart(g) \in Nat /\ DayStart(g) <= g /\ g < DayStart(g) + HoursPerDay
      /\ DayStart(h) \in Nat /\ DayStart(h) <= h /\ h < DayStart(h) + HoursPerDay
  BY DayFacts
<1>2. PICK p \in Nat : DayStart(g) = HoursPerDay * p
  BY DayFacts
<1>3. PICK q \in Nat : DayStart(h) = HoursPerDay * q
  BY DayFacts
<1>4. /\ p + 1 <= q => HoursPerDay * p + HoursPerDay <= HoursPerDay * q
      /\ q <= p => HoursPerDay * q <= HoursPerDay * p
      /\ q + 1 <= p => HoursPerDay * q + HoursPerDay <= HoursPerDay * p
  BY <1>1
<1>5. DayStart(g) < DayStart(h) => DayStart(g) + HoursPerDay <= DayStart(h)
  BY <1>1, <1>2, <1>3, <1>4
<1>6. DayStart(h) < DayStart(g) => DayStart(h) + HoursPerDay <= DayStart(g)
  BY <1>1, <1>2, <1>3, <1>4
<1> QED
  BY <1>1, <1>5, <1>6

(* A whole number of days ago, it was as late in the day.                  *)
LEMMA DaysAgo ==
  ASSUME NEW h \in Nat, NEW n \in Nat, Days(n) <= h
  PROVE  h - Days(n) \in Nat /\ Days(n) \in Nat /\ DayStart(h - Days(n)) = DayStart(h) - Days(n)
<1>1. /\ HoursPerDay \in Nat \ {0}
      /\ DayStart(h) \in Nat /\ DayStart(h) <= h /\ h < DayStart(h) + HoursPerDay
  BY DayFacts
<1>2. Days(n) \in Nat /\ Days(n) = HoursPerDay * n
  BY <1>1 DEF Days
<1> DEFINE g == h - Days(n)
<1>3. g \in Nat /\ g = h - Days(n)
  BY <1>2
<1> HIDE DEF g
<1>4. DayStart(g) \in Nat /\ DayStart(g) <= g /\ g < DayStart(g) + HoursPerDay
  BY <1>3, DayFacts
<1>5. PICK p \in Nat : DayStart(g) = HoursPerDay * p
  BY <1>3, DayFacts
<1>6. PICK q \in Nat : DayStart(h) = HoursPerDay * q
  BY DayFacts
<1> DEFINE k == p + n
<1>7. k \in Nat /\ HoursPerDay * k = HoursPerDay * p + HoursPerDay * n
  BY <1>1
<1> HIDE DEF k
<1>8. /\ k + 1 <= q => HoursPerDay * k + HoursPerDay <= HoursPerDay * q
      /\ q + 1 <= k => HoursPerDay * q + HoursPerDay <= HoursPerDay * k
      /\ k = q => HoursPerDay * k = HoursPerDay * q
      /\ HoursPerDay * k \in Int /\ HoursPerDay * q \in Int
  BY <1>1, <1>7
<1>9. HoursPerDay * k = DayStart(g) + Days(n)
  BY <1>2, <1>5, <1>7
<1>10. k = q
  BY <1>1, <1>2, <1>3, <1>4, <1>6, <1>7, <1>8, <1>9
<1>11. DayStart(g) = DayStart(h) - Days(n)
  BY <1>1, <1>2, <1>4, <1>6, <1>8, <1>9, <1>10
<1> QED
  BY <1>2, <1>3, <1>11


(* When it is now and what was how long ago.                               *)
LEMMA NowFacts ==
  ASSUME hour \in Nat, hour >= Origin
  PROVE  /\ HoursPerDay \in Nat \ {0} /\ Retention \in Nat /\ Retention >= 4
         /\ \A n \in 1..Retention :
              /\ Days(n) \in Nat /\ Days(n) <= Days(Retention) /\ HoursPerDay <= Days(n)
              /\ hour - Days(n) \in Nat /\ DayStart(hour - Days(n)) = DayStart(hour) - Days(n)
         /\ Days(1) = HoursPerDay /\ Days(2) = 2 * HoursPerDay /\ Days(2) + HoursPerDay <= Days(Retention)
<1>1. HoursPerDay \in Nat \ {0} /\ Retention \in Nat /\ Retention >= 4
  BY UptimeAssumption
<1>2. \A n \in Nat : Days(n) \in Nat /\ (n >= 1 => HoursPerDay <= Days(n))
  BY <1>1 DEF Days
<1>3. \A n, k \in Nat : n <= k => Days(n) <= Days(k)
  BY <1>1 DEF Days
<1>4. Days(1) = HoursPerDay /\ Days(2) = 2 * HoursPerDay /\ Days(3) = 3 * HoursPerDay
  BY <1>1 DEF Days
<1>5. Days(Retention) <= Days(Retention + 3) /\ Days(Retention + 3) \in Nat
  BY <1>1, <1>2, <1>3
<1>6. Days(Retention) <= hour
  BY <1>1, <1>2, <1>5 DEF Origin
<1>7. ASSUME NEW n \in 1..Retention
      PROVE  /\ Days(n) \in Nat /\ Days(n) <= Days(Retention) /\ HoursPerDay <= Days(n)
             /\ hour - Days(n) \in Nat /\ DayStart(hour - Days(n)) = DayStart(hour) - Days(n)
  <2>1. n \in Nat /\ n >= 1 /\ n <= Retention
    BY <1>1
  <2>2. Days(n) \in Nat /\ Days(n) <= Days(Retention) /\ HoursPerDay <= Days(n)
    BY <1>1, <1>2, <1>3, <2>1
  <2>3. Days(n) <= hour
    BY <1>1, <1>2, <1>6, <2>2
  <2> QED
    BY <2>1, <2>2, <2>3, DaysAgo
<1>8. Days(3) <= Days(Retention)
  BY <1>1, <1>3
<1> QED
  BY <1>1, <1>4, <1>7, <1>8

(* What decides over the hours, in terms of the day that it is.            *)
LEMMA Boundaries ==
  ASSUME hour \in Nat, hour >= Origin
  PROVE  /\ DayStart(hour) \in Nat /\ DayStart(hour) <= hour /\ hour < DayStart(hour) + HoursPerDay
         /\ DayStart(hour - Days(2)) = DayStart(hour) - 2 * HoursPerDay
         /\ DayStart(hour - Days(2)) \in Nat
         /\ DayStart(hour - Days(Retention)) = DayStart(hour) - Days(Retention)
         /\ DayStart(hour - Days(Retention)) \in Nat
         /\ hour - Days(Retention) \in Nat /\ Days(Retention) \in Nat
         /\ hour - Days(Retention) < DayStart(hour - Days(Retention)) + HoursPerDay
<1>1. 2 \in 1..Retention /\ Retention \in 1..Retention
  BY NowFacts
<1>2. hour - Days(2) \in Nat /\ hour - Days(Retention) \in Nat
  BY <1>1, NowFacts
<1>3. DayStart(hour - Days(2)) \in Nat /\ DayStart(hour - Days(Retention)) \in Nat
      /\ hour - Days(Retention) < DayStart(hour - Days(Retention)) + HoursPerDay
  BY <1>2, DayFacts
<1> QED
  BY <1>1, <1>2, <1>3, NowFacts, DayFacts

(* An hour gets an entry, or is added to its own.                          *)
LEMMA AddToKeeps ==
  ASSUME UptimeInv
  PROVE  EntriesInv(AddTo(entries, hour), seen \cup {hour})
<1> DEFINE es == AddTo(entries, hour)
           hours == seen \cup {hour}
<1> USE DEF UptimeInv
<1>0. hour \in Nat /\ hour >= Origin /\ EntriesInv(entries, seen) /\ seen \subseteq 0..hour
  OBVIOUS
<1>1. /\ DOMAIN es = DOMAIN entries \cup {hour}
      /\ \A h \in DOMAIN entries : h # hour => es[h] = entries[h]
      /\ hour \in DOMAIN entries => es[hour] = entries[hour] \cup {hour}
      /\ hour \notin DOMAIN entries => es[hour] = {hour}
  BY DEF AddTo
<1> HIDE DEF es, UptimeInv
<1>2. hour >= DayStart(hour - Days(2))
  BY <1>0, Boundaries, NowFacts
<1>3. es[hour] = {hour}
  BY <1>0, <1>1, <1>2 DEF EntriesInv
<1>4. DOMAIN es \subseteq Nat
  BY <1>0, <1>1 DEF EntriesInv
<1>5. \A h \in DOMAIN es : \A x \in es[h] : x \in hours /\ x >= h /\ DayStart(x) = DayStart(h)
  BY <1>0, <1>1, <1>3 DEF EntriesInv
<1>6. \A h \in DOMAIN es : h >= DayStart(hour - Days(2)) \/ upStore = "memory" => es[h] = {h}
  BY <1>0, <1>1, <1>3 DEF EntriesInv
<1>7. ASSUME NEW g \in DOMAIN entries, hour \in entries[g]
      PROVE  g = hour
  <2>1. g \in Nat /\ DayStart(hour) = DayStart(g)
    BY <1>0, <1>7 DEF EntriesInv
  <2>2. g >= DayStart(hour - Days(2))
    BY <1>0, <2>1, Boundaries, NowFacts, DayFacts
  <2>3. entries[g] = {g}
    BY <1>0, <2>2 DEF EntriesInv
  <2> QED
    BY <1>7, <2>3
<1>8. ASSUME NEW g \in DOMAIN es, NEW h \in DOMAIN es, NEW x \in es[g], x \in es[h]
      PROVE  g = h
  <2>1. CASE g # hour /\ h # hour
    BY <1>0, <1>1, <1>8, <2>1 DEF EntriesInv
  <2>2. CASE g = hour \/ h = hour
    BY <1>1, <1>3, <1>7, <1>8, <2>2
  <2> QED
    BY <2>1, <2>2
<1>9. ASSUME NEW x \in hours, DayStart(x) > DayStart(hour - Days(Retention))
      PROVE  \E h \in DOMAIN es : x \in es[h]
  <2>1. CASE x = hour
    BY <1>1, <1>3, <2>1
  <2>2. CASE x # hour
    <3>1. PICK h \in DOMAIN entries : x \in entries[h]
      BY <1>0, <1>9, <2>2 DEF EntriesInv
    <3>2. h # hour \/ x = hour
      BY <1>1, <1>3, <3>1
    <3> QED
      BY <1>1, <2>2, <3>1, <3>2
  <2> QED
    BY <2>1, <2>2
<1>10. EntriesInv(es, hours)
  BY <1>4, <1>5, <1>6, <1>8, <1>9 DEF EntriesInv
<1> QED
  BY <1>10 DEF es

(* Deletion spares the days that are asked for.                            *)
LEMMA WithoutOldKeeps ==
  ASSUME NEW es, NEW hours, hour \in Nat, hour >= Origin, hours \subseteq Nat, EntriesInv(es, hours)
  PROVE  EntriesInv(WithoutOld(es), hours)
<1> DEFINE rest == WithoutOld(es)
<1>1. /\ DOMAIN rest = {h \in DOMAIN es : h >= hour - Days(Retention)}
      /\ \A h \in DOMAIN rest : rest[h] = es[h]
  BY DEF WithoutOld, Kept
<1> HIDE DEF rest
<1>2. ASSUME NEW x \in hours, DayStart(x) > DayStart(hour - Days(Retention))
      PROVE  \E h \in DOMAIN rest : x \in rest[h]
  <2>1. PICK h \in DOMAIN es : x \in es[h]
    BY <1>2 DEF EntriesInv
  <2>2. h \in Nat /\ DayStart(x) = DayStart(h)
    BY <2>1 DEF EntriesInv
  <2>3. DayStart(h) >= DayStart(hour - Days(Retention)) + HoursPerDay
    BY <1>2, <2>2, Boundaries, DaysApart
  <2>4. h >= hour - Days(Retention)
    BY <2>2, <2>3, Boundaries, DayFacts
  <2> QED
    BY <1>1, <2>1, <2>4
<1>3. EntriesInv(rest, hours)
  BY <1>1, <1>2 DEF EntriesInv
<1> QED
  BY <1>3 DEF rest

(* A merge keeps every hour of those days, where it belongs.               *)
LEMMA MergedKeeps ==
  ASSUME NEW es, NEW hours, hour \in Nat, hour >= Origin, hours \subseteq Nat,
         EntriesInv(es, hours), upStore # "memory"
  PROVE  EntriesInv(Merged(es), hours)
<1> DEFINE min == DayStart(hour - Days(2))
           old == {h \in DOMAIN es : h < min /\ h > hour - Days(Retention)}
           days == {DayStart(h) : h \in old}
           recent == {h \in DOMAIN es : h >= min}
           merged == Merged(es)
<1>1. /\ DOMAIN merged = recent \cup days
      /\ \A x \in days : merged[x] = UNION {es[h] : h \in {o \in old : DayStart(o) = x}}
      /\ \A x \in recent \ days : merged[x] = es[x]
  BY DEF Merged
<1>2. min \in Nat /\ hour - Days(Retention) \in Nat
  BY Boundaries
<1>3. \A h \in DOMAIN es : h \in Nat
  BY DEF EntriesInv
<1> HIDE DEF min
<1>4. \A h \in old : h \in DOMAIN es /\ h < min
  OBVIOUS
<1>5. \A x \in days : x \in Nat /\ x < min /\ DayStart(x) = x /\ x \notin recent
  <2>1. ASSUME NEW h \in old
        PROVE  LET x == DayStart(h) IN x \in Nat /\ x < min /\ DayStart(x) = x
    <3>1. h \in Nat /\ h < min
      BY <1>3, <1>4
    <3>2. DayStart(h) \in Nat /\ DayStart(h) <= h /\ h < DayStart(h) + HoursPerDay
      BY <3>1, DayFacts
    <3>3. PICK x \in Nat : x = DayStart(h)
      BY <3>2
    <3>4. DayStart(x) \in Nat /\ DayStart(x) <= x /\ x < DayStart(x) + HoursPerDay /\ HoursPerDay \in Nat
      BY DayFacts
    <3>5. DayStart(x) = x
      BY <3>1, <3>2, <3>3, <3>4, DaysApart
    <3> QED
      BY <1>2, <3>1, <3>2, <3>3, <3>5
  <2>2. \A x \in days : x \in Nat /\ x < min /\ DayStart(x) = x
    BY <2>1
  <2> QED
    BY <1>2, <2>2
<1>6. \A x \in recent : x \in DOMAIN es /\ x >= min /\ merged[x] = es[x]
  BY <1>1, <1>5
<1>7. \A d \in days : \A x \in merged[d] : \E o \in old : x \in es[o] /\ DayStart(o) = d
  BY <1>1
<1>8. \A o \in old : DayStart(o) \in days /\ \A x \in es[o] : x \in merged[DayStart(o)]
  BY <1>1
<1> HIDE DEF merged, old, days, recent
<1>9. DOMAIN merged \subseteq Nat
  BY <1>1, <1>3, <1>5, <1>6
<1>10. \A h \in DOMAIN merged : \A x \in merged[h] : x \in hours /\ x >= h /\ DayStart(x) = DayStart(h)
  <2>1. ASSUME NEW d \in days, NEW x \in merged[d]
        PROVE  x \in hours /\ x >= d /\ DayStart(x) = DayStart(d)
    <3>1. PICK o \in old : x \in es[o] /\ DayStart(o) = d
      BY <1>7
    <3>2. o \in Nat /\ x \in hours /\ x >= o /\ DayStart(x) = DayStart(o)
      BY <1>3, <1>4, <3>1 DEF EntriesInv
    <3>3. DayStart(o) <= o /\ DayStart(o) \in Nat /\ x \in Nat
      BY <3>2, DayFacts
    <3> QED
      BY <1>5, <3>1, <3>2, <3>3
  <2>2. ASSUME NEW h \in recent, NEW x \in merged[h]
        PROVE  x \in hours /\ x >= h /\ DayStart(x) = DayStart(h)
    BY <1>6 DEF EntriesInv
  <2> QED
    BY <1>1, <2>1, <2>2
<1>11. \A h \in DOMAIN merged : h >= DayStart(hour - Days(2)) \/ upStore = "memory" => merged[h] = {h}
  <2>1. \A h \in recent : merged[h] = {h}
    BY <1>6 DEF EntriesInv, min
  <2>2. \A d \in days : ~(d >= DayStart(hour - Days(2)))
    BY <1>2, <1>5 DEF min
  <2> QED
    BY <1>1, <2>1, <2>2
<1>12. ASSUME NEW g \in DOMAIN merged, NEW h \in DOMAIN merged, NEW x \in merged[g], x \in merged[h]
       PROVE  g = h
  <2>1. CASE g \in recent /\ h \in recent
    BY <1>6, <1>12, <2>1 DEF EntriesInv
  <2>2. CASE g \in days /\ h \in days
    BY <1>5, <1>10, <1>12, <2>2
  <2>3. ASSUME NEW d \in days, NEW r \in recent, x \in merged[d], x \in merged[r]
        PROVE  FALSE
    <3>1. PICK o \in old : x \in es[o] /\ DayStart(o) = d
      BY <1>7, <2>3
    <3>2. o = r
      BY <1>4, <1>6, <2>3, <3>1 DEF EntriesInv
    <3> QED
      BY <1>2, <1>3, <1>4, <1>6, <3>2
  <2> QED
    BY <1>1, <1>12, <2>1, <2>2, <2>3
<1>13. ASSUME NEW x \in hours, DayStart(x) > DayStart(hour - Days(Retention))
       PROVE  \E h \in DOMAIN merged : x \in merged[h]
  <2>1. PICK h \in DOMAIN es : x \in es[h]
    BY <1>13 DEF EntriesInv
  <2>2. h \in Nat /\ DayStart(x) = DayStart(h)
    BY <2>1 DEF EntriesInv
  <2>3. DayStart(h) >= DayStart(hour - Days(Retention)) + HoursPerDay
    BY <1>13, <2>2, Boundaries, DaysApart
  <2>4. h > hour - Days(Retention)
    BY <2>2, <2>3, Boundaries, DayFacts
  <2>5. h \in old \/ h \in recent
    BY <1>2, <2>1, <2>2, <2>4 DEF old, recent
  <2> QED
    BY <1>1, <1>6, <1>8, <2>1, <2>5
<1>14. EntriesInv(merged, hours)
  BY <1>9, <1>10, <1>11, <1>12, <1>13 DEF EntriesInv
<1> QED
  BY <1>14 DEF merged

(* Results come and time goes by.                                          *)
LEMMA UptimeStep ==
  ASSUME UptimeInv, [UptimeNext]_uptimeVars
  PROVE  UptimeInv'
<1>0. /\ upStore \in {"memory", "sql"} /\ hour \in Nat /\ hour >= Origin
      /\ seen \subseteq 0..hour /\ EntriesInv(entries, seen)
  BY DEF UptimeInv
<1>1. CASE InsertResult
  <2>1. /\ seen' = seen \cup {hour} /\ upStore' = upStore /\ hour' = hour
        /\ entries' = (IF upStore = "sql" THEN DeleteIfOld(MergeIfMany(AddTo(entries, hour)))
                       ELSE DeleteIfMany(AddTo(entries, hour)))
    BY <1>1 DEF InsertResult
  <2> DEFINE added == AddTo(entries, hour)
             hours == seen \cup {hour}
  <2>2. EntriesInv(added, hours)
    BY AddToKeeps
  <2>3. hours \subseteq Nat /\ hours \subseteq 0..hour
    BY <1>0
  <2> HIDE DEF added, hours
  <2>4. CASE upStore = "sql"
    <3>1. EntriesInv(MergeIfMany(added), hours)
      BY <1>0, <2>2, <2>3, <2>4, MergedKeeps DEF MergeIfMany
    <3> DEFINE many == MergeIfMany(added)
    <3>2. EntriesInv(many, hours)
      BY <3>1
    <3> HIDE DEF many
    <3>3. EntriesInv(DeleteIfOld(many), hours)
      BY <1>0, <2>3, <3>2, WithoutOldKeeps DEF DeleteIfOld
    <3>4. entries' = DeleteIfOld(many)
      BY <2>1, <2>4 DEF many, added
    <3>5. EntriesInv(entries', hours)
      BY <3>3, <3>4
    <3> QED
      BY <1>0, <2>1, <2>3, <3>5 DEF UptimeInv, EntriesInv, hours
  <2>5. CASE upStore # "sql"
    <3>1. EntriesInv(DeleteIfMany(added), hours)
      BY <1>0, <2>2, <2>3, WithoutOldKeeps DEF DeleteIfMany
    <3>2. entries' = DeleteIfMany(added)
      BY <2>1, <2>5 DEF added
    <3>3. EntriesInv(entries', hours)
      BY <3>1, <3>2
    <3> QED
      BY <1>0, <2>1, <2>3, <3>3 DEF UptimeInv, EntriesInv, hours
  <2> QED
    BY <2>4, <2>5
<1>2. CASE HourPasses
  <2>1. hour' = hour + 1 /\ UNCHANGED <<upStore, entries, seen>>
    BY <1>2 DEF HourPasses
  <2> DEFINE next == hour + 1
  <2>2. next \in Nat /\ next >= Origin /\ next = hour + 1 /\ hour' = next /\ Origin \in Int
    BY <1>0, <2>1, UptimeAssumption DEF Origin, Days
  <2>3. \A n \in {2, Retention} : hour - Days(n) \in Nat /\ Days(n) \in Nat
    BY <1>0, NowFacts
  <2> HIDE DEF next
  <2>4. \A n \in {2, Retention} : next - Days(n) \in Nat /\ DayStart(hour - Days(n)) <= DayStart(next - Days(n))
    BY <1>0, <2>2, <2>3, DaysApart
  <2>5. \A n \in {2, Retention} : DayStart(hour - Days(n)) \in Nat /\ DayStart(next - Days(n)) \in Nat
    BY <2>3, <2>4, DayFacts
  <2>6. DayStart(hour - Days(2)) <= DayStart(hour' - Days(2))
        /\ DayStart(hour - Days(Retention)) <= DayStart(hour' - Days(Retention))
    BY <2>2, <2>4
  <2>7. \A h \in Nat : h >= DayStart(hour' - Days(2)) => h >= DayStart(hour - Days(2))
    BY <2>2, <2>4, <2>5
  <2>8. \A x \in Nat : DayStart(x) > DayStart(hour' - Days(Retention)) => DayStart(x) > DayStart(hour - Days(Retention))
    BY <2>2, <2>4, <2>5, DayFacts
  <2>9. \A h \in DOMAIN entries : h \in Nat
    BY <1>0 DEF EntriesInv
  <2>10. \A x \in seen : x \in Nat
    BY <1>0
  <2>11. EntriesInv(entries, seen)'
    <3>1. DOMAIN entries' \subseteq Nat
      BY <2>1, <2>9
    <3>2. \A h \in DOMAIN entries' : h >= DayStart(hour' - Days(2)) \/ upStore' = "memory" => entries'[h] = {h}
      BY <1>0, <2>1, <2>7, <2>9 DEF EntriesInv
    <3>3. \A x \in seen' : DayStart(x) > DayStart(hour' - Days(Retention)) => \E h \in DOMAIN entries' : x \in entries'[h]
      BY <1>0, <2>1, <2>8, <2>10 DEF EntriesInv
    <3> QED
      BY <1>0, <2>1, <3>1, <3>2, <3>3 DEF EntriesInv, DayStart, Days
  <2>12. seen' \subseteq 0..hour'
    BY <1>0, <2>1
  <2> QED
    BY <1>0, <2>1, <2>2, <2>11, <2>12 DEF UptimeInv
<1>3. CASE UNCHANGED uptimeVars
  BY <1>0, <1>3 DEF uptimeVars, UptimeInv, EntriesInv, DayStart, Days
<1> QED
  BY <1>1, <1>2, <1>3 DEF UptimeNext

(* What the entries say of the days that are asked for.                    *)
LEMMA NothingForgotten == ASSUME UptimeInv PROVE UptimeSurvivesMerges
<1>0. /\ upStore \in {"memory", "sql"} /\ hour \in Nat /\ hour >= Origin
      /\ seen \subseteq 0..hour /\ EntriesInv(entries, seen)
  BY DEF UptimeInv
<1>1. /\ \A h \in DOMAIN entries : h \in Nat
      /\ \A x \in seen : x \in Nat /\ x <= hour
  BY <1>0 DEF EntriesInv
<1>2. ASSUME NEW n \in 1..Retention
      PROVE  /\ Days(n) \in Nat /\ HoursPerDay <= Days(n) /\ hour - Days(n) \in Nat
             /\ \A h : h \in Window(n) => h \in Nat /\ h >= hour - Days(n) /\ h <= hour
             /\ \A h \in Nat : h >= hour - Days(n) + 1 /\ h <= hour => h \in Window(n)
             /\ \A g, h \in Nat : g \in Window(n) /\ g <= h /\ h <= hour => h \in Window(n)
  <2>1. Days(n) \in Nat /\ HoursPerDay <= Days(n) /\ hour - Days(n) \in Nat
    BY <1>0, NowFacts
  <2> QED
    BY <1>0, <2>1 DEF Window
<1>3. ASSUME NEW h \in DOMAIN entries, NEW x \in entries[h]
      PROVE  x \in seen /\ x \in Nat /\ h \in Nat /\ h <= x /\ x <= hour /\ DayStart(x) = DayStart(h)
  BY <1>0, <1>1 DEF EntriesInv
<1>4. ASSUME NEW n \in 1..Retention
      PROVE  Counted(n) \subseteq seen \cap Window(n)
  <2>1. ASSUME NEW h \in DOMAIN entries, h \in Window(n), NEW x \in entries[h]
        PROVE  x \in seen \cap Window(n)
    BY <1>2, <1>3, <2>1
  <2> QED
    BY <2>1 DEF Counted
<1>5. ASSUME NEW n \in 1..Retention, NEW x \in seen, DayStart(x) > DayStart(hour - Days(n))
      PROVE  \E h \in DOMAIN entries : x \in entries[h] /\ h \in Window(n)
  <2>1. /\ hour - Days(n) \in Nat /\ hour - Days(Retention) \in Nat
        /\ hour - Days(Retention) <= hour - Days(n)
    <3>1. Retention \in 1..Retention /\ Days(n) <= Days(Retention) /\ Days(n) \in Nat
      BY <1>0, NowFacts
    <3> QED
      BY <1>0, <1>2, <3>1, Boundaries
  <2>2. /\ DayStart(hour - Days(Retention)) <= DayStart(hour - Days(n))
        /\ DayStart(hour - Days(Retention)) \in Nat /\ DayStart(hour - Days(n)) \in Nat
        /\ hour - Days(n) < DayStart(hour - Days(n)) + HoursPerDay
    BY <2>1, DaysApart, DayFacts
  <2>3. DayStart(x) \in Nat /\ DayStart(x) >= DayStart(hour - Days(n)) + HoursPerDay
    BY <1>1, <1>5, <2>1, DaysApart, DayFacts
  <2>4. PICK h \in DOMAIN entries : x \in entries[h]
    <3>1. DayStart(x) > DayStart(hour - Days(Retention))
      BY <2>2, <2>3, <1>5
    <3> QED
      BY <1>0, <3>1 DEF EntriesInv
  <2>5. h \in Nat /\ h <= hour /\ DayStart(h) = DayStart(x) /\ DayStart(h) <= h
    BY <1>0, <1>3, <2>4, DayFacts
  <2>6. h >= hour - Days(n) + 1
    BY <2>1, <2>2, <2>3, <2>5, NowFacts, <1>0
  <2> QED
    BY <1>2, <2>4, <2>5, <2>6
<1>6. ASSUME NEW x \in seen, x \in Window(1)
      PROVE  x \in Counted(1)
  <2>1. 1 \in 1..Retention /\ Days(1) = HoursPerDay /\ HoursPerDay \in Nat \ {0}
    BY <1>0, NowFacts
  <2>2. x \in Nat /\ x >= hour - HoursPerDay /\ x <= hour
    BY <1>2, <1>6, <2>1
  <2>3. DayStart(x) >= DayStart(hour - Days(2)) + HoursPerDay
    <3>1. hour - HoursPerDay \in Nat /\ DayStart(hour - HoursPerDay) = DayStart(hour) - HoursPerDay
      BY <1>0, <2>1, NowFacts
    <3>2. DayStart(hour - HoursPerDay) <= DayStart(x)
      BY <2>2, <3>1, DaysApart
    <3> QED
      BY <1>0, <2>1, <2>2, <3>1, <3>2, Boundaries, DayFacts
  <2>4. DayStart(x) > DayStart(hour - Days(Retention)) /\ DayStart(x) \in Nat
    BY <1>0, <2>2, <2>3, Boundaries, NowFacts, DayFacts
  <2>5. PICK h \in DOMAIN entries : x \in entries[h]
    BY <1>0, <1>6, <2>4 DEF EntriesInv
  <2>6. h \in Nat /\ DayStart(h) = DayStart(x) /\ DayStart(h) <= h
    BY <1>3, <2>5, DayFacts
  <2>7. h >= DayStart(hour - Days(2))
    BY <1>0, <2>1, <2>3, <2>4, <2>6, Boundaries
  <2>8. x = h
    BY <1>0, <2>5, <2>7 DEF EntriesInv
  <2> QED
    BY <1>6, <2>5, <2>8 DEF Counted
<1>7. Counted(1) = seen \cap Window(1)
  <2>1. 1 \in 1..Retention
    BY <1>0, NowFacts
  <2>2. Counted(1) \subseteq seen \cap Window(1)
    BY <1>4, <2>1
  <2>3. seen \cap Window(1) \subseteq Counted(1)
    BY <1>6
  <2> QED
    BY <2>2, <2>3
<1>8. ASSUME NEW n \in 1..Retention
      PROVE  {h \in seen : DayStart(h) > DayStart(hour - Days(n))} \subseteq Counted(n)
  BY <1>5 DEF Counted
<1>9. ASSUME NEW g \in DOMAIN entries, NEW h \in DOMAIN entries, g # h
      PROVE  entries[g] \cap entries[h] = {}
  BY <1>0, <1>9 DEF EntriesInv
<1> QED
  BY <1>4, <1>7, <1>8, <1>9 DEF UptimeSurvivesMerges

(* sql.go:1065-1142: hours are counted once, where they belong, *)
(* however long days are and however many of them are kept.                *)
THEOREM HoursAreCountedOnce == UptimeSpec => []UptimeSurvivesMerges
<1>1. UptimeInit => UptimeInv
  <2> SUFFICES ASSUME UptimeInit PROVE UptimeInv
    OBVIOUS
  <2>1. Origin \in Nat /\ HoursPerDay \in Nat
    BY UptimeAssumption DEF Origin, Days
  <2>2. hour \in Nat /\ hour >= Origin
    BY <2>1 DEF UptimeInit
  <2>3. EntriesInv(entries, seen)
    BY DEF UptimeInit, EntriesInv
  <2> QED
    BY <2>2, <2>3 DEF UptimeInit, UptimeInv
<1>2. UptimeInv /\ [UptimeNext]_uptimeVars => UptimeInv'
  BY UptimeStep
<1>3. UptimeInv => UptimeSurvivesMerges
  BY NothingForgotten
<1> QED
  BY <1>1, <1>2, <1>3, PTL DEF UptimeSpec

-----------------------------------------------------------------------------
(* Maintenance windows                                                     *)

MaintenanceSpec == MaintenanceInit /\ [][MaintenanceNext]_maintenanceVars

MaintenanceInv ==
  /\ AwayFromMidnight /\ window \in MaintenanceConfigs /\ moved \in -1..1 /\ slot \in Int
  /\ \E d \in 1..LastDay : Midnight(d) <= slot /\ slot < Midnight(d + 1)

DayLength == Hours(HoursOfDay)
Moved == Hours(moved)

(* The lengths that matter.                                                *)
LEMMA LengthFacts ==
  ASSUME AwayFromMidnight, moved \in -1..1
  PROVE  /\ Hours(1) = SlotsPerHour /\ SlotsPerHour \in Nat \ {0}
         /\ DayLength \in Nat \ {0} /\ SlotsPerHour < DayLength
         /\ Hours(ChangeHour) \in Nat
         /\ SlotsPerHour <= Hours(ChangeHour) /\ Hours(ChangeHour) + 2 * SlotsPerHour <= DayLength
         /\ Moved \in {-SlotsPerHour, 0, SlotsPerHour} /\ Moved \in Int
         /\ moved = 0 <=> Moved = 0
         /\ LastDay \in Nat /\ LastDay >= 1
<1>1. /\ SlotsPerHour \in Nat \ {0} /\ HoursOfDay \in Nat \ {0} /\ ChangeHour \in Nat
      /\ 1 <= ChangeHour /\ ChangeHour + 2 <= HoursOfDay /\ LastDay \in Nat /\ LastDay >= 1
  BY ClockAssumption DEF AwayFromMidnight
<1>2. /\ ChangeHour * SlotsPerHour \in Nat /\ HoursOfDay * SlotsPerHour \in Nat
      /\ SlotsPerHour <= ChangeHour * SlotsPerHour
      /\ (ChangeHour + 2) * SlotsPerHour <= HoursOfDay * SlotsPerHour
      /\ (ChangeHour + 2) * SlotsPerHour = ChangeHour * SlotsPerHour + 2 * SlotsPerHour
  BY <1>1
<1>3. moved = -1 \/ moved = 0 \/ moved = 1
  OBVIOUS
<1>4. /\ 1 * SlotsPerHour = SlotsPerHour /\ 0 * SlotsPerHour = 0 /\ (-1) * SlotsPerHour = -SlotsPerHour
  BY <1>1
<1>5. Moved \in {-SlotsPerHour, 0, SlotsPerHour} /\ (moved = 0 <=> Moved = 0)
  BY <1>1, <1>3, <1>4 DEF Moved, Hours
<1> QED
  BY <1>1, <1>2, <1>4, <1>5 DEF DayLength, Hours

(* When days begin.                                                        *)
LEMMA MidnightFacts ==
  ASSUME AwayFromMidnight, moved \in -1..1, NEW d \in Nat
  PROVE  /\ Midnight(d) = d * DayLength + (IF d > ChangeDay THEN Moved ELSE 0)
         /\ d * DayLength \in Nat /\ Midnight(d) \in Int
<1>1. /\ SlotsPerHour \in Nat /\ HoursOfDay \in Nat /\ moved \in Int
  BY ClockAssumption
<1>2. (d * HoursOfDay + moved) * SlotsPerHour = d * (HoursOfDay * SlotsPerHour) + moved * SlotsPerHour
  BY <1>1
<1>3. (d * HoursOfDay + 0) * SlotsPerHour = d * (HoursOfDay * SlotsPerHour)
  BY <1>1
<1>4. HoursOfDay * SlotsPerHour \in Nat /\ d * (HoursOfDay * SlotsPerHour) \in Nat /\ moved * SlotsPerHour \in Int
  BY <1>1
<1>5. CASE d > ChangeDay
  BY <1>2, <1>4, <1>5 DEF Midnight, DayLength, Moved, Hours
<1>6. CASE ~(d > ChangeDay)
  BY <1>3, <1>4, <1>6 DEF Midnight, DayLength, Moved, Hours
<1> QED
  BY <1>5, <1>6

(* One after the other, the day of the change an hour later or earlier.    *)
LEMMA DaysInOrder ==
  ASSUME AwayFromMidnight, moved \in -1..1, NEW d \in Nat
  PROVE  /\ Midnight(d) \in Int /\ Midnight(d + 1) \in Int
         /\ Midnight(d + 1) = Midnight(d) + DayLength + (IF d = ChangeDay THEN Moved ELSE 0)
         /\ Midnight(d) < Midnight(d + 1)
         /\ \A e \in Nat : d < e => Midnight(d + 1) <= Midnight(e)
<1>1. /\ SlotsPerHour \in Nat \ {0} /\ DayLength \in Nat \ {0} /\ SlotsPerHour < DayLength
      /\ Moved \in {-SlotsPerHour, 0, SlotsPerHour} /\ Moved \in Int
  BY LengthFacts
<1>2. d + 1 \in Nat /\ ChangeDay = 2
  BY DEF ChangeDay
<1>3. /\ Midnight(d) = d * DayLength + (IF d > ChangeDay THEN Moved ELSE 0)
      /\ d * DayLength \in Nat /\ Midnight(d) \in Int
  BY MidnightFacts
<1>4. /\ Midnight(d + 1) = (d + 1) * DayLength + (IF d + 1 > ChangeDay THEN Moved ELSE 0)
      /\ (d + 1) * DayLength \in Nat /\ Midnight(d + 1) \in Int
  BY <1>2, MidnightFacts
<1>5. (d + 1) * DayLength = d * DayLength + DayLength
  BY <1>1
<1>6. Midnight(d + 1) = Midnight(d) + DayLength + (IF d = ChangeDay THEN Moved ELSE 0)
  BY <1>1, <1>2, <1>3, <1>4, <1>5
<1>7. Midnight(d) < Midnight(d + 1)
  BY <1>1, <1>3, <1>6
<1>8. ASSUME NEW e \in Nat, d < e
      PROVE  Midnight(d + 1) <= Midnight(e)
  <2>1. CASE e = d + 1
    BY <1>4, <2>1
  <2>2. CASE e # d + 1
    <3>1. d + 2 <= e
      BY <1>8, <2>2
    <3>2. (d + 2) * DayLength <= e * DayLength /\ (d + 2) * DayLength = (d + 1) * DayLength + DayLength
      BY <1>1, <3>1
    <3>3. /\ Midnight(e) = e * DayLength + (IF e > ChangeDay THEN Moved ELSE 0)
          /\ e * DayLength \in Nat /\ Midnight(e) \in Int
      BY MidnightFacts
    <3>4. /\ Midnight(e) >= e * DayLength - SlotsPerHour
          /\ Midnight(d + 1) <= (d + 1) * DayLength + (IF d + 1 > ChangeDay THEN Moved ELSE 0)
          /\ e * DayLength >= (d + 1) * DayLength + DayLength
      BY <1>1, <1>4, <3>2, <3>3
    <3>5. CASE d + 1 > ChangeDay
      BY <1>1, <1>2, <1>4, <3>1, <3>3, <3>4, <3>5
    <3>6. CASE ~(d + 1 > ChangeDay)
      BY <1>1, <1>2, <1>4, <3>3, <3>4, <3>6
    <3> QED
      BY <3>5, <3>6
  <2> QED
    BY <2>1, <2>2
<1> QED
  BY <1>3, <1>4, <1>6, <1>7, <1>8

(* Every instant is in one day.                                            *)
LEMMA DayFound ==
  ASSUME AwayFromMidnight, moved \in -1..1, NEW t \in Int, NEW d \in 0..LastDay, Midnight(d) <= t, t < Midnight(d + 1)
  PROVE  DayOf(t) = d
<1>1. LastDay \in Nat /\ d \in Nat
  BY LengthFacts
<1>2. ASSUME NEW e \in 0..LastDay, Midnight(e) <= t, t < Midnight(e + 1)
      PROVE  e = d
  <2>1. e \in Nat
    BY <1>1
  <2>2. /\ Midnight(d) \in Int /\ Midnight(d + 1) \in Int /\ Midnight(e) \in Int /\ Midnight(e + 1) \in Int
        /\ d < e => Midnight(d + 1) <= Midnight(e)
        /\ e < d => Midnight(e + 1) <= Midnight(d)
    BY <1>1, <2>1, DaysInOrder
  <2> QED
    BY <1>1, <1>2, <2>1, <2>2
<1> QED
  BY <1>2 DEF DayOf

(* What the clock shows, with a jump on the day of the change.             *)
LEMMA ClockFacts ==
  ASSUME AwayFromMidnight, moved \in -1..1, NEW t \in Int, NEW d \in 0..LastDay, Midnight(d) <= t, t < Midnight(d + 1)
  PROVE  /\ WallClock(t) = IF d = ChangeDay /\ t - Midnight(d) >= Hours(ChangeHour)
                           THEN t - Midnight(d) - Moved ELSE t - Midnight(d)
         /\ WallClock(t) \in Nat
<1>1. DayOf(t) = d
  BY DayFound
<1>2. WallClock(t) = IF d = ChangeDay /\ t - Midnight(d) >= Hours(ChangeHour)
                     THEN t - Midnight(d) - Moved ELSE t - Midnight(d)
  BY <1>1 DEF WallClock, Moved
<1>3. d \in Nat /\ Midnight(d) \in Int
  BY LengthFacts, DaysInOrder
<1> QED
  BY <1>2, <1>3, LengthFacts

(* The first instant of a day at which the clock shows as much.            *)
LEMMA BeginsAt ==
  ASSUME AwayFromMidnight, moved \in -1..1, window \in MaintenanceConfigs,
         NEW d \in 0..LastDay, NEW f \in Midnight(d)..(Midnight(d + 1) - 1),
         WallClock(f) >= window.start,
         \A s \in Midnight(d)..(f - 1) : WallClock(s) < window.start
  PROVE  Begins(d) = f
<1>1. Midnight(d) \in Int /\ Midnight(d + 1) \in Int /\ f \in Int
  <2>1. d \in Nat
    BY LengthFacts
  <2> QED
    BY <2>1, DaysInOrder
<1> DEFINE First(t) == /\ t \in Midnight(d)..(Midnight(d + 1) - 1)
                       /\ WallClock(t) >= window.start
                       /\ \A s \in Midnight(d)..(t - 1) : WallClock(s) < window.start
<1>2. First(f)
  OBVIOUS
<1>3. ASSUME NEW t, First(t)
      PROVE  t = f
  <2>1. t \in Int /\ t \in Midnight(d)..(Midnight(d + 1) - 1)
    BY <1>1, <1>3
  <2>2. t < f => t \in Midnight(d)..(f - 1)
    BY <1>1, <2>1
  <2>3. f < t => f \in Midnight(d)..(t - 1)
    BY <1>1, <2>1
  <2>4. /\ ~(WallClock(t) < window.start /\ WallClock(t) >= window.start)
        /\ ~(WallClock(f) < window.start /\ WallClock(f) >= window.start)
    <3>1. window.start \in Int
      BY LengthFacts DEF MaintenanceConfigs, DayLength
    <3>2. Midnight(d) <= t /\ t < Midnight(d + 1) /\ Midnight(d) <= f /\ f < Midnight(d + 1)
      BY <1>1, <2>1
    <3>3. WallClock(t) \in Nat /\ WallClock(f) \in Nat
      BY <1>1, <2>1, <3>2, ClockFacts
    <3> QED
      BY <3>1, <3>3
  <2> QED
    BY <1>1, <1>3, <2>1, <2>2, <2>3, <2>4
<1>4. Begins(d) = CHOOSE t : First(t)
  BY DEF Begins
<1> HIDE DEF First
<1> QED
  BY <1>2, <1>3, <1>4

(* A window begins at its start, give or take the hour of a change.        *)
LEMMA BeginsOnTime ==
  ASSUME AwayFromMidnight, moved \in -1..1, window \in MaintenanceConfigs, NEW d \in 0..LastDay
  PROVE  /\ Begins(d) \in Int /\ Midnight(d) <= Begins(d) /\ Begins(d) < Midnight(d + 1)
         /\ d # ChangeDay \/ moved = 0 => Begins(d) = Midnight(d) + window.start
         /\ Midnight(d) + window.start - SlotsPerHour <= Begins(d)
         /\ Begins(d) <= Midnight(d) + window.start + SlotsPerHour
<1> DEFINE start == window.start
           S == SlotsPerHour
           C == Hours(ChangeHour)
           M == Midnight(d)
           N == Midnight(d + 1)
<1>1. /\ S \in Nat \ {0} /\ C \in Nat /\ DayLength \in Nat /\ S <= C /\ C + 2 * S <= DayLength
      /\ Moved \in {-S, 0, S} /\ (moved = 0 <=> Moved = 0)
  BY LengthFacts
<1>2. start \in Nat /\ start < DayLength
  BY <1>1 DEF MaintenanceConfigs, DayLength
<1>3. d \in Nat /\ M \in Int /\ N \in Int /\ N = M + DayLength + (IF d = ChangeDay THEN Moved ELSE 0)
  BY LengthFacts, DaysInOrder
<1>4. \A t \in M..(N - 1) : /\ t \in Int
                            /\ WallClock(t) = IF d = ChangeDay /\ t - M >= C THEN t - M - Moved ELSE t - M
  BY <1>3, ClockFacts
<1>5. ASSUME NEW f \in M..(N - 1), WallClock(f) >= start, \A s \in M..(f - 1) : WallClock(s) < start
      PROVE  Begins(d) = f
  BY <1>5, BeginsAt
<1> HIDE DEF start, S, C, M, N
<1>6. CASE d # ChangeDay \/ Moved = 0 \/ start < C
  <2> DEFINE f == M + start
  <2>1. f \in Int /\ f = M + start
    BY <1>2, <1>3
  <2>2. f \in M..(N - 1)
    BY <1>1, <1>2, <1>3, <1>6, <2>1
  <2>3. WallClock(f) = start
    BY <1>1, <1>2, <1>3, <1>4, <1>6, <2>1, <2>2
  <2>4. \A s \in M..(f - 1) : WallClock(s) < start
    BY <1>1, <1>2, <1>3, <1>4, <1>6, <2>1, <2>2
  <2> HIDE DEF f
  <2>5. Begins(d) = f
    BY <1>2, <1>5, <2>2, <2>3, <2>4
  <2> QED
    BY <1>1, <1>2, <1>3, <2>1, <2>2, <2>5 DEF start, S, M, N
<1>7. CASE d = ChangeDay /\ Moved = S /\ start >= C
  <2> DEFINE f == M + start + S
  <2>1. f \in Int /\ f = M + start + S
    BY <1>1, <1>2, <1>3
  <2>2. f \in M..(N - 1)
    BY <1>1, <1>2, <1>3, <1>7, <2>1
  <2>3. WallClock(f) = start
    BY <1>1, <1>2, <1>3, <1>4, <1>7, <2>1, <2>2
  <2>4. \A s \in M..(f - 1) : WallClock(s) < start
    BY <1>1, <1>2, <1>3, <1>4, <1>7, <2>1, <2>2
  <2> HIDE DEF f
  <2>5. Begins(d) = f
    BY <1>2, <1>5, <2>2, <2>3, <2>4
  <2> QED
    BY <1>1, <1>2, <1>3, <1>7, <2>1, <2>2, <2>5 DEF start, S, M, N
<1>8. CASE d = ChangeDay /\ Moved = -S /\ start >= C
  <2> DEFINE f == IF start < C + S THEN M + C ELSE M + start - S
  <2>1. f \in Int /\ f >= M + C /\ f >= M + start - S /\ f <= M + start
        /\ (f = M + C \/ f = M + start - S)
    BY <1>1, <1>2, <1>3, <1>8
  <2>2. f \in M..(N - 1)
    BY <1>1, <1>2, <1>3, <1>8
  <2>3. WallClock(f) >= start
    BY <1>1, <1>2, <1>3, <1>4, <1>8, <2>1, <2>2
  <2>4. \A s \in M..(f - 1) : WallClock(s) < start
    BY <1>1, <1>2, <1>3, <1>4, <1>8, <2>1, <2>2
  <2> HIDE DEF f
  <2>5. Begins(d) = f
    BY <1>2, <1>5, <2>2, <2>3, <2>4
  <2> QED
    BY <1>1, <1>2, <1>3, <1>8, <2>1, <2>2, <2>5 DEF start, S, M, N
<1> QED
  BY <1>1, <1>2, <1>6, <1>7, <1>8

(* What is not later is not in a later hour.                               *)
LEMMA HoursInOrder ==
  ASSUME NEW a \in Nat, NEW b \in Nat
  PROVE  /\ a >= b => ~(a \div SlotsPerHour < b \div SlotsPerHour)
         /\ a < b /\ a \div SlotsPerHour # b \div SlotsPerHour => a \div SlotsPerHour < b \div SlotsPerHour
<1> DEFINE p == a \div SlotsPerHour
           q == b \div SlotsPerHour
           r == a % SlotsPerHour
           s == b % SlotsPerHour
<1>1. SlotsPerHour \in Nat \ {0}
  BY ClockAssumption
<1>2. /\ p \in Int /\ q \in Int /\ r \in Int /\ s \in Int
      /\ 0 <= r /\ r < SlotsPerHour /\ 0 <= s /\ s < SlotsPerHour
  BY <1>1
<1>3. a = SlotsPerHour * p + r /\ b = SlotsPerHour * q + s
  BY <1>1
<1> HIDE DEF p, q, r, s
<1>4. /\ SlotsPerHour * p \in Int /\ SlotsPerHour * q \in Int
      /\ p + 1 <= q => SlotsPerHour * p + SlotsPerHour <= SlotsPerHour * q
      /\ q + 1 <= p => SlotsPerHour * q + SlotsPerHour <= SlotsPerHour * p
  BY <1>1, <1>2
<1>5. /\ p < q => a < b
      /\ q < p => b < a
  BY <1>1, <1>2, <1>3, <1>4
<1>6. /\ a >= b => ~(p < q)
      /\ a < b /\ p # q => p < q
  BY <1>2, <1>5
<1> QED
  BY <1>6 DEF p, q

(* The code's arithmetic against what the owner reads.                     *)
LEMMA InTheWindow == ASSUME MaintenanceInv PROVE MaintenanceAsScheduled
<1>0. SUFFICES ASSUME Validated
      PROVE  /\ IsUnderMaintenance => Scheduled(IF ClockMoved THEN Hours(1) ELSE 0)
             /\ ~ClockMoved /\ ~StartingHour /\ Scheduled(0) => IsUnderMaintenance
  BY DEF MaintenanceAsScheduled
<1>1. AwayFromMidnight /\ window \in MaintenanceConfigs /\ moved \in -1..1 /\ slot \in Int
  BY DEF MaintenanceInv
<1>2. PICK D \in 1..LastDay : Midnight(D) <= slot /\ slot < Midnight(D + 1)
  BY DEF MaintenanceInv
<1> DEFINE start == window.start
           wall == WallClock(slot)
           S == SlotsPerHour
<1>3. /\ Hours(1) = S /\ S \in Nat \ {0} /\ DayLength \in Nat /\ S < DayLength
      /\ Moved \in {-S, 0, S} /\ (moved = 0 <=> Moved = 0) /\ LastDay \in Nat
  BY <1>1, LengthFacts
<1>4. /\ start \in Nat /\ start < DayLength
      /\ window.duration \in Nat /\ window.duration <= DayLength /\ window.enabled \in BOOLEAN
  BY <1>1, <1>3 DEF MaintenanceConfigs, DayLength
<1>5. D \in Nat /\ D >= 1 /\ D \in 0..LastDay /\ D - 1 \in 0..LastDay /\ D - 1 \in Nat /\ D - 1 + 1 = D
  BY <1>3
<1>6. DayOf(slot) = D
  BY <1>1, <1>2, <1>5, DayFound
<1>7. /\ wall \in Nat
      /\ wall = IF D = ChangeDay /\ slot - Midnight(D) >= Hours(ChangeHour)
                THEN slot - Midnight(D) - Moved ELSE slot - Midnight(D)
  BY <1>1, <1>2, <1>5, ClockFacts
<1>8. Start = start
  BY <1>0 DEF Start
<1>9. StartDay = IF wall \div S < start \div S THEN D - 1 ELSE D
  BY <1>6, <1>8 DEF StartDay
<1>10. ClockMoved <=> moved # 0 /\ D \in {2, 3}
  BY <1>6 DEF ClockMoved, ChangeDay
<1>11. StartDay \in 0..LastDay /\ StartDay \in {D - 1, D}
  BY <1>5, <1>9
<1>12. IsUnderMaintenance <=>
         /\ window.enabled
         /\ window.every = {} \/ StartDay % WeekLength \in window.every
         /\ Midnight(StartDay) + start <= slot
         /\ slot < Midnight(StartDay) + start + window.duration
  BY <1>8 DEF IsUnderMaintenance
<1> HIDE DEF start, wall, S
<1>13. ASSUME IsUnderMaintenance
       PROVE  Scheduled(IF ClockMoved THEN Hours(1) ELSE 0)
  <2> DEFINE tolerance == IF ClockMoved THEN Hours(1) ELSE 0
  <2>1. PICK d \in 0..LastDay : d = StartDay
    BY <1>11
  <2>2. /\ Begins(d) \in Int /\ Midnight(d) \in Int
        /\ d # ChangeDay \/ moved = 0 => Begins(d) = Midnight(d) + start
        /\ Midnight(d) + start - S <= Begins(d) /\ Begins(d) <= Midnight(d) + start + S
    <3>1. d \in Nat
      BY <1>3
    <3> QED
      BY <1>1, <3>1, BeginsOnTime, DaysInOrder DEF start, S
  <2>3. ClockMoved \/ d # ChangeDay \/ moved = 0
    BY <1>5, <1>10, <1>11, <2>1 DEF ChangeDay
  <2>4. Begins(d) - tolerance <= slot /\ slot < Begins(d) + window.duration + tolerance
    <3>1. Midnight(d) + start <= slot /\ slot < Midnight(d) + start + window.duration
      BY <1>12, <1>13, <2>1
    <3>2. CASE ClockMoved
      BY <1>1, <1>3, <1>4, <2>2, <3>1, <3>2
    <3>3. CASE ~ClockMoved
      BY <1>1, <1>3, <1>4, <2>2, <2>3, <3>1, <3>3
    <3> QED
      BY <3>2, <3>3
  <2>5. window.enabled /\ (window.every = {} \/ d % WeekLength \in window.every)
    BY <1>12, <1>13, <2>1
  <2> HIDE DEF tolerance
  <2>6. Scheduled(tolerance)
    BY <2>4, <2>5 DEF Scheduled
  <2> QED
    BY <2>6 DEF tolerance
<1>14. ASSUME ~ClockMoved, ~StartingHour, Scheduled(0)
       PROVE  IsUnderMaintenance
  <2>1. PICK d \in 0..LastDay :
          /\ window.enabled
          /\ window.every = {} \/ d % WeekLength \in window.every
          /\ Begins(d) - 0 <= slot
          /\ slot < Begins(d) + window.duration + 0
    BY <1>14 DEF Scheduled
  <2>2. /\ Begins(d) \in Int /\ Midnight(d) <= Begins(d) /\ Begins(d) < Midnight(d + 1)
        /\ d # ChangeDay \/ moved = 0 => Begins(d) = Midnight(d) + start
    BY <1>1, BeginsOnTime DEF start
  <2>3. d \in Nat
    BY <1>3
  <2>4. /\ Midnight(d) \in Int /\ Midnight(d + 1) \in Int
        /\ Midnight(d + 1) = Midnight(d) + DayLength + (IF d = ChangeDay THEN Moved ELSE 0)
        /\ D < d => Midnight(D + 1) <= Midnight(d)
        /\ Midnight(D) \in Int /\ Midnight(D + 1) \in Int
    BY <1>1, <1>5, <2>3, DaysInOrder
  <2>5. Begins(d) <= slot /\ slot < Begins(d) + window.duration
    BY <1>4, <2>1, <2>2
  <2>6. d <= D
    BY <1>1, <1>2, <1>5, <2>2, <2>3, <2>4, <2>5
  <2>7. moved = 0 \/ (D # 2 /\ D # 3)
    BY <1>10, <1>14
  <2>8. ASSUME d + 2 <= D
        PROVE  FALSE
    <3>1. d + 1 \in Nat /\ d + 1 < D
      BY <1>5, <2>3, <2>8
    <3>2. /\ Midnight(d + 1 + 1) = Midnight(d + 1) + DayLength + (IF d + 1 = ChangeDay THEN Moved ELSE 0)
          /\ Midnight(d + 1 + 1) <= Midnight(D) /\ Midnight(d + 1 + 1) \in Int
      BY <1>1, <1>5, <3>1, DaysInOrder
    <3>3. CASE d + 1 # ChangeDay \/ moved = 0
      BY <1>1, <1>2, <1>3, <1>4, <2>2, <2>4, <2>5, <3>2, <3>3
    <3>4. CASE d + 1 = ChangeDay /\ moved # 0
      <4>1. d + 2 \in Nat /\ d + 2 < D /\ d + 2 # ChangeDay /\ d + 1 + 1 = d + 2
        BY <1>5, <2>3, <2>7, <2>8, <3>4 DEF ChangeDay
      <4>2. /\ Midnight(d + 2 + 1) = Midnight(d + 2) + DayLength
            /\ Midnight(d + 2 + 1) <= Midnight(D) /\ Midnight(d + 2 + 1) \in Int
        BY <1>1, <1>3, <1>5, <4>1, DaysInOrder
      <4> QED
        BY <1>1, <1>2, <1>3, <1>4, <2>2, <2>4, <2>5, <3>2, <4>1, <4>2
    <3> QED
      BY <3>3, <3>4
  <2>9. d = D \/ d = D - 1
    BY <1>5, <2>3, <2>6, <2>8
  <2>10. d # ChangeDay \/ moved = 0
    BY <1>5, <2>7, <2>9 DEF ChangeDay
  <2>11. wall = slot - Midnight(D)
    BY <1>1, <1>3, <1>7, <2>4, <2>7 DEF ChangeDay
  <2>12. d = StartDay
    <3>1. CASE d = D
      <4>1. wall >= start
        BY <1>1, <1>4, <2>2, <2>4, <2>5, <2>10, <2>11, <3>1
      <4>2. ~(wall \div S < start \div S)
        BY <1>4, <1>7, <4>1, HoursInOrder DEF S
      <4> QED
        BY <1>9, <3>1, <4>2
    <3>2. CASE d = D - 1
      <4>1. Midnight(D) = Midnight(d) + DayLength
        BY <1>3, <1>5, <2>4, <2>10, <3>2
      <4>2. wall < start
        BY <1>1, <1>3, <1>4, <2>2, <2>4, <2>5, <2>10, <2>11, <4>1
      <4>3. wall \div S # start \div S
        BY <1>14, <4>2 DEF StartingHour, wall, start, S
      <4>4. wall \div S < start \div S
        BY <1>4, <1>7, <4>2, <4>3, HoursInOrder DEF S
      <4> QED
        BY <1>9, <3>2, <4>4
    <3> QED
      BY <2>9, <3>1, <3>2
  <2>13. Midnight(d) + start <= slot /\ slot < Midnight(d) + start + window.duration
    BY <2>2, <2>5, <2>10
  <2> QED
    BY <1>12, <2>1, <2>12, <2>13
<1> QED
  BY <1>13, <1>14

(* maintenance.go:100-125: whatever the window, the day of the week and    *)
(* the length of days; the hour of the start and that of a change apart.   *)
(* For time zones that do not move the clock at midnight or in the hour    *)
(* before it: maintenance.go:88 accepts the others too.                    *)
THEOREM AlertsHeldBackAsScheduled ==
  AwayFromMidnight /\ MaintenanceSpec => []MaintenanceAsScheduled
<1>1. AwayFromMidnight /\ MaintenanceInit => MaintenanceInv
  <2> SUFFICES ASSUME AwayFromMidnight, MaintenanceInit PROVE MaintenanceInv
    OBVIOUS
  <2>1. AwayFromMidnight /\ window \in MaintenanceConfigs /\ moved \in -1..1 /\ slot = Midnight(1)
    BY DEF MaintenanceInit
  <2>2. Midnight(1) \in Int /\ Midnight(1) < Midnight(1 + 1) /\ 1 \in 1..LastDay
    BY <2>1, DaysInOrder, LengthFacts
  <2>3. Midnight(1) <= slot /\ slot < Midnight(1 + 1)
    BY <2>1, <2>2
  <2> QED
    BY <2>1, <2>2, <2>3 DEF MaintenanceInv
<1>2. MaintenanceInv /\ [MaintenanceNext]_maintenanceVars => MaintenanceInv'
  <2> SUFFICES ASSUME MaintenanceInv, [MaintenanceNext]_maintenanceVars PROVE MaintenanceInv'
    OBVIOUS
  <2>1. UNCHANGED <<window, moved>>
    BY DEF MaintenanceNext, ClockTicks, maintenanceVars
  <2>2. \A d : Midnight(d)' = Midnight(d)
    BY <2>1 DEF Midnight, Hours
  <2>3. AwayFromMidnight /\ window \in MaintenanceConfigs /\ moved \in -1..1 /\ slot \in Int
    BY DEF MaintenanceInv
  <2>4. PICK D \in 1..LastDay : Midnight(D) <= slot /\ slot < Midnight(D + 1)
    BY DEF MaintenanceInv
  <2>5. D \in Nat /\ D + 1 \in Nat /\ LastDay \in Nat
    BY <2>3, LengthFacts
  <2>6. /\ Midnight(D) \in Int /\ Midnight(D + 1) \in Int /\ Midnight(D + 1) < Midnight(D + 1 + 1)
        /\ Midnight(D + 1 + 1) \in Int
    BY <2>3, <2>5, DaysInOrder
  <2>7. \E d \in 1..LastDay : Midnight(d) <= slot' /\ slot' < Midnight(d + 1)
    <3>1. CASE slot' = slot
      BY <2>4, <3>1
    <3>2. CASE slot' # slot
      <4>1. slot' = slot + 1 /\ slot + 1 < Midnight(LastDay + 1)
        BY <3>2 DEF MaintenanceNext, ClockTicks, maintenanceVars
      <4>2. CASE slot + 1 < Midnight(D + 1)
        BY <2>3, <2>4, <2>6, <4>1, <4>2
      <4>3. CASE slot + 1 = Midnight(D + 1)
        <5>1. D # LastDay
          BY <2>6, <4>1, <4>3
        <5>2. D + 1 \in 1..LastDay
          BY <2>4, <2>5, <5>1
        <5> QED
          BY <2>6, <4>1, <4>3, <5>2
      <4> QED
        BY <2>3, <2>4, <2>6, <4>2, <4>3
    <3> QED
      BY <3>1, <3>2
  <2>8. slot' \in Int
    BY <2>3 DEF MaintenanceNext, ClockTicks, maintenanceVars
  <2> QED
    BY <2>1, <2>2, <2>3, <2>7, <2>8 DEF MaintenanceInv, MaintenanceConfigs
<1>3. MaintenanceInv => MaintenanceAsScheduled
  BY InTheWindow
<1> QED
  BY <1>1, <1>2, <1>3, PTL DEF MaintenanceSpec
=============================================================================
