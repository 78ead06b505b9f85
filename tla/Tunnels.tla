-------------------------------- MODULE Tunnels --------------------------------
(***************************************************************************)
(* One SSH tunnel that several checks dial their targets through, each in  *)
(* a goroutine of its own: SSHTunnel.Dial with its retries, the mutex of   *)
(* the tunnel, an SSH server that comes and goes, and the closing of all   *)
(* tunnels on a reload.  Connecting and closing happen with the mutex held *)
(* from beginning to end, so that they are one step.                       *)
(***************************************************************************)
EXTENDS Naturals, FiniteSets

CONSTANTS
  Checks,
  MaxRetries,     \* 3
  MaxClients,     \* bound: SSH connections that are made
  MaxBreaks       \* bound: how often the server, or a reload, ends one

ASSUME TunnelAssumption == MaxRetries \in Nat \ {0} /\ MaxClients \in Nat /\ MaxBreaks \in Nat

VARIABLES
  client,     \* SSHTunnel.client: the number of a connection, 0: nil
  connected,  \* connections that are open at both ends
  abandoned,  \* connections that the server, or a reload, ended
  clients,    \* how many were made
  serverUp,   \* whether the server accepts connections
  reachable,  \* targets that answer
  step,       \* where the Dial of each check is
  held,       \* its local variable client
  attempt,    \* and attempt
  trouble     \* history: what happened to the tunnel during a call of Dial

tunnelVars == <<client, connected, abandoned, clients, serverUp, reachable, step, held, attempt, trouble>>

Called == {"connecting", "dialling", "reconnecting"}
TunnelUsers == {c \in Checks : step[c] \in Called}
(* A connection was lost, or none could be made: that may be the trouble   *)
(* of every check that is under way.                                       *)
TroubleFor(S) ==
  [c \in Checks |-> IF c \in S \cap TunnelUsers /\ trouble[c] < MaxRetries THEN trouble[c] + 1 ELSE trouble[c]]

(* Dial, up to the unlocking of the mutex.                                 *)
ReadClient(c) ==
  /\ step[c] = "idle"
  /\ held' = [held EXCEPT ![c] = client]
  /\ step' = [step EXCEPT ![c] = IF client = 0 THEN "connecting" ELSE "dialling"]
  /\ attempt' = [attempt EXCEPT ![c] = 0]
  /\ trouble' = [trouble EXCEPT ![c] = IF client \in connected \cup {0} THEN 0 ELSE 1]
  /\ UNCHANGED <<client, connected, abandoned, clients, serverUp, reachable>>

(* connectUnsafe *)
Connected == client' = clients + 1 /\ clients' = clients + 1

\* Slip: the client is not looked at again once the lock is held.
ClientMissingUnchecked == TRUE
ClientMissing == client = 0

Connect(c) ==
  /\ step[c] = "connecting"
  /\ IF ~ClientMissing
       THEN /\ held' = [held EXCEPT ![c] = client]
            /\ step' = [step EXCEPT ![c] = "dialling"]
            /\ UNCHANGED <<client, clients, connected>>
     ELSE IF serverUp
       THEN /\ clients < MaxClients
            /\ Connected
            /\ connected' = connected \cup {clients + 1}
            /\ held' = [held EXCEPT ![c] = clients + 1]
            /\ step' = [step EXCEPT ![c] = "dialling"]
     ELSE /\ step' = [step EXCEPT ![c] = "refused"]
          /\ UNCHANGED <<client, clients, connected, held>>
  /\ UNCHANGED <<abandoned, serverUp, reachable, attempt, trouble>>

Retry(c) ==
  /\ attempt' = [attempt EXCEPT ![c] = @ + 1]
  /\ step' = [step EXCEPT ![c] = IF attempt[c] + 1 = MaxRetries THEN "gaveUp" ELSE "reconnecting"]

Dial(c) ==
  /\ step[c] = "dialling"
  /\ IF held[c] \in connected /\ c \in reachable
       THEN step' = [step EXCEPT ![c] = "done"] /\ UNCHANGED attempt
       ELSE Retry(c)
  /\ UNCHANGED <<client, connected, abandoned, clients, serverUp, reachable, held, trouble>>

Hold(c) == held' = [held EXCEPT ![c] = client']

(* The retry, after the delay, closes the client of the tunnel, which      *)
(* need not be the one that failed.                                        *)
Reconnect(c) ==
  /\ step[c] = "reconnecting"
  /\ IF serverUp
       THEN /\ clients < MaxClients
            /\ Connected
            /\ connected' = (connected \ {client}) \cup {clients + 1}
            /\ Hold(c)
            /\ step' = [step EXCEPT ![c] = "dialling"]
            /\ trouble' = TroubleFor(Checks \ {c})
            /\ UNCHANGED attempt
       ELSE /\ client' = 0
            /\ connected' = connected \ {client}
            /\ Retry(c)
            /\ trouble' = TroubleFor(Checks)
            /\ UNCHANGED <<clients, held>>
  /\ UNCHANGED <<abandoned, serverUp, reachable>>

(* The next check of the endpoint.                                         *)
CheckAgain(c) ==
  /\ step[c] \in {"done", "gaveUp", "refused"}
  /\ step' = [step EXCEPT ![c] = "idle"]
  /\ UNCHANGED <<client, connected, abandoned, clients, serverUp, reachable, held, attempt, trouble>>

(* Config.Close and SSHTunnel.Close                                        *)
CloseTunnels ==
  /\ client # 0 /\ Cardinality(abandoned) < MaxBreaks
  /\ abandoned' = abandoned \cup {client}
  /\ client' = 0
  /\ connected' = connected \ {client}
  /\ trouble' = TroubleFor(Checks)
  /\ UNCHANGED <<clients, serverUp, reachable, step, held, attempt>>

ConnectionBreaks ==
  /\ client \in connected /\ Cardinality(abandoned) < MaxBreaks
  /\ abandoned' = abandoned \cup {client}
  /\ connected' = connected \ {client}
  /\ trouble' = TroubleFor(Checks)
  /\ UNCHANGED <<client, clients, serverUp, reachable, step, held, attempt>>

ServerStartsOrStops ==
  /\ serverUp' = ~serverUp
  /\ UNCHANGED <<client, connected, abandoned, clients, reachable, step, held, attempt, trouble>>

TunnelsInit ==
  /\ client = 0 /\ connected = {} /\ abandoned = {} /\ clients = 0 /\ serverUp = TRUE
  /\ reachable \in SUBSET Checks
  /\ step = [c \in Checks |-> "idle"]
  /\ held = [c \in Checks |-> 0] /\ attempt = [c \in Checks |-> 0] /\ trouble = [c \in Checks |-> 0]
TunnelsIdle == TunnelsInit /\ reachable = {}

TunnelsNext ==
  \/ \E c \in Checks : ReadClient(c) \/ Connect(c) \/ Dial(c) \/ Reconnect(c) \/ CheckAgain(c)
  \/ CloseTunnels \/ ConnectionBreaks \/ ServerStartsOrStops

-----------------------------------------------------------------------------
(* sshtunnel.go:119-121: however the checks interleave, no connection is   *)
(* left open that the tunnel does not know, and would never close.         *)
(* sshtunnel.go:130-158: a check whose target answers gives up only after  *)
(* the tunnel was taken from it MaxRetries times: by the server, a reload, *)
(* or the retries of others, whose target need not answer.                 *)
TunnelIsShared ==
  /\ connected \subseteq {client}
  /\ \A c \in reachable : step[c] = "gaveUp" => trouble[c] >= MaxRetries
=============================================================================
