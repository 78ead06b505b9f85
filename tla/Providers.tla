------------------------------ MODULE Providers ------------------------------
(***************************************************************************)
(* One alert provider from the configuration to the requests it sends:     *)
(* which configuration is accepted, what defaults, overrides of a group    *)
(* and overrides of an alert come to, and what is left behind at a service *)
(* that may refuse a request or answer it unintelligibly.                  *)
(***************************************************************************)
EXTENDS ProviderTable, Naturals, Sequences, FiniteSets, SequencesExt

CONSTANTS
  Recipients,   \* how many people a provider that writes to them one by one knows
  MaxSends      \* bound: notifications sent by a provider that is set up well

ASSUME RecipientsAssumption == Recipients \in Nat \ {0}

VARIABLES
  type,         \* which provider
  setup,        \* what the configuration says of it
  triggered,    \* Alert.Triggered
  key,          \* Alert.ResolveKey, 0: empty
  open,         \* incidents open at the service: <<whose, key>>
  lost,         \* history: the key of an incident that is open was lost
  told,         \* recipients of the notification sent last
  turn,         \* the recipient a loop over them has come to, 0: none is going on
  sent          \* outcome of that one, and the settings it was sent with

providerVars == <<type, setup, triggered, key, open, lost, told, turn, sent>>

provider == Providers[type]
Settings(p) == p.required \cup p.builtin \cup p.optional
Unset == "unset"
NoConfig == [s \in {} |-> Unset]

(***************************************************************************)
(* A set-up looks at one setting: what is written for it at each source.   *)
(* At most one of these is peculiar: malformed, or blank (an empty text or *)
(* list, zero, false, or a number that Merge takes for not set), or, for   *)
(* the repository of a client, one with the owner and name of the default  *)
(* on another host.  The other settings are what the default configuration *)
(* needs them to be.  groups are those of the overrides.                   *)
(***************************************************************************)
Sources == {"default", "first", "second", "alert"}
Place(i) == <<"first", "second">>[i]
Peculiar == {"malformed", "blank", "sameName"}
Pointers == {"ClientConfig", "NotifyAll"}     \* Merge asks whether they are nil
Written(u) == {x \in Sources : u.value[x] # "none"}
SetUps(t) ==
  LET p == Providers[t] IN
  {u \in [setting : Settings(p), value : [Sources -> {"none", "good"} \cup Peculiar], group : {"", "core"},
          groups : IF p.groups THEN {<<>>, <<"core">>, <<"edge", "core">>, <<"core", "core">>, <<"">>} ELSE {<<>>},
          onResolved : BOOLEAN] :
     /\ Written(u) \subseteq {"default", "alert"} \cup {Place(i) : i \in DOMAIN u.groups}
     /\ Cardinality({x \in Sources : u.value[x] \in Peculiar}) <= 1
     /\ \A x \in Sources :
          /\ u.value[x] = "malformed" => u.setting \in p.checked
          /\ u.value[x] = "blank" => u.setting \notin Pointers
          /\ u.value[x] = "sameName" => x = "alert" /\ u.setting = "RepositoryURL" /\ p.client # {}
     /\ ~u.onResolved => u.setting \in p.required /\ Written(u) = {"default"} /\ u.groups = <<>>}

Usual(u) == /\ Written(u) = {"default"} /\ u.value["default"] = "good"
            /\ u.groups = <<>> /\ u.setting \in provider.required

Configuration(source) ==
  [s \in Settings(provider) |->
     IF s = setup.setting THEN IF setup.value[source] \in {"none", "blank"} THEN Unset ELSE source
     ELSE IF source = "default" \/ (s \in provider.inOverride /\ source # "alert") THEN source ELSE Unset]
Malformed == {x \in Sources : setup.value[x] = "malformed"}
IsSet(cfg, s) == cfg[s] # Unset
WellFormed(cfg, s) == s = setup.setting => cfg[s] \notin Malformed

-----------------------------------------------------------------------------
(* What is blank in an override does not replace anything.                 *)
Merge(cfg, override) == [s \in DOMAIN cfg |-> IF IsSet(override, s) THEN override[s] ELSE cfg[s]]

FillIn(cfg) == [s \in DOMAIN cfg |-> IF ~IsSet(cfg, s) /\ s \in provider.builtin THEN "builtin" ELSE cfg[s]]

(* Config.Validate, after it has filled in what it can.                    *)
Valid(cfg) ==
  /\ \A s \in provider.required : IsSet(cfg, s)
  /\ \A s \in provider.checked : IsSet(cfg, s) => WellFormed(cfg, s)
  /\ \A s, t \in provider.pair : IsSet(cfg, s) = IsSet(cfg, t)

(* AlertProvider.Validate: one that is refused is set to nil.              *)
Accepted ==
  /\ provider.groups /\ provider.unique =>
       \A i \in DOMAIN setup.groups :
         /\ setup.groups[i] # ""
         /\ \A j \in 1..(i - 1) : setup.groups[j] # setup.groups[i]
         /\ \A s \in provider.inOverride : IsSet(Configuration(Place(i)), s)
         /\ \A s \in provider.early : WellFormed(Configuration(Place(i)), s)
  /\ Valid(FillIn(Configuration("default")))

\* Slip: the override of the alert is applied before that of the group.
GetConfigGroupLast ==
  LET ofGroup == SelectInSeq(setup.groups, LAMBDA g : g = setup.group)
      alerted == Merge(Configuration("default"), Configuration("alert"))
  IN FillIn(IF ofGroup = 0 THEN alerted ELSE Merge(alerted, Configuration(Place(ofGroup))))
(* GetConfig: the first override of the group of the endpoint, then that   *)
(* of the alert.                                                           *)
GetConfig ==
  LET ofGroup == SelectInSeq(setup.groups, LAMBDA g : g = setup.group)
      grouped == IF ofGroup = 0 THEN Configuration("default")
                 ELSE Merge(Configuration("default"), Configuration(Place(ofGroup)))
  IN FillIn(Merge(grouped, Configuration("alert")))

(* gitea.go:55, github.go:51: the client that was made of the default      *)
(* configuration, for its host, is used as long as the owner and the name  *)
(* of the repository do not change.                                        *)
KeepsClient(cfg) ==
  provider.client # {} /\ (cfg["RepositoryURL"] = "default" \/ setup.value["alert"] = "sameName")
InUse(cfg) ==
  [s \in DOMAIN cfg |-> IF KeepsClient(cfg) /\ s \in provider.client \cup {"RepositoryURL"}
                        THEN Configuration("default")[s] ELSE cfg[s]]

-----------------------------------------------------------------------------
Everyone == 1..Recipients
Replies == {"taken", "refused", "garbled"}
NewKey == 1 + sent.count
Endpoint == 1                                  \* the key, or title, of the endpoint
OpenHere == {i \in open : i[1] = "endpoint"}

(* incidentio.go:118-124, vonage.go:141-150: some return an error when     *)
(* the answer to a request that was taken cannot be read; clickup does     *)
(* when it asks for the tasks.                                             *)
Failed(reply, resolved) ==
  \/ reply = "refused"
  \/ reply = "garbled" /\ (provider.strict \/ (resolved /\ provider.incident = "contains"))

(* The key that a notification asks the service to open an incident under. *)
KeyToOpen ==
  CASE provider.incident \in {"own", "echo"} -> IF key = 0 THEN NewKey ELSE key
    [] provider.incident \in {"alias", "reported"} -> Endpoint
    [] OTHER -> NewKey

(* What is kept of the answer.                                             *)
KeyKept(reply, resolved) ==
  CASE provider.incident = "own" -> KeyToOpen
    [] provider.incident = "echo" -> IF reply = "garbled" THEN 0 ELSE KeyToOpen
    [] provider.incident = "reply" /\ setup.onResolved /\ reply = "taken" -> IF resolved THEN 0 ELSE NewKey
    [] provider.incident = "reply" /\ setup.onResolved /\ reply = "garbled" /\ resolved -> 0
    [] provider.incident = "reported" /\ setup.onResolved /\ reply # "refused" -> IF resolved THEN 0 ELSE Endpoint
    [] OTHER -> key

Ready == turn = 0 /\ sent.count < IF Usual(setup) THEN MaxSends ELSE 1

(* The answer to a notification: nothing was sent if the configuration is  *)
(* not valid.                                                              *)
Outcome(ok, resolved, cfg) == [count |-> sent.count + 1, ok |-> ok, resolved |-> resolved, with |-> cfg]

NotConfigured ==
  /\ Ready /\ ~Valid(GetConfig)
  /\ sent' = Outcome(FALSE, FALSE, NoConfig)
  /\ told' = {}
  /\ UNCHANGED <<type, setup, triggered, key, open, lost, turn>>

(* Send, resolved = FALSE: the first notification or a reminder, in one    *)
(* request that names all recipients.                                      *)
Notify ==
  /\ Ready /\ Valid(GetConfig) /\ ~provider.oneByOne
  /\ \E reply \in Replies : LET failed == Failed(reply, FALSE) IN
       /\ told' = IF reply = "refused" THEN {} ELSE Everyone
       /\ sent' = Outcome(~failed, FALSE, InUse(GetConfig))
       /\ triggered' = (triggered \/ ~failed)
       /\ key' = KeyKept(reply, FALSE)
       /\ IF reply = "refused" \/ provider.incident = "notice" THEN UNCHANGED <<open, lost>>
          ELSE /\ open' = open \cup {<<"endpoint", KeyToOpen>>}
               /\ lost' = (lost \/ (provider.incident \in {"reply", "echo"} /\ reply = "garbled")
                                \/ (provider.incident = "reply" /\ key # 0))
  /\ UNCHANGED <<type, setup, turn>>

\* Slip: a resolution goes by the title for every provider.
MatchesByTitle ==
  IF provider.incident = "notice" THEN {} ELSE open
(* The incidents that a resolution closes if nothing goes wrong.           *)
Matches ==
  CASE provider.incident = "contains" -> open
    [] provider.incident \in {"title", "alias", "reported"} -> OpenHere
    [] provider.incident \in {"reply", "own", "echo"} -> {i \in OpenHere : i[2] = key}
    [] OTHER -> {}

(* Send, resolved = TRUE.  The watchdog has forgotten that the alert was   *)
(* triggered by then.  A service that lists its issues first is asked to   *)
(* close them one by one; clickup wants to find at least one.              *)
Resolve ==
  /\ Ready /\ triggered /\ setup.onResolved /\ Valid(GetConfig) /\ ~provider.oneByOne
  /\ triggered' = FALSE
  /\ \E reply \in Replies : LET failed == Failed(reply, TRUE) \/ (provider.incident = "contains" /\ Matches = {}) IN
       /\ told' = IF reply = "refused" THEN {} ELSE Everyone
       /\ \E closed \in IF ~failed THEN {Matches}
                         ELSE IF provider.incident \in {"title", "contains"} THEN SUBSET Matches
                         ELSE {IF reply = "refused" THEN {} ELSE Matches} : open' = open \ closed
       /\ sent' = Outcome(~failed, TRUE, InUse(GetConfig))
       /\ key' = KeyKept(reply, TRUE)
       /\ lost' = (lost /\ \E i \in open' : i[1] = "endpoint")
  /\ UNCHANGED <<type, setup, turn>>

(* When the endpoint recovers and nobody wants to know, nothing is sent.   *)
ForgetTriggered ==
  /\ Ready /\ triggered /\ ~setup.onResolved
  /\ triggered' = FALSE
  /\ UNCHANGED <<type, setup, key, open, lost, told, turn, sent>>

-----------------------------------------------------------------------------
(* line.go:84, plivo.go:103, signal.go:96, vonage.go:106: the providers    *)
(* that write to their recipients in a loop, with a request for each.      *)
StartLoopOver(resolved) ==
  /\ Ready /\ Valid(GetConfig) /\ provider.oneByOne
  /\ resolved => triggered /\ setup.onResolved
  /\ triggered' = (triggered /\ ~resolved)
  /\ told' = {} /\ turn' = 1
  /\ sent' = Outcome(FALSE, resolved, InUse(GetConfig))
  /\ UNCHANGED <<type, setup, key, open, lost>>

TellNext ==
  /\ turn \in Everyone
  /\ \E reply \in Replies : ~Failed(reply, sent.resolved)
  /\ told' = told \cup {turn} /\ turn' = turn + 1
  /\ UNCHANGED <<type, setup, triggered, key, open, lost, sent>>

\* Slip: the error of one recipient is logged, and the loop goes on.
TellFailsAndGoesOn ==
  /\ turn \in Everyone
  /\ \E reply \in Replies :
       /\ Failed(reply, sent.resolved)
       /\ told' = IF reply = "refused" THEN told ELSE told \cup {turn}
  /\ turn' = turn + 1
  /\ UNCHANGED <<type, setup, triggered, key, open, lost, sent>>

(* return err: nobody after this recipient is told.                        *)
TellFails ==
  /\ turn \in Everyone
  /\ \E reply \in Replies :
       /\ Failed(reply, sent.resolved)
       /\ told' = IF reply = "refused" THEN told ELSE told \cup {turn}
  /\ turn' = 0
  /\ UNCHANGED <<type, setup, triggered, key, open, lost, sent>>

(* return nil, after the last one.                                         *)
EveryoneHandled ==
  /\ turn > Recipients
  /\ turn' = 0
  /\ sent' = [sent EXCEPT !.ok = TRUE]
  /\ triggered' = (triggered \/ ~sent.resolved)
  /\ UNCHANGED <<type, setup, key, open, lost, told>>

-----------------------------------------------------------------------------
(* The service holds an incident of another endpoint, whose name has the   *)
(* name of this one in it.                                                 *)
ProvidersInit ==
  /\ type \in Types
  /\ setup \in SetUps(type)
  /\ Accepted
  /\ triggered = FALSE /\ key = 0 /\ lost = FALSE
  /\ open = {<<"neighbour", 0>>}
  /\ told = {} /\ turn = 0
  /\ sent = [count |-> 0, ok |-> FALSE, resolved |-> FALSE, with |-> NoConfig]

ProvidersIdle ==
  /\ type = "slack"
  /\ setup = [setting |-> "WebhookURL", value |-> [x \in Sources |-> "none"], group |-> "",
              groups |-> <<>>, onResolved |-> FALSE]
  /\ triggered = FALSE /\ key = 0 /\ lost = FALSE /\ open = {} /\ told = {} /\ turn = 0
  /\ sent = [count |-> 0, ok |-> FALSE, resolved |-> FALSE, with |-> NoConfig]

ProvidersNext ==
  \/ NotConfigured \/ Notify \/ Resolve \/ ForgetTriggered
  \/ \E resolved \in BOOLEAN : StartLoopOver(resolved)
  \/ TellNext \/ TellFails \/ EveryoneHandled

-----------------------------------------------------------------------------
(* Where the value that applies to this endpoint and alert comes from:     *)
(* the most specific one that is not blank.                                *)
MostSpecific(s) ==
  LET group == {i \in DOMAIN setup.groups : setup.groups[i] = setup.group}
      first == IF group = {} THEN {} ELSE {Place(CHOOSE i \in group : \A j \in group : i <= j)}
      holders == {x \in first \cup {"default", "alert"} : IsSet(Configuration(x), s)}
  IN IF "alert" \in holders THEN "alert"
     ELSE IF holders \ {"default", "alert"} # {} THEN CHOOSE x \in holders : x \notin {"default", "alert"}
     ELSE IF "default" \in holders THEN "default"
     ELSE IF s \in provider.builtin THEN "builtin" ELSE Unset

(* The settings for which the default applies although an override has     *)
(* another value: what is built into the client of gitea or github, while  *)
(* that repository, or one of the same owner and name, is to be used.      *)
OfTheClient ==
  IF provider.client = {} THEN {}
  ELSE IF setup.value["alert"] = "sameName" THEN provider.client \cup {"RepositoryURL"}
  ELSE IF MostSpecific("RepositoryURL") = "default" THEN provider.client ELSE {}

(* Notifications go out with the most specific value of every setting, and *)
(* never with one that is missing or malformed: whatever the overrides     *)
(* were, which nobody looks at when the configuration is loaded            *)
(* (config.go:675).  Only what a client was made of stays the default's.   *)
SentAsConfigured ==
  LET cfg == sent.with IN
  cfg # NoConfig =>
    /\ \A s \in Settings(provider) :
         cfg[s] = IF s \in OfTheClient THEN Configuration("default")[s] ELSE MostSpecific(s)
    /\ \A s \in provider.required : IsSet(cfg, s)
    /\ \A s \in provider.checked : WellFormed(cfg, s)
    /\ provider.pair # {} => provider.pair \subseteq {s \in DOMAIN cfg : IsSet(cfg, s)}
                             \/ \A s \in provider.pair : ~IsSet(cfg, s)

(* watchdog/alerting.go:65: an alert is taken for sent when Send returns   *)
(* no error, and not tried again.  By then every recipient was told, also  *)
(* by the loops of line.go:84 and its like.                                *)
SuccessMeansEveryoneTold == sent.ok => told = Everyone

(* Once a resolution was sent without an error, no incident of the         *)
(* endpoint is left open, and no other one was closed; unless a key was    *)
(* lost with an answer, or replaced by that of a reminder, before          *)
(* (pagerduty.go:100-112, incidentio.go:118-124), and except for the tasks  *)
(* that clickup.go:213 takes for those of the endpoint.                    *)
ResolutionClosesIncident ==
  sent.ok /\ sent.resolved =>
    /\ ~lost => OpenHere = {}
    /\ provider.incident # "contains" => <<"neighbour", 0>> \in open
=============================================================================
