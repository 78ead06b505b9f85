---------------------------- MODULE ProviderTable ----------------------------
(***************************************************************************)
(* The alert providers: which settings each of them has, and how it sends  *)
(* a notification.  Config, Validate, Merge and Send of every package      *)
(* under alerting/provider follow one pattern, so that a provider is the   *)
(* record of what it fills into the pattern:                               *)
(*   required    settings that Validate wants                              *)
(*   builtin     settings that Validate, or Send, fills in when not set    *)
(*   optional    the other ones that Merge lets an override replace        *)
(*   checked     settings whose value Validate looks at                    *)
(*   pair        settings of which Validate wants all or none              *)
(*   groups      it has overrides per group                                *)
(*   unique      Validate wants one override per group                     *)
(*   inOverride  settings that every override must bring                   *)
(*   early       settings that Validate looks at in the overrides, too     *)
(*   client      settings kept in a client that is created with the        *)
(*               default configuration and that Validate leaves alone      *)
(*               while the repository is the same                          *)
(*   oneByOne    one request per recipient, the first error returns        *)
(*   strict      an answer that cannot be read is an error                 *)
(*   incident    what a notification leaves behind at the service:         *)
(*     "notice"    a message, nothing more                                 *)
(*     "reply"     an incident with a key that the service answers         *)
(*     "own"       an incident with a key that the provider makes up       *)
(*     "echo"      the same, taking over the key that the service answers  *)
(*     "alias"     an incident known by the key of the endpoint            *)
(*     "reported"  the same, and the resolution is sent as an alert before *)
(*                 the incident is closed                                  *)
(*     "title"     one more issue with the title of the endpoint           *)
(*     "contains"  one more task whose name has that of the endpoint in it *)
(***************************************************************************)
Webhook ==
  [required |-> {"WebhookURL"}, builtin |-> {}, optional |-> {}, checked |-> {}, pair |-> {},
   groups |-> TRUE, unique |-> TRUE, inOverride |-> {}, early |-> {}, client |-> {},
   oneByOne |-> FALSE, strict |-> FALSE, incident |-> "notice"]
Requires(required) == [Webhook EXCEPT !.required = required]
NoGroups(required) == [Requires(required) EXCEPT !.groups = FALSE]

AWSSES == [Requires({"From", "To"}) EXCEPT !.optional = {"AccessKeyID", "SecretAccessKey", "Region"},
             !.pair = {"AccessKeyID", "SecretAccessKey"}, !.inOverride = {"To"}]
ClickUp == [Requires({"ListID", "Token"}) EXCEPT !.optional = {"Assignees", "Status"},
             !.builtin = {"Priority", "NotifyAll", "APIURL", "Name", "MarkdownContent"},
             !.checked = {"Priority"}, !.incident = "contains"]
Custom == [Requires({"URL"}) EXCEPT !.unique = FALSE,
             !.optional = {"Method", "Body", "Headers", "Placeholders", "ClientConfig"}]
Datadog == [Requires({"APIKey"}) EXCEPT !.optional = {"Tags"}, !.builtin = {"Site"}]
Discord == [Webhook EXCEPT !.optional = {"Title", "MessageContent"}, !.inOverride = {"WebhookURL"}]
Email == [Requires({"From", "To", "Port", "Host"}) EXCEPT !.optional = {"Password", "ClientConfig"},
             !.builtin = {"Username"}, !.checked = {"Port"}, !.inOverride = {"To"}]
Gitea == [NoGroups({"RepositoryURL", "Token"}) EXCEPT !.optional = {"Assignees", "ClientConfig"},
             !.checked = {"RepositoryURL"}, !.client = {"Token", "ClientConfig"},
             !.strict = TRUE, !.incident = "title"]
GitHub == [NoGroups({"RepositoryURL", "Token"}) EXCEPT !.checked = {"RepositoryURL"},
             !.client = {"Token"}, !.strict = TRUE, !.incident = "title"]
GitLab == [NoGroups({"WebhookURL", "AuthorizationKey"}) EXCEPT !.builtin = {"Severity", "MonitoringTool"},
             !.optional = {"EnvironmentName", "Service"}, !.checked = {"WebhookURL"}, !.incident = "own"]
GoogleChat == [Webhook EXCEPT !.optional = {"ClientConfig"}, !.inOverride = {"WebhookURL"}]
Gotify == [NoGroups({"ServerURL", "Token"}) EXCEPT !.builtin = {"Priority"}, !.optional = {"Title"}]
HomeAssistant == Requires({"URL", "Token"})
IFTTT == Requires({"WebhookKey", "EventName"})
Ilert == Requires({"IntegrationKey"})
IncidentIO == [Requires({"URL", "AuthToken"}) EXCEPT !.optional = {"SourceURL", "Metadata"},
             !.checked = {"URL"}, !.strict = TRUE, !.incident = "echo"]
Line == [Requires({"ChannelAccessToken", "UserIDs"}) EXCEPT !.oneByOne = TRUE]
Matrix == [Requires({"AccessToken", "InternalRoomID"}) EXCEPT !.builtin = {"ServerURL"},
             !.inOverride = {"AccessToken", "InternalRoomID"}]
Mattermost == [Webhook EXCEPT !.optional = {"Channel", "ClientConfig"}, !.inOverride = {"WebhookURL"}]
Messagebird == NoGroups({"AccessKey", "Originator", "Recipients"})
N8N == [Webhook EXCEPT !.optional = {"Title"}]
NewRelic == [Requires({"InsertKey", "AccountID"}) EXCEPT !.builtin = {"Region"}]
Ntfy == [Requires({"Topic"}) EXCEPT !.builtin = {"URL", "Priority"}, !.checked = {"Token", "Priority"},
             !.optional = {"Token", "Email", "Click", "DisableFirebase", "DisableCache"},
             !.early = {"Token", "Priority"}]
Opsgenie == [NoGroups({"APIKey"}) EXCEPT !.builtin = {"Priority", "Source", "EntityPrefix", "AliasPrefix"},
             !.optional = {"Tags"}, !.incident = "reported"]
PagerDuty == [Requires({"IntegrationKey"}) EXCEPT !.checked = {"IntegrationKey"}, !.incident = "reply"]
Plivo == [Requires({"AuthID", "AuthToken", "From", "To"}) EXCEPT !.oneByOne = TRUE]
Pushover == [NoGroups({"ApplicationToken", "UserKey"}) EXCEPT !.builtin = {"Priority", "ResolvedPriority"},
             !.checked = {"ApplicationToken", "UserKey", "Priority", "ResolvedPriority", "Device"},
             !.optional = {"Title", "Sound", "TTL", "Device"}]
RocketChat == [Webhook EXCEPT !.optional = {"Channel"}]
SendGrid == [Requires({"APIKey", "From", "To"}) EXCEPT !.optional = {"ClientConfig"}]
Signal == [Requires({"ApiURL", "Number", "Recipients"}) EXCEPT !.oneByOne = TRUE]
SIGNL4 == [Requires({"TeamSecret"}) EXCEPT !.incident = "alias"]
Slack == [Webhook EXCEPT !.optional = {"Title"}]
Splunk == [Requires({"HecURL", "HecToken"}) EXCEPT !.optional = {"Source", "SourceType", "Index"}]
Squadcast == [Webhook EXCEPT !.incident = "alias"]
Teams == [Webhook EXCEPT !.optional = {"Title", "ClientConfig"}]
TeamsWorkflows == [Webhook EXCEPT !.optional = {"Title"}]
Telegram == [Requires({"Token", "ID"}) EXCEPT !.builtin = {"ApiUrl"}, !.optional = {"TopicID", "ClientConfig"}]
Twilio == [NoGroups({"SID", "Token", "From", "To"}) EXCEPT !.optional = {"TextTwilioTriggered", "TextTwilioResolved"}]
Vonage == [Requires({"APIKey", "APISecret", "From", "To"}) EXCEPT !.oneByOne = TRUE, !.strict = TRUE]
Webex == Webhook
Zapier == Webhook
Zulip == Requires({"BotEmail", "BotAPIKey", "Domain", "ChannelID"})

Providers ==
  [awsses |-> AWSSES, clickup |-> ClickUp, custom |-> Custom, datadog |-> Datadog, discord |-> Discord,
   email |-> Email, gitea |-> Gitea, github |-> GitHub, gitlab |-> GitLab, googlechat |-> GoogleChat,
   gotify |-> Gotify, homeassistant |-> HomeAssistant, ifttt |-> IFTTT, ilert |-> Ilert,
   incidentio |-> IncidentIO, line |-> Line, matrix |-> Matrix, mattermost |-> Mattermost,
   messagebird |-> Messagebird, n8n |-> N8N, newrelic |-> NewRelic, ntfy |-> Ntfy, opsgenie |-> Opsgenie,
   pagerduty |-> PagerDuty, plivo |-> Plivo, pushover |-> Pushover, rocketchat |-> RocketChat,
   sendgrid |-> SendGrid, signal |-> Signal, signl4 |-> SIGNL4, slack |-> Slack, splunk |-> Splunk,
   squadcast |-> Squadcast, teams |-> Teams, teamsworkflows |-> TeamsWorkflows, telegram |-> Telegram,
   twilio |-> Twilio, vonage |-> Vonage, webex |-> Webex, zapier |-> Zapier, zulip |-> Zulip]
Types == DOMAIN Providers
=============================================================================
