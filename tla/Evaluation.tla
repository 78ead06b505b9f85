------------------------------ MODULE Evaluation ------------------------------
(***************************************************************************)
(* One evaluation of an endpoint, EvaluateHealthWithContext: what is       *)
(* retrieved for a condition, the call, and what the condition makes of    *)
(* the result.  A condition compares a placeholder with a literal (two     *)
(* placeholders are left out); a text is <<how it is written, number>>.    *)
(* Conditions are and-ed, so that one stands for all.  What the user       *)
(* interface hides is left out.                                            *)
(***************************************************************************)
EXTENDS Integers, FiniteSets

VARIABLES
  endpoint,    \* the configuration
  stage,       \* "new", "prepared", "called" or "judged"
  retrieved,   \* which fields of the result were filled in
  text,        \* what the name in the condition then stands for
  problems,    \* errors: "before" the call, in the "call", "reading" the body
  healthy      \* Result.Success

evaluationVars == <<endpoint, stage, retrieved, text, problems, healthy>>

EndpointTypes ==
  {"DNS", "STARTTLS", "TLS", "TCP", "UDP", "SCTP", "ICMP", "WS", "SSH", "SSH banner", "GRPC", "HTTP"}

Empty == <<"empty", 0>>
Invalid == <<"(INVALID)", 0>>
True == <<"true", 1>>
False == <<"false", 0>>
Json == <<"json", 1>>
Literals == {<<"decimal", 0>>, <<"decimal", 2>>, <<"hex", 2>>, <<"float", 2>>, <<"duration", 2>>, <<"word", 1>>}
IsWhole(t) == t[1] \in {"decimal", "hex"}

Names == {"STATUS", "IP", "RESPONSE_TIME", "DNS_RCODE", "CONNECTED", "CERTIFICATE_EXPIRATION",
          "DOMAIN_EXPIRATION", "BODY", "BODY.path", "CONTEXT.path"}
Operators == {"==", "!=", "<=", ">=", "<", ">"}
(* How a condition may ask for what a value is before it is retrieved.     *)
Zero == {False, <<"decimal", 0>>, <<"hex", 0>>}
Others == Literals \cup Zero \cup
          {True, <<"pat", Literals>>, <<"pat", Literals \cup {Empty, Invalid}>>,
           <<"any", {<<"decimal", 2>>, <<"word", 1>>}>>, <<"any", {<<"decimal", 0>>, False}>>}

(* upper: the placeholder is written in capitals; function: len() or has() *)
(* around it; otherFirst: it is on the right; storesBody: a suite stores   *)
(* values of the body.                                                     *)
EndpointConfigs ==
  {e \in [type : EndpointTypes, name : Names, upper : BOOLEAN, function : {"none", "len", "has"},
          operator : Operators, other : Others, otherFirst : BOOLEAN,
          storesBody : BOOLEAN, context : {"nil", "present", "missing"}] :
     /\ e.context # "nil" => e.type = "HTTP" /\ e.upper
     /\ e.storesBody => e.context # "nil"
     /\ ~e.upper => e.type \in {"HTTP", "DNS"} /\ e.function = "none"
     /\ e.function # "none" => e.other \in {True, False, <<"decimal", 0>>, <<"decimal", 2>>} /\ e.operator \in {"==", ">"}
     /\ e.otherFirst => e.operator \in {"==", "<"} /\ e.type = "HTTP" /\ e.context = "nil"
     /\ e.other[1] \in {"pat", "any"} => e.operator \in {"==", "!="}}

Source == IF endpoint.name = "BODY.path" THEN "BODY" ELSE endpoint.name

-----------------------------------------------------------------------------
(* hasBodyPlaceholder and its like look for the capitals.                  *)
Mentioned(source) == endpoint.upper /\ Source = source
\* Slip: what a suite wants to store is not looked at.
NeedsToReadBodyForCondition == Mentioned("BODY")
NeedsToReadBody == Mentioned("BODY") \/ endpoint.storesBody

(* What the fields of a new Result stand for.                              *)
Default(name) ==
  CASE name \in {"IP", "DNS_RCODE", "BODY"} -> Empty
    [] name = "BODY.path" -> Invalid
    [] name = "CONNECTED" -> False
    [] name = "CONTEXT.path" -> IF endpoint.context = "present" THEN <<"word", 1>> ELSE Invalid
    [] OTHER -> <<"decimal", 0>>
(* Their clients report no errors.                                         *)
NoErrorTypes == {"TCP", "UDP", "SCTP", "ICMP"}
(* What they may stand for once they are filled in.                        *)
Possible(name) ==
  CASE name \in {"IP", "DNS_RCODE"} -> {<<"word", 1>>}
    [] name = "CONNECTED" -> {True} \cup IF endpoint.type \in NoErrorTypes THEN {False} ELSE {}
    [] name = "STATUS" /\ endpoint.type = "SSH banner" -> {<<"decimal", 0>>}
    [] name = "BODY" -> Literals \cup {Empty, Json}
    [] name = "BODY.path" -> Literals \cup {Empty, Invalid}
    [] OTHER -> {<<"decimal", 0>>, <<"decimal", 2>>}
Retrieve(fields) ==
  /\ retrieved' = retrieved \cup fields
  /\ text' \in IF Source \in fields THEN Possible(endpoint.name) ELSE {text}

(* Placeholders of the context in the URL, its host name, the IP address   *)
(* and the expiration of the domain.                                       *)
Prepare ==
  /\ stage = "new" /\ stage' = "prepared"
  /\ \E resolved, parsed, hasHost, answer \in BOOLEAN :
       /\ endpoint.context = "nil" => resolved
       /\ endpoint.type \in {"DNS", "ICMP"} => parsed
       /\ hasHost => parsed
       /\ LET looksUp == {n \in {"IP", "DOMAIN_EXPIRATION"} : Mentioned(n) /\ (n = "IP" \/ hasHost)} IN
            /\ looksUp = {"IP"} /\ ~hasHost => ~answer
            /\ Retrieve((IF answer THEN looksUp ELSE {}) \cup (IF hasHost THEN {"hostname"} ELSE {}))
            /\ problems' = IF resolved /\ parsed /\ (looksUp = {} \/ answer) THEN {} ELSE {"before"}
  /\ UNCHANGED <<endpoint, healthy>>

\* Slip: that there is no call is not a failure.
SkipCallUnnoticed ==
  /\ stage = "prepared" /\ problems # {}
  /\ stage' = "called"
  /\ UNCHANGED <<endpoint, retrieved, text, problems, healthy>>

(* With an error there is no call.                                         *)
SkipCall ==
  /\ stage = "prepared" /\ problems # {}
  /\ stage' = "called"
  /\ healthy' = FALSE
  /\ UNCHANGED <<endpoint, retrieved, text, problems>>

(* What a call fills in, besides the response time.                        *)
Answers ==
  {"CONNECTED", "RESPONSE_TIME"} \cup
  CASE endpoint.type = "DNS" -> {"DNS_RCODE", "BODY"}
    [] endpoint.type \in {"TCP", "UDP", "WS"} -> {"BODY"}
    [] endpoint.type \in {"SCTP", "ICMP"} -> {}
    [] endpoint.type = "STARTTLS" -> {"CERTIFICATE_EXPIRATION"}
    [] endpoint.type = "TLS" -> {"CERTIFICATE_EXPIRATION", "BODY"}
    [] endpoint.type = "SSH banner" -> {"STATUS"}
    [] OTHER -> (IF endpoint.type = "GRPC" THEN {} ELSE {"STATUS"})
                \cup (IF endpoint.type = "HTTP" THEN {"CERTIFICATE_EXPIRATION"} ELSE {})
                \cup (IF NeedsToReadBody THEN {"BODY"} ELSE {})

(* A failure of these only shows in CONNECTED.                             *)
CallSucceeds ==
  /\ stage = "prepared" /\ problems = {}
  /\ stage' = "called"
  /\ Retrieve(Answers)
  /\ problems' \in IF endpoint.type = "HTTP" /\ NeedsToReadBody THEN {{}, {"reading"}} ELSE {{}}
  /\ UNCHANGED <<endpoint, healthy>>

(* The duration of the request, and the status 1 of a banner not seen.     *)
LeftByFailure ==
  CASE endpoint.type = "HTTP" -> {"RESPONSE_TIME"} [] endpoint.type = "SSH banner" -> {"STATUS"} [] OTHER -> {}

(* TLS and SSH may fail when they are connected; the latter decides then   *)
(* that the result is no success, the others leave that to the conditions. *)
AfterFailure == endpoint.type # "SSH" \/ "CONNECTED" \notin retrieved'

CallFails ==
  /\ stage = "prepared" /\ problems = {}
  /\ endpoint.type \notin NoErrorTypes
  /\ stage' = "called"
  /\ \E late \in BOOLEAN :
       /\ late => endpoint.type \in {"TLS", "SSH"}
       /\ retrieved' = retrieved \cup (IF late THEN {"CONNECTED"} ELSE {}) \cup LeftByFailure
       /\ text' \in IF late /\ Source = "CONNECTED" THEN {True}
                    ELSE IF Source \notin LeftByFailure THEN {text}
                    ELSE IF Source = "STATUS" THEN {<<"decimal", 2>>} ELSE Possible(endpoint.name)
       /\ healthy' = AfterFailure
  /\ problems' = {"call"}
  /\ UNCHANGED endpoint

-----------------------------------------------------------------------------
(* sanitizeAndResolveNumericalWithContext: durations in milliseconds,      *)
(* fractions cut off, and zero for whatever is not a number.               *)
Number(t) == IF t[1] \in {"decimal", "hex", "float", "duration"} THEN t[2] ELSE 0
Length(t) == IF t = Empty THEN 0 ELSE 2

(* ResolvePlaceholder.  Without a context its placeholder is a literal.    *)
TextOfPlaceholder ==
  LET known == IF endpoint.name = "CONTEXT.path" THEN endpoint.context = "present" /\ endpoint.upper
               ELSE IF endpoint.name = "BODY.path" THEN text # Invalid ELSE text # Empty
      literal == endpoint.name = "CONTEXT.path" /\ endpoint.context = "nil"
  IN CASE endpoint.function = "has" -> IF known THEN True ELSE False
       [] endpoint.function = "len" -> IF literal \/ text = Invalid THEN Invalid ELSE <<"decimal", Length(text)>>
       [] OTHER -> IF literal THEN <<"placeholder", 0>>
                   ELSE IF endpoint.name \in {"CONTEXT.path", "BODY.path"} /\ ~known THEN Invalid ELSE text

IsEqual(first, second) ==
  CASE first[1] = "pat" -> second \in first[2]
    [] second[1] = "pat" -> first \in second[2]
    [] first[1] = "any" -> second \in first[2]
    [] second[1] = "any" -> first \in second[2]
    [] IsWhole(first) /\ IsWhole(second) -> first[2] = second[2]
    [] OTHER -> first = second

Holds ==
  LET first == IF endpoint.otherFirst THEN endpoint.other ELSE TextOfPlaceholder
      second == IF endpoint.otherFirst THEN TextOfPlaceholder ELSE endpoint.other
  IN CASE endpoint.operator = "==" -> IsEqual(first, second)
       [] endpoint.operator = "!=" -> ~IsEqual(first, second)
       [] endpoint.operator = "<=" -> Number(first) <= Number(second)
       [] endpoint.operator = ">=" -> Number(first) >= Number(second)
       [] endpoint.operator = "<" -> Number(first) < Number(second)
       [] endpoint.operator = ">" -> Number(first) > Number(second)

Judge ==
  /\ stage = "called" /\ stage' = "judged"
  /\ healthy' = (healthy /\ Holds)
  /\ UNCHANGED <<endpoint, retrieved, text, problems>>

EvaluationInit ==
  /\ endpoint \in EndpointConfigs
  /\ stage = "new" /\ retrieved = {} /\ text = Default(endpoint.name) /\ problems = {} /\ healthy = TRUE
EvaluationIdle ==
  /\ endpoint = [type |-> "HTTP", name |-> "STATUS", upper |-> TRUE, function |-> "none", operator |-> "==",
                 other |-> True, otherFirst |-> FALSE, storesBody |-> FALSE, context |-> "nil"]
  /\ stage = "new" /\ retrieved = {} /\ text = Empty /\ problems = {} /\ healthy = TRUE

EvaluationNext == Prepare \/ SkipCall \/ CallSucceeds \/ CallFails \/ Judge

-----------------------------------------------------------------------------
(* endpoint.go:598-633: what the condition names, and what a suite wants   *)
(* to store, has been retrieved when it is used, if nothing failed and the *)
(* type of the endpoint has it.  Only for names in capitals: others are    *)
(* resolved all the same (placeholder.go:125), from what was not retrieved. *)
RetrievedBeforeUse ==
  stage = "judged" /\ problems = {} =>
    /\ Mentioned("BODY") \/ endpoint.storesBody =>
         "BODY" \in retrieved \/ endpoint.type \in {"STARTTLS", "SCTP", "ICMP", "SSH banner"}
    /\ Mentioned("IP") => "IP" \in retrieved
    /\ Mentioned("DOMAIN_EXPIRATION") => "DOMAIN_EXPIRATION" \in retrieved \/ "hostname" \notin retrieved

(* A failed call does not make the result a failure, the condition has to  *)
(* (endpoint.go:456-574).  One that asks for a value does: an endpoint     *)
(* that was not reached only seems healthy if the value was found out      *)
(* without the call or in spite of its failure, or if the condition asks   *)
(* for anything but a value that only an answer gives.  So `[CONNECTED] == *)
(* false` and `has([BODY].errors) == false` (README.md:490) are healthy    *)
(* without an answer, as is whatever is compared with zero or a pattern.   *)
(* What fails before the call is always a failure.                         *)
HealthyMeansReached ==
  stage = "judged" /\ healthy =>
    /\ "before" \notin problems
    /\ "call" \in problems =>
         \/ Source \in retrieved \cup {"CONTEXT.path"}
         \/ endpoint.operator # "==" \/ endpoint.other[1] = "pat" \/ endpoint.other \in Zero
         \/ endpoint.other[1] = "any" /\ endpoint.other[2] \cap Zero # {}
         \/ endpoint.function # "none" /\ Source # "BODY"
=============================================================================
