----------------------------- MODULE HttpClient -----------------------------
(***************************************************************************)
(* core/http_client.py under the one analyzer that sends requests with it: *)
(* headers fetches https://<target>/ and follows redirects.  Before each   *)
(* request is sent httpx calls the event hook _block_telemetry, which      *)
(* raises NetworkError for a host on the blacklist of core/privacy.py.     *)
(*                                                                         *)
(* A host name is a sequence of characters as in AuthorizationGate.        *)
(*                                                                         *)
(* Definitions named Bug_... are mutated forms used to test properties.    *)
(***************************************************************************)
EXTENDS AuthorizationGate

CONSTANTS
  Hosts,          \* the hosts a redirect may name
  Blacklist,      \* TELEMETRY_BLACKLIST
  MaxRedirects    \* how many redirects httpx follows

VARIABLES
  exchange,   \* "idle", "ready" to send, "sent", or how it ended
  request,    \* the host of the request at hand
  hops,       \* how many redirects were followed
  contacted   \* history: the hosts a request was sent to

httpVars == <<exchange, request, hops, contacted>>

ActiveExchange == {"ready", "sent"}
ExchangeEnds == {"answered", "blocked", "failed", "cancelled"}

\* str.rstrip(".") of a lowered name
RightStripDots(host) ==
  LET other == {i \in DOMAIN host : host[i] # Dot}
  IN  IF other = {} THEN <<>> ELSE SubSeq(host, 1, Max(other))

IsTelemetryHost(host) ==
  LET h == RightStripDots(Lower(host))
  IN  \E bad \in Blacklist : h = bad \/ EndsInDomain(h, bad)

Init ==
  /\ exchange = "idle"
  /\ request = <<>>
  /\ hops = 0
  /\ contacted = {}

\* analyze() asks for https://<host>/.
BeginGet(host) ==
  /\ exchange = "idle"
  /\ exchange' = "ready"
  /\ request' = host
  /\ UNCHANGED <<hops, contacted>>

Bug_HookOnlyFirst ==
  /\ exchange = "ready"
  /\ IF hops = 0 /\ IsTelemetryHost(request)
     THEN exchange' = "blocked" /\ UNCHANGED contacted
     ELSE exchange' = "sent" /\ contacted' = contacted \cup {request}
  /\ UNCHANGED <<request, hops>>

\* httpx calls the hook and sends the request.
Send ==
  /\ exchange = "ready"
  /\ IF IsTelemetryHost(request)
     THEN exchange' = "blocked" /\ UNCHANGED contacted
     ELSE exchange' = "sent" /\ contacted' = contacted \cup {request}
  /\ UNCHANGED <<request, hops>>

\* The last response.
Receive ==
  /\ exchange = "sent"
  /\ exchange' = "answered"
  /\ UNCHANGED <<request, hops, contacted>>

Bug_OneHopTooMany(host) ==
  /\ exchange = "sent"
  /\ IF hops <= MaxRedirects
     THEN exchange' = "ready" /\ request' = host /\ hops' = hops + 1
     ELSE exchange' = "failed" /\ UNCHANGED <<request, hops>>
  /\ UNCHANGED contacted

\* A redirect: the next request, or TooManyRedirects.
FollowRedirect(host) ==
  /\ exchange = "sent"
  /\ IF hops < MaxRedirects
     THEN exchange' = "ready" /\ request' = host /\ hops' = hops + 1
     ELSE exchange' = "failed" /\ UNCHANGED <<request, hops>>
  /\ UNCHANGED contacted

\* A timeout, a refused or broken connection, a certificate that does not
\* verify, or a location that is no URL: httpx.HTTPError.
LoseExchange ==
  /\ exchange = "sent"
  /\ exchange' = "failed"
  /\ UNCHANGED <<request, hops, contacted>>

\* analyze() is cancelled while it awaits the response.
CancelGet ==
  /\ exchange' = IF exchange \in ActiveExchange THEN "cancelled" ELSE exchange
  /\ UNCHANGED <<request, hops, contacted>>

HttpStep ==
  \/ Send \/ Receive \/ LoseExchange
  \/ \E host \in Hosts : FollowRedirect(host)

-----------------------------------------------------------------------------
TypeOK ==
  /\ exchange \in {"idle"} \cup ActiveExchange \cup ExchangeEnds
  /\ hops \in 0..MaxRedirects
  /\ contacted # {} => exchange # "idle"

\* However a name is written and however far redirects lead, no request goes
\* to a blacklisted domain or a host below one, label for label.
NeverSpeaksToTelemetry ==
  \A host \in contacted, bad \in Blacklist : ~IsWithin(Normalized(host), bad)
=============================================================================
