--------------------------- MODULE NetworkCapture ---------------------------
(***************************************************************************)
(* Network capture by the engine: handle_request, handle_response and      *)
(* handle_request_failed (camoufox_investigator.py), each a coroutine that *)
(* the driver's events start and that waits once for the browser, so that  *)
(* the handlers of one request, and of several to one URL, interleave.     *)
(*                                                                         *)
(* Requests are of a captured resource type and not OPTIONS.  An endpoint  *)
(* key, (method, path) in the code, is a URL here.                         *)
(***************************************************************************)
EXTENDS ResponsePairing

CONSTANTS
    Requests,   \* the requests the browser may make
    Urls,       \* what they may ask for
    Scoped,     \* the URLs inside the engagement scope
    Noisy,      \* the URLs that match NOISY_ENDPOINTS
    NoUrl       \* the URL of a request that was not made

ASSUME UrlAssumption == Scoped \subseteq Urls /\ Noisy \subseteq Urls /\ NoUrl \notin Urls

VARIABLES
    url,            \* what each request asks for
    answer,         \* what the browser has told of it
    requestTask,    \* where handle_request waits, or how it ended
    responseTask,   \* where handle_response waits, or how it ended
    endpoints,      \* the keys of the engine's endpoints
    httpRequests,   \* _http_requests
    log,            \* the events emitted about each URL, in order
    open            \* the session has not been exported

vars == <<url, answer, requestTask, responseTask, endpoints, httpRequests, log, open>>

Kinds == {"request", "response", "withheld", "dropped", "bodyGap", "failed"}
Event == [kind : Kinds, req : Requests, body : BOOLEAN]

TypeOK ==
    /\ url \in [Requests -> Urls \cup {NoUrl}]
    /\ answer \in [Requests -> {"none", "sent", "answered", "failed"}]
    /\ requestTask \in [Requests -> {"none", "headers", "done", "raised"}]
    /\ responseTask \in [Requests -> {"none", "body", "done"}]
    /\ endpoints \subseteq Urls
    /\ httpRequests \in Nat
    /\ log \in [Urls -> Seq(Event)]
    /\ open \in BOOLEAN

Init ==
    /\ url = [r \in Requests |-> NoUrl]
    /\ answer = [r \in Requests |-> "none"]
    /\ requestTask = [r \in Requests |-> "none"]
    /\ responseTask = [r \in Requests |-> "none"]
    /\ endpoints = {} /\ httpRequests = 0
    /\ log = [u \in Urls |-> <<>>] /\ open = TRUE

EventFor(r, kind, body) == [kind |-> kind, req |-> r, body |-> body]
EmitAll(u, events) == log' = [log EXCEPT ![u] = @ \o events]
Emit(r, kind) == EmitAll(url[r], <<EventFor(r, kind, FALSE)>>)

-----------------------------------------------------------------------------
(* The browser makes a request.  handle_request withholds what is out of   *)
(* scope and drops what is noisy at once; otherwise it asks for the        *)
(* headers.                                                                *)
Request(r, u) ==
    /\ open /\ answer[r] = "none"
    /\ url' = [url EXCEPT ![r] = u]
    /\ answer' = [answer EXCEPT ![r] = "sent"]
    /\ \/ /\ u \notin Scoped
          /\ EmitAll(u, <<EventFor(r, "withheld", FALSE)>>)
          /\ requestTask' = [requestTask EXCEPT ![r] = "done"]
       \/ /\ u \in Scoped \cap Noisy
          /\ EmitAll(u, <<EventFor(r, "dropped", FALSE)>>)
          /\ requestTask' = [requestTask EXCEPT ![r] = "done"]
       \/ /\ u \in Scoped \ Noisy
          /\ requestTask' = [requestTask EXCEPT ![r] = "headers"]
          /\ UNCHANGED log
    /\ UNCHANGED <<responseTask, endpoints, httpRequests, open>>

(* Mutants of HeadersRead: the endpoint is not registered; a known endpoint*)
(* is not recorded again.                                                  *)
HeadersReadUnregistered(r) ==
    /\ open /\ requestTask[r] = "headers"
    /\ requestTask' = [requestTask EXCEPT ![r] = "done"]
    /\ httpRequests' = httpRequests + 1
    /\ Emit(r, "request")
    /\ UNCHANGED <<url, answer, responseTask, endpoints, open>>
HeadersReadOnce(r) ==
    /\ open /\ requestTask[r] = "headers"
    /\ requestTask' = [requestTask EXCEPT ![r] = "done"]
    /\ endpoints' = endpoints \cup {url[r]}
    /\ IF url[r] \in endpoints THEN UNCHANGED <<httpRequests, log>>
       ELSE httpRequests' = httpRequests + 1 /\ Emit(r, "request")
    /\ UNCHANGED <<url, answer, responseTask, open>>

(* all_headers answers: the endpoint is registered and the request counted *)
(* and recorded.                                                           *)
HeadersRead(r) ==
    /\ open /\ requestTask[r] = "headers"
    /\ requestTask' = [requestTask EXCEPT ![r] = "done"]
    /\ endpoints' = endpoints \cup {url[r]}
    /\ httpRequests' = httpRequests + 1
    /\ Emit(r, "request")
    /\ UNCHANGED <<url, answer, responseTask, open>>

(* all_headers raises, the page being gone: the coroutine ends there, and  *)
(* nothing is recorded.                                                    *)
HeadersRaise(r) ==
    /\ open /\ requestTask[r] = "headers"
    /\ requestTask' = [requestTask EXCEPT ![r] = "raised"]
    /\ UNCHANGED <<url, answer, responseTask, endpoints, httpRequests, log, open>>

-----------------------------------------------------------------------------
(* Mutant of Respond: the body is read whatever the scope.                 *)
RespondAnyScope(r) ==
    /\ open /\ answer[r] = "sent"
    /\ answer' = [answer EXCEPT ![r] = "answered"]
    /\ responseTask' = [responseTask EXCEPT ![r] = "body"]
    /\ UNCHANGED <<url, requestTask, endpoints, httpRequests, log, open>>

(* The response arrives: its status alone is recorded out of scope, its    *)
(* body is asked for otherwise, also when the request was dropped as noise *)
(* or is still being recorded.                                             *)
Respond(r) ==
    /\ open /\ answer[r] = "sent"
    /\ answer' = [answer EXCEPT ![r] = "answered"]
    /\ IF url[r] \in Scoped
       THEN responseTask' = [responseTask EXCEPT ![r] = "body"] /\ UNCHANGED log
       ELSE responseTask' = [responseTask EXCEPT ![r] = "done"] /\ Emit(r, "withheld")
    /\ UNCHANGED <<url, requestTask, endpoints, httpRequests, open>>

(* response.text() answers.  Keeping a sample of it looks the endpoint up: *)
(* one that is not registered raises, which is recorded as a body that     *)
(* could not be had, and then the response is recorded with its body.      *)
BodyRead(r) ==
    /\ open /\ responseTask[r] = "body"
    /\ responseTask' = [responseTask EXCEPT ![r] = "done"]
    /\ LET gap  == IF url[r] \in endpoints THEN <<>>
                   ELSE <<EventFor(r, "bodyGap", FALSE)>>
       IN  EmitAll(url[r], gap \o <<EventFor(r, "response", TRUE)>>)
    /\ UNCHANGED <<url, answer, requestTask, endpoints, httpRequests, open>>

(* Mutant of BodyRaises: nothing but the gap is recorded.                  *)
BodyRaisesGapOnly(r) ==
    /\ open /\ responseTask[r] = "body"
    /\ responseTask' = [responseTask EXCEPT ![r] = "done"]
    /\ Emit(r, "bodyGap")
    /\ UNCHANGED <<url, answer, requestTask, endpoints, httpRequests, open>>

(* response.text() raises: a redirect, an evicted body, a page gone.       *)
BodyRaises(r) ==
    /\ open /\ responseTask[r] = "body"
    /\ responseTask' = [responseTask EXCEPT ![r] = "done"]
    /\ EmitAll(url[r], <<EventFor(r, "bodyGap", FALSE), EventFor(r, "response", FALSE)>>)
    /\ UNCHANGED <<url, answer, requestTask, endpoints, httpRequests, open>>

(* The request fails, before or after its response has begun.              *)
Fail(r) ==
    /\ open /\ answer[r] \in {"sent", "answered"}
    /\ answer' = [answer EXCEPT ![r] = "failed"]
    /\ IF url[r] \in Scoped THEN Emit(r, "failed") ELSE UNCHANGED log
    /\ UNCHANGED <<url, requestTask, responseTask, endpoints, httpRequests, open>>

(* The session is exported and the log closed; coroutines still waiting    *)
(* are dropped with the event loop.                                        *)
Export ==
    /\ open /\ open' = FALSE
    /\ UNCHANGED <<url, answer, requestTask, responseTask, endpoints, httpRequests, log>>

Handler(r) == HeadersRead(r) \/ HeadersRaise(r) \/ BodyRead(r) \/ BodyRaises(r)

Next ==
    \/ \E r \in Requests :
        \/ \E u \in Urls : Request(r, u)
        \/ Respond(r) \/ Fail(r)
        \/ Handler(r)
    \/ Export

Spec == Init /\ [][Next]_vars

(* The event loop runs every handler whose answer has come.                *)
FairSpec == Spec /\ \A r \in Requests : WF_vars(Handler(r))

-----------------------------------------------------------------------------
Made == {r \in Requests : url[r] # NoUrl}
About(r, kind) ==
    IF r \notin Made THEN {}
    ELSE {i \in DOMAIN log[url[r]] : log[url[r]][i].req = r /\ log[url[r]][i].kind = kind}

(* Nothing about an out-of-scope request is recorded but that it was       *)
(* withheld: none of the three handlers reads it, whatever comes first     *)
(* (handle_request 822-832, handle_response 904-921, failed 978-979).      *)
OutOfScopeWithheld ==
    \A u \in Urls \ Scoped : \A i \in DOMAIN log[u] : log[u][i].kind = "withheld"

(* network_events, the number the manifest, the checkpoints and the end of *)
(* the session report, is the number of requests the log holds, whichever  *)
(* coroutines are under way.                                               *)
TallyMatchesLog ==
    httpRequests = Cardinality(UNION {{u} \X RequestEvents(log[u]) : u \in Urls})

(* A request the browser made is missing from the log only while its       *)
(* headers are being read, or because reading them raised; otherwise it is *)
(* there, and recorded or dropped at most once, never both.                *)
RequestAccounted ==
    \A r \in Made :
        /\ Cardinality(About(r, "request") \cup About(r, "dropped")) <= 1
        /\ About(r, "request") \cup About(r, "dropped") \cup About(r, "withheld") = {}
                => requestTask[r] \in {"headers", "raised"}

(* A response the log holds with its body can also be reported as having   *)
(* none, but only where it overtook every request of its endpoint (lines   *)
(* 938-956): once an endpoint is known, the gap means that the body was    *)
(* not read.                                                               *)
FalseGapOnlyUnregistered ==
    \A r \in Made : \A i \in About(r, "response"), j \in About(r, "bodyGap") :
        log[url[r]][i].body => \A k \in RequestEvents(log[url[r]]) : k > j

(* The analysis counts each response of a URL that has a recorded request  *)
(* for exactly one request, however requests, failures and responses came  *)
(* to be ordered in the log (endpoints.py:80-82 and 136-142).              *)
EachResponseOnce ==
    \A u \in Urls : RequestEvents(log[u]) # {} =>
        \A j \in ResponseEvents(log[u]) :
            Cardinality({i \in RequestEvents(log[u]) : j \in Statuses(log[u], i)}) = 1

(* A response whose body was asked for is recorded, or the session ends.   *)
ResponseRecorded ==
    \A r \in Requests :
        responseTask[r] = "body" ~> (~open \/ About(r, "response") # {})

(* The claim of endpoints.py:88-89: the statuses recorded across all       *)
(* endpoints total the number of responses actually observed.              *)
StatusesConserved ==
    ~open => \A u \in Urls : Attributed(log[u]) = ResponseEvents(log[u])
=============================================================================
