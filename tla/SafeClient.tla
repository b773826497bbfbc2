----------------------------- MODULE SafeClient -----------------------------
(***************************************************************************)
(* SafeClient (sources/http_client.py), the one way out of the process: a  *)
(* guarded GET with a minimum interval between requests, bounded retries   *)
(* of transport errors, refused redirects, and no cookies kept.  Calls of  *)
(* one client are sequential.  The server is external: it answers with any *)
(* kind of reply, and may set a cookie.                                    *)
(***************************************************************************)
EXTENDS Integers

CONSTANTS
    Urls,        \* the request URLs of this model
    Allowed,     \* those that assert_safe_request lets through
    MinInterval, \* _min_interval_s, in ticks; 0 disables the wait
    MaxAttempts, \* _max_attempts
    MaxCalls,    \* bound: calls of get
    Kinds        \* the kinds of reply the server gives

AllKinds == {"ok", "oversized", "rateLimited", "rateLimitedUntilDate", "redirect",
             "badStatus", "transportError", "undecodable"}

ASSUME ClientAssumption ==
    /\ Allowed \subseteq Urls
    /\ MinInterval \in Nat /\ MaxAttempts \in Nat \ {0} /\ MaxCalls \in Nat
    /\ Kinds \subseteq AllKinds

VARIABLES
    stage,    \* where get is: "idle", "pace", "wire", "read", "backoff"
    url,      \* the URL of the call
    attempt,  \* attempt number of the call, from 1
    reply,    \* the reply being read: its kind and where a redirect points
    jar,      \* the client holds a cookie
    elapsed,  \* ticks since _last_request_at, up to MinInterval
    calls,    \* calls made
    outcome,  \* how the last call ended
    sent      \* history: the kinds of request that left the process

clientVars == <<stage, url, attempt, reply, jar, elapsed, calls, outcome, sent>>

Outcomes == {"none", "response", "SafetyViolationError", "RateLimited", "FetchError",
             "HTTPStatusError", "ValueError", "DecodingError"}

Replies == [kind : Kinds, location : Urls]

ClientInit ==
    /\ stage = "idle" /\ url \in Urls /\ reply \in Replies
    /\ attempt = 0 /\ jar = FALSE /\ calls = 0
    /\ elapsed \in 0..MinInterval /\ outcome = "none" /\ sent = {}

\* A request leaves the process: what it asks for, how long after the
\* previous one, with a cookie or not.
Dispatch(u, gap) == sent' = sent \cup {[url |-> u, gap |-> gap, cookie |-> jar]}

\* Time passes while a request is out or the client waits.
Tick ==
    /\ elapsed < MinInterval
    /\ elapsed' = elapsed + 1
    /\ UNCHANGED <<stage, url, attempt, reply, jar, calls, outcome, sent>>

\* get: the guard runs on the exact URL that is fetched, before any I/O.
Get(u) ==
    /\ stage = "idle" /\ calls < MaxCalls
    /\ calls' = calls + 1 /\ url' = u /\ attempt' = 1
    /\ IF u \in Allowed
         THEN stage' = "pace" /\ outcome' = "none"
         ELSE stage' = "idle" /\ outcome' = "SafetyViolationError"
    /\ UNCHANGED <<reply, jar, elapsed, sent>>

\* Mutant: a retry goes out without the wait of _respect_min_interval.
SendUnpaced ==
    /\ stage = "pace"
    /\ attempt = 1 => elapsed >= MinInterval
    /\ Dispatch(url, elapsed)
    /\ elapsed' = 0 /\ stage' = "wire"
    /\ UNCHANGED <<url, attempt, reply, jar, calls, outcome>>

\* _do_get up to the wire: wait out the minimum interval, stamp
\* _last_request_at, open the stream.
Send ==
    /\ stage = "pace"
    /\ elapsed >= MinInterval
    /\ Dispatch(url, elapsed)
    /\ elapsed' = 0 /\ stage' = "wire"
    /\ UNCHANGED <<url, attempt, reply, jar, calls, outcome>>

\* The server answers, or the transport fails (a timeout at the latest);
\* httpx keeps a cookie as soon as the headers are in.
Answer(r) ==
    /\ stage = "wire"
    /\ reply' = r /\ jar' \in {jar, TRUE}
    /\ stage' = "read"
    /\ UNCHANGED <<url, attempt, elapsed, calls, outcome, sent>>

\* Mutant: the cookies are cleared on the success path only.
ClearOnSuccess == jar' = (jar /\ reply.kind # "ok")

\* The finally of _do_get: no cookie survives the attempt, however it ends.
ClearCookies == jar' = FALSE

\* get ends with this outcome.
Finish(o) ==
    /\ outcome' = o /\ stage' = "idle"
    /\ UNCHANGED attempt

Reading(kinds) == stage = "read" /\ reply.kind \in kinds

Unchanged == UNCHANGED <<url, reply, elapsed, calls, sent>>

Deliver == Reading({"ok"}) /\ Finish("response") /\ ClearCookies /\ Unchanged

\* _read_capped: the body passes max_bytes while it is streamed.
StopOversized ==
    Reading({"oversized"}) /\ Finish("FetchError") /\ ClearCookies /\ Unchanged

\* Mutant: 429 is retried like a transport error.
RetryRateLimited ==
    /\ Reading({"rateLimited"})
    /\ stage' = "backoff" /\ attempt' = attempt + 1
    /\ UNCHANGED outcome /\ ClearCookies /\ Unchanged

SurfaceRateLimit ==
    Reading({"rateLimited"}) /\ Finish("RateLimited") /\ ClearCookies /\ Unchanged

\* Retry-After as an HTTP date: float() raises before RateLimited is built.
FailOnDate ==
    Reading({"rateLimitedUntilDate"}) /\ Finish("ValueError") /\ ClearCookies /\ Unchanged

RefuseRedirect ==
    Reading({"redirect"}) /\ Finish("FetchError") /\ ClearCookies /\ Unchanged

FailOnStatus ==
    Reading({"badStatus"}) /\ Finish("HTTPStatusError") /\ ClearCookies /\ Unchanged

\* A body httpx cannot decode raises DecodingError, no TransportError: it is
\* neither retried nor turned into a FetchError.
FailUndecodable ==
    Reading({"undecodable"}) /\ Finish("DecodingError") /\ ClearCookies /\ Unchanged

\* Mutant: the attempt budget is not looked at.
RetryForever ==
    /\ Reading({"transportError"})
    /\ stage' = "backoff" /\ attempt' = (attempt % MaxAttempts) + 1
    /\ UNCHANGED outcome /\ ClearCookies /\ Unchanged

\* Mutant: one retry too many.
RetryOnceMore ==
    /\ Reading({"transportError"}) /\ attempt <= MaxAttempts
    /\ stage' = "backoff" /\ attempt' = attempt + 1
    /\ UNCHANGED outcome /\ ClearCookies /\ Unchanged

Retry ==
    /\ Reading({"transportError"}) /\ attempt < MaxAttempts
    /\ stage' = "backoff" /\ attempt' = attempt + 1
    /\ UNCHANGED outcome /\ ClearCookies /\ Unchanged

GiveUp ==
    /\ Reading({"transportError"}) /\ attempt >= MaxAttempts
    /\ Finish("FetchError") /\ ClearCookies /\ Unchanged

\* The exponential back-off is over.
Resume ==
    /\ stage = "backoff" /\ stage' = "pace"
    /\ UNCHANGED <<url, attempt, reply, jar, elapsed, calls, outcome, sent>>

Handle ==
    \/ Deliver \/ StopOversized \/ SurfaceRateLimit \/ FailOnDate
    \/ RefuseRedirect \/ FailOnStatus \/ FailUndecodable \/ Retry \/ GiveUp

ClientWork == Send \/ Handle \/ Resume \/ \E r \in Replies : Answer(r)

ClientNext == Tick \/ ClientWork \/ \E u \in Urls : Get(u)

ClientSpec == ClientInit /\ [][ClientNext]_clientVars

\* The client runs, time passes, and httpx's timeout ends every exchange.
ClientFairSpec == ClientSpec /\ WF_clientVars(Tick) /\ WF_clientVars(ClientWork)

-----------------------------------------------------------------------------
(* Properties.                                                             *)

Exchange == [url : Urls, gap : 0..MinInterval, cookie : BOOLEAN]

\* Every variable has its type; no call goes past its attempts.
ClientTypeOK ==
    /\ stage \in {"idle", "pace", "wire", "read", "backoff"}
    /\ url \in Urls /\ reply \in Replies
    /\ attempt \in 0..MaxAttempts /\ calls \in 0..MaxCalls
    /\ jar \in BOOLEAN /\ elapsed \in 0..MinInterval
    /\ outcome \in Outcomes /\ sent \subseteq Exchange

\* "a disallowed host/method never leaves the process" (http_client.py:5-6):
\* not even where a redirect points.
OnlyAllowedLeaves == \A x \in sent : x.url \in Allowed

\* "keeps no cookie jar across requests" (http_client.py:8-9): not to the next
\* call, and not to a retry after an exchange that failed half way.
NoCookieLeaves == \A x \in sent : ~x.cookie

\* The safety boundary: nothing leaves the process but guarded requests
\* without a cookie, through redirects, retries and failures.
NothingLeaks == OnlyAllowedLeaves /\ NoCookieLeaves

\* "enforces a conservative per-call minimum interval" (http_client.py:13),
\* between the attempts of one call as well as between calls.
Polite == \A x \in sent : x.gap >= MinInterval

\* "surfaces HTTP 429 rather than hammering past it, and retries only
\* transient transport errors" (http_client.py:11-12): another attempt follows
\* a transport error and nothing else, and is the next one in number.
RetriesOnlyTransport ==
    [][attempt' > 1 /\ attempt' # attempt =>
           attempt' = attempt + 1 /\ reply.kind = "transportError"]_clientVars

\* A call that a server answers, refuses or keeps failing comes to an end.
CallsEnd == (stage # "idle") ~> (stage = "idle")

=============================================================================
