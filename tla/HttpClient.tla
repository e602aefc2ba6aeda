----------------------------- MODULE HttpClient -----------------------------
(***************************************************************************)
(* The interceptors of DioHttpClient: DioAuthInterceptor puts a token on a *)
(* request, DioTokenRefreshInterceptor handles errors one at a time (dio's *)
(* QueuedInterceptor holds the next error back until the handler of the    *)
(* one before it has finished) and refreshes the token on a 401, and       *)
(* DioRetryInterceptor sends a request again through the same chain, so    *)
(* that its handlers nest.                                                 *)
(*                                                                         *)
(* Tokens are numbered as the server issues them.                          *)
(***************************************************************************)
EXTENDS Naturals, FiniteSets, Sequences, SequencesExt

CONSTANTS
  Calls,           \* the requests of the application
  MaxAttempts,     \* RetryPolicy, and below its safety limit of 10
  MaxExpiries,     \* bound on how often the server expires its tokens
  Delegates        \* what the refresh delegate may send its request with

\* The error of a refresh request that the delegate sent through the client.
RefreshError == "refresh error"

ASSUME HttpAssumption ==
  /\ IsFiniteSet(Calls) /\ RefreshError \notin Calls
  /\ MaxAttempts \in 1..10
  /\ MaxExpiries \in Nat
  /\ Delegates \subseteq {"own connection", "this client"}

VARIABLES
  call,         \* each request, on its way through the chain
  errorQueue,   \* the errors that wait for the refresh interceptor
  savedToken,   \* the TokenStore: the last token the server issued
  expired,      \* the last token that has expired
  delegate,     \* how the refresh delegate sends its request
  loggedOut,    \* whether onForceLogout was called
  sends         \* how often each request was sent through the chain

httpVars ==
  <<call, errorQueue, savedToken, expired, delegate, loggedOut, sends>>

-----------------------------------------------------------------------------
\* attempt and refreshed are the extras of the RequestOptions, frames the
\* attempts of the retry handlers that wait for the request, from the outside.
CallRecord ==
  [pc : {"idle", "sent", "queued", "refreshing", "refreshed", "resent",
         "retry", "ok", "error"},
   token : Nat, attempt : 0..MaxAttempts, refreshed : BOOLEAN,
   code : {"none", "401", "500", "other"}, frames : Seq(Nat)]

NewCall == [pc |-> "idle", token |-> 0, attempt |-> 0, refreshed |-> FALSE,
            code |-> "none", frames |-> <<>>]

HttpInit ==
  /\ call = [c \in Calls |-> NewCall]
  /\ errorQueue = <<>>
  /\ savedToken = 1 /\ expired = 0
  /\ delegate \in Delegates
  /\ loggedOut = FALSE
  /\ sends = [c \in Calls |-> 0]

\* An error leaves the chain: the innermost retry handler catches it, or the
\* application does.
Thrown(r, code) ==
  [r EXCEPT !.code = code,
            !.pc = IF r.frames = <<>> THEN "error" ELSE "retry"]

-----------------------------------------------------------------------------
(* Requests and the server *)

\* DioAuthInterceptor reads the store; a retried request keeps its header.
SendCall(c) ==
  /\ call[c].pc = "idle"
  /\ call' = [call EXCEPT ![c].pc = "sent", ![c].token = savedToken]
  /\ sends' = [sends EXCEPT ![c] = @ + 1]
  /\ UNCHANGED <<errorQueue, savedToken, expired, delegate, loggedOut>>

Expire ==
  /\ expired < savedToken /\ savedToken <= MaxExpiries
  /\ expired' = savedToken
  /\ UNCHANGED <<call, errorQueue, savedToken, delegate, loggedOut, sends>>

Valid(token) == token > expired

\* A response goes back through all chains the request is nested in.
Succeed(c) ==
  /\ call[c].pc = "sent" /\ Valid(call[c].token)
  /\ call' = [call EXCEPT ![c].pc = "ok"]
  /\ UNCHANGED <<errorQueue, savedToken, expired, delegate, loggedOut, sends>>

\* Any error waits for its turn with the refresh interceptor.
Fail(c) ==
  /\ call[c].pc = "sent"
  /\ \E code \in {"401", "500"} :
       /\ code = "401" => ~Valid(call[c].token)
       /\ call' = [call EXCEPT ![c].pc = "queued", ![c].code = code]
  /\ errorQueue' = Append(errorQueue, c)
  /\ UNCHANGED <<savedToken, expired, delegate, loggedOut, sends>>

-----------------------------------------------------------------------------
(* DioTokenRefreshInterceptor *)

Handles(c, pc) ==
  errorQueue # <<>> /\ Head(errorQueue) = c /\ call[c].pc = pc

\* a plausible mistake: every handler starts to count from zero
PassOnAfresh(c) ==
  /\ Handles(c, "queued")
  /\ call[c].code # "401"
  /\ call' = [call EXCEPT ![c].pc = "retry", ![c].frames = Append(@, 0)]
  /\ errorQueue' = Tail(errorQueue)
  /\ UNCHANGED <<savedToken, expired, delegate, loggedOut, sends>>

\* Other errors go on to the retry handler of the request.
PassOn(c) ==
  /\ Handles(c, "queued")
  /\ call[c].code # "401"
  /\ call' = [call EXCEPT ![c].pc = "retry",
                          ![c].frames = Append(@, call[c].attempt)]
  /\ errorQueue' = Tail(errorQueue)
  /\ UNCHANGED <<savedToken, expired, delegate, loggedOut, sends>>

\* A request that was refreshed before is not refreshed again.
RefuseAgain(c) ==
  /\ Handles(c, "queued")
  /\ call[c].code = "401" /\ call[c].refreshed
  /\ loggedOut' = TRUE
  /\ call' = [call EXCEPT ![c] = Thrown(@, "401")]
  /\ errorQueue' = Tail(errorQueue)
  /\ UNCHANGED <<savedToken, expired, delegate, sends>>

\* _refreshTokens asks the delegate; the queue leaves no refresh to join.
BeginRefresh(c) ==
  /\ Handles(c, "queued")
  /\ call[c].code = "401" /\ ~call[c].refreshed
  /\ call' = [call EXCEPT ![c].pc = "refreshing"]
  /\ UNCHANGED <<errorQueue, savedToken, expired, delegate, loggedOut, sends>>

\* The server issues a new pair, which is saved before the request goes on.
Refresh(c) ==
  /\ Handles(c, "refreshing")
  /\ RefreshError \notin ToSet(errorQueue)
  /\ savedToken' = savedToken + 1
  /\ call' = [call EXCEPT ![c].pc = "refreshed"]
  /\ UNCHANGED <<errorQueue, expired, delegate, loggedOut, sends>>

\* The delegate returns no pair.
RefreshRefused(c) ==
  /\ Handles(c, "refreshing")
  /\ delegate = "own connection"
  /\ loggedOut' = TRUE
  /\ call' = [call EXCEPT ![c] = Thrown(@, "401")]
  /\ errorQueue' = Tail(errorQueue)
  /\ UNCHANGED <<savedToken, expired, delegate, sends>>

\* The delegate throws, an error that is no 401 of dio.
RefreshThrows(c) ==
  /\ Handles(c, "refreshing")
  /\ delegate = "own connection"
  /\ call' = [call EXCEPT ![c] = Thrown(@, "other")]
  /\ errorQueue' = Tail(errorQueue)
  /\ UNCHANGED <<savedToken, expired, delegate, loggedOut, sends>>

\* The refresh request itself fails inside the client: its error waits for
\* the refresh interceptor like any other.
RefreshFailsInClient(c) ==
  /\ Handles(c, "refreshing")
  /\ delegate = "this client"
  /\ RefreshError \notin ToSet(errorQueue)
  /\ errorQueue' = Append(errorQueue, RefreshError)
  /\ UNCHANGED <<call, savedToken, expired, delegate, loggedOut, sends>>

\* _retryRequest sends the request with a client that has no interceptors.
Resend(c) ==
  /\ Handles(c, "refreshed")
  /\ call' = [call EXCEPT ![c].pc = "resent", ![c].refreshed = TRUE,
                          ![c].token = savedToken]
  /\ UNCHANGED <<errorQueue, savedToken, expired, delegate, loggedOut, sends>>

ResendSucceeds(c) ==
  /\ Handles(c, "resent") /\ Valid(call[c].token)
  /\ call' = [call EXCEPT ![c].pc = "ok"]
  /\ errorQueue' = Tail(errorQueue)
  /\ UNCHANGED <<savedToken, expired, delegate, loggedOut, sends>>

\* a plausible mistake: the queue is not told that the error was handled
ResendFailsSilently(c) ==
  /\ Handles(c, "resent")
  /\ \E code \in {"401", "500"} :
       /\ code = "401" => ~Valid(call[c].token)
       /\ loggedOut' = (loggedOut \/ code = "401")
       /\ call' = [call EXCEPT ![c] = Thrown(@, code)]
  /\ UNCHANGED <<errorQueue, savedToken, expired, delegate, sends>>

\* reject: the retry interceptor of this chain is skipped.
ResendFails(c) ==
  /\ Handles(c, "resent")
  /\ \E code \in {"401", "500"} :
       /\ code = "401" => ~Valid(call[c].token)
       /\ loggedOut' = (loggedOut \/ code = "401")
       /\ call' = [call EXCEPT ![c] = Thrown(@, code)]
  /\ errorQueue' = Tail(errorQueue)
  /\ UNCHANGED <<savedToken, expired, delegate, sends>>

-----------------------------------------------------------------------------
(* DioRetryInterceptor *)

\* shouldRetry of the policies: server errors, up to the limit.
ShouldRetry(r) == r.code = "500" /\ Last(r.frames) + 1 < MaxAttempts

\* The handler goes through the whole chain again, with its attempt in the
\* extras of the request.
Retry(c) ==
  /\ call[c].pc = "retry" /\ ShouldRetry(call[c])
  /\ LET attempt == Last(call[c].frames) + 1
     IN  call' = [call EXCEPT ![c].pc = "sent", ![c].attempt = attempt,
                              ![c].frames = Append(Front(@), attempt)]
  /\ sends' = [sends EXCEPT ![c] = @ + 1]
  /\ UNCHANGED <<errorQueue, savedToken, expired, delegate, loggedOut>>

\* The handler gives up: its request has failed, and the handler that sent
\* it catches the error.
GiveUp(c) ==
  /\ call[c].pc = "retry" /\ ~ShouldRetry(call[c])
  /\ call' = [call EXCEPT ![c] =
                Thrown([call[c] EXCEPT !.frames = Front(@)], call[c].code)]
  /\ UNCHANGED <<errorQueue, savedToken, expired, delegate, loggedOut, sends>>

-----------------------------------------------------------------------------
CallStep(c) ==
  \/ SendCall(c) \/ Succeed(c) \/ Fail(c)
  \/ PassOn(c) \/ RefuseAgain(c) \/ BeginRefresh(c)
  \/ Refresh(c) \/ RefreshRefused(c) \/ RefreshThrows(c)
  \/ RefreshFailsInClient(c)
  \/ Resend(c) \/ ResendSucceeds(c) \/ ResendFails(c)
  \/ Retry(c) \/ GiveUp(c)

HttpNext == Expire \/ \E c \in Calls : CallStep(c)

HttpSpec == HttpInit /\ [][HttpNext]_httpVars

\* The server answers, timers fire, and dio's queue goes on; nothing makes
\* the application send a request or the server expire a token.
HttpFairness ==
  \A c \in Calls : WF_httpVars(CallStep(c) /\ call[c].pc # "idle")

HttpFairSpec == HttpSpec /\ HttpFairness

-----------------------------------------------------------------------------
(* Properties *)

Ended(c) == call[c].pc \in {"ok", "error"}

\* The state of the requests, the interceptors and the store; no handler gets
\* past the limit of the policy.
HttpTypeOK ==
  /\ call \in [Calls -> CallRecord]
  /\ errorQueue \in Seq(Calls \cup {RefreshError})
  /\ savedToken \in Nat \ {0} /\ expired \in Nat
  /\ delegate \in Delegates
  /\ loggedOut \in BOOLEAN
  /\ sends \in [Calls -> Nat]

\* Handlers nest: a request that always fails is sent again by the handler of
\* every attempt.  It ends all the same, after a number of requests that
\* depends on the policy alone, whatever is refreshed in between.
NestedRetriesBounded ==
  \A c \in Calls :
    /\ sends[c] <= 2 ^ (MaxAttempts - 1)
    /\ Len(call[c].frames) < MaxAttempts + 1

\* A request that waits for the refresh interceptor waits in its queue, and
\* only the head of the queue is being handled: no error is forgotten, none
\* is handled twice.
QueueHoldsErrors ==
  \A c \in Calls :
    LET places == {i \in DOMAIN errorQueue : errorQueue[i] = c}
    IN  /\ Cardinality(places) =
              IF call[c].pc \in {"queued", "refreshing", "refreshed", "resent"}
              THEN 1 ELSE 0
        /\ call[c].pc \in {"refreshing", "refreshed", "resent"} =>
             Head(errorQueue) = c

\* Every request of the application ends, if the delegate has a connection of
\* its own: the queue of errors always moves on.
UnderWay(c) == call[c].pc = "sent" /\ delegate = "own connection"

RequestsSettle == \A c \in Calls : UnderWay(c) ~> Ended(c)

=============================================================================
