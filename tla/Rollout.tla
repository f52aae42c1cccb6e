------------------------------ MODULE Rollout ------------------------------
(***************************************************************************)
(* The life of the server process behind its proxy, over replacements.     *)
(* The process starts in stages, serves, and drains when it is told to     *)
(* stop: it fails its readiness probe, waits for the proxy to notice,      *)
(* closes its listener, waits for the requests in flight, and exits.  The  *)
(* proxy probes at intervals, routes while the last probe passed, and      *)
(* holds a request for a while when there is nowhere to route it to.       *)
(* Whatever stops the process kills it when its patience ends, and starts  *)
(* the next one.                                                           *)
(*                                                                         *)
(* Time is counted in seconds by Tick, which waits for whatever is due.    *)
(***************************************************************************)
EXTENDS Naturals, FiniteSets

CONSTANTS
    DrainTime,          \* the sleep of main
    ShutdownTimeout,    \* the deadline main gives both servers
    KillAfter,          \* from SIGTERM to SIGKILL
    ProbeInterval,      \* of the proxy
    RetryDuration,      \* how long the proxy holds a request
    CheckTime,          \* bound on the checks of one probe
    StartupTime,        \* bound on the time before the servers listen
    Clients,            \* requests at a time
    MaxAge,             \* bound on the age that is counted of a request that is handled
    MaxStops, MaxCrashes, MaxOutages     \* bounds on what happens to the process

ASSUME TimesAssumption ==
    /\ {DrainTime, ShutdownTimeout, KillAfter, ProbeInterval, RetryDuration,
        CheckTime, StartupTime, MaxAge, MaxStops, MaxCrashes, MaxOutages} \subseteq Nat
    /\ DrainTime > 0 /\ ProbeInterval > CheckTime
    /\ KillAfter > DrainTime
    /\ MaxAge >= ShutdownTimeout

VARIABLES
    stage,              \* where main is
    since,              \* seconds in the start, the sleep or the shutdown
    proxy,              \* what the proxy knows, and its probe
    request,            \* where the request of each client is, and for how long
    count               \* stops, crashes and outages so far

vars == <<stage, since, proxy, request, count>>

Starting  == stage \in {"auth", "database", "migrations", "openapi"}
Listening == stage \in {"serving", "signalled", "draining"}
Draining  == stage \in {"draining", "shutdown", "metrics"}
Closing   == stage \in {"shutdown", "metrics"}

At(place) == {c \in Clients : request[c].at = place}

Init == /\ stage = "auth" /\ since = 0
        /\ proxy = [up |-> TRUE, clock |-> 0, checking |-> FALSE, age |-> 0]
        /\ request = [c \in Clients |-> [at |-> "none", age |-> 0]]
        /\ count = [stops |-> 0, crashes |-> 0, outages |-> 0]

-----------------------------------------------------------------------------
(***************************************************************************)
(* The process.                                                            *)
(***************************************************************************)
Goto(from, to) == /\ stage = from
                  /\ stage' = to
                  /\ UNCHANGED <<proxy, request, count>>

SetupAuthClient       == Goto("auth", "database") /\ UNCHANGED since
SetupDatabase         == Goto("database", "migrations") /\ UNCHANGED since
RunDatabaseMigrations == Goto("migrations", "openapi") /\ UNCHANGED since

\* The last file is read, the routes are set up, both servers listen.
SetupOpenAPIConfig    == Goto("openapi", "serving") /\ since' = 0

\* Mutant: the connections stay open.
GoneQuietly == stage' = "exited" /\ since' = 0 /\ UNCHANGED <<request, proxy>>

\* The connections of a process that is gone are closed: a request that was
\* handled gets no answer, and a probe fails.
Gone == /\ stage' = "exited" /\ since' = 0
        /\ request' = [c \in Clients |-> IF request[c].at = "app"
                                         THEN [request[c] EXCEPT !.at = "cut"] ELSE request[c]]
        /\ proxy' = [proxy EXCEPT !.up = @ /\ ~ proxy.checking, !.checking = FALSE, !.age = 0]

\* A stage of the start fails, or a server does not get its port.
Crash == /\ Starting \/ stage = "serving"
         /\ count.crashes < MaxCrashes
         /\ count' = [count EXCEPT !.crashes = @ + 1]
         /\ Gone

\* SIGTERM ends a process that has not yet asked to be notified of it.
Signal == /\ Starting \/ stage = "serving"
          /\ count.stops < MaxStops
          /\ count' = [count EXCEPT !.stops = @ + 1]
          /\ IF Starting THEN Gone
             ELSE stage' = "signalled" /\ UNCHANGED <<since, proxy, request>>

StartDraining == Goto("signalled", "draining") /\ since' = 0

\* The listener is closed.
Shutdown == since = DrainTime /\ Goto("draining", "shutdown") /\ since' = 0

\* Mutant: requests are not waited for.
AlwaysIdle == TRUE

Idle == At("app") = {} /\ ~ proxy.checking

MainServerStopped ==
    /\ Idle \/ since = ShutdownTimeout
    /\ Goto("shutdown", "metrics") /\ UNCHANGED since

\* Mutant: main does not return while the metrics server serves.
MetricsServerServes == stage = "metrics" /\ UNCHANGED vars

MetricsServerStopped == stage = "metrics" /\ Gone /\ UNCHANGED count

StopAge == IF stage = "draining" THEN since
           ELSE IF Closing THEN DrainTime + since ELSE 0

Kill == StopAge >= KillAfter /\ Gone /\ UNCHANGED count

Restart == Goto("exited", "auth") /\ since' = 0

-----------------------------------------------------------------------------
(***************************************************************************)
(* The readiness probe.  It looks at the flag first and then at the        *)
(* database and Firebase, so it can pass after draining has begun.         *)
(***************************************************************************)
\* Mutant: the flag is not looked at.
ProbeChecksOnly ==
    /\ proxy.clock = ProbeInterval
    /\ proxy' = [proxy EXCEPT !.clock = 0, !.checking = Listening, !.up = @ /\ Listening]
    /\ UNCHANGED <<stage, since, request, count>>

\* Mutant: the flag is read the wrong way round.
ProbeInverted ==
    LET looks == Listening /\ Draining
    IN  /\ proxy.clock = ProbeInterval
        /\ proxy' = [proxy EXCEPT !.clock = 0, !.checking = looks, !.up = @ /\ looks]
        /\ UNCHANGED <<stage, since, request, count>>

Probe ==
    LET looks == Listening /\ ~ Draining
    IN  /\ proxy.clock = ProbeInterval
        /\ proxy' = [proxy EXCEPT !.clock = 0, !.checking = looks, !.up = @ /\ looks]
        /\ UNCHANGED <<stage, since, request, count>>

Checked(up) == proxy' = [proxy EXCEPT !.up = up, !.checking = FALSE, !.age = 0]

ReadinessPasses == /\ proxy.checking
                   /\ Checked(TRUE)
                   /\ UNCHANGED <<stage, since, request, count>>

\* The database or Firebase does not answer in time.
ReadinessFails == /\ proxy.checking
                  /\ count.outages < MaxOutages
                  /\ count' = [count EXCEPT !.outages = @ + 1]
                  /\ Checked(FALSE)
                  /\ UNCHANGED <<stage, since, request>>

(***************************************************************************)
(* Requests.                                                               *)
(***************************************************************************)
Move(c, from, to) == /\ request[c].at \in from
                     /\ request' = [request EXCEPT ![c] = [at |-> to, age |-> 0]]
                     /\ UNCHANGED <<stage, since, proxy, count>>

Arrive(c) == Move(c, {"none", "answered"}, "proxy")

\* Where nobody listens the proxy is refused, and tries again.
CanForward == proxy.up /\ Listening

Forward(c) == CanForward /\ Move(c, {"proxy"}, "app")

\* Nothing ends a handler that does not return: the timeouts of the server are
\* those of its connections.
Handled(c) == Move(c, {"app"}, "answered")

GiveUp(c) == /\ request[c].age = RetryDuration
             /\ ~ CanForward
             /\ Move(c, {"proxy"}, "bad_gateway")

-----------------------------------------------------------------------------
\* Something has to happen before time goes on.
Due == \/ stage \in {"signalled", "metrics", "exited"}
       \/ Starting /\ since = StartupTime
       \/ stage = "draining" /\ since = DrainTime
       \/ stage = "shutdown" /\ (Idle \/ since = ShutdownTimeout)
       \/ StopAge >= KillAfter
       \/ proxy.clock = ProbeInterval
       \/ proxy.checking /\ proxy.age = CheckTime
       \/ CanForward /\ At("proxy") # {}
       \/ \E c \in At("proxy") : request[c].age = RetryDuration

\* The time a request has waited, or has been handled for.
Aged(q) == CASE q.at = "proxy" -> [q EXCEPT !.age = @ + 1]
             [] q.at = "app"   -> [q EXCEPT !.age = IF @ < MaxAge THEN @ + 1 ELSE @]
             [] OTHER          -> q

Tick ==
    /\ ~ Due
    /\ since' = IF stage = "serving" THEN 0 ELSE since + 1
    /\ proxy' = [proxy EXCEPT !.clock = @ + 1, !.age = IF proxy.checking THEN @ + 1 ELSE 0]
    /\ request' = [c \in Clients |-> Aged(request[c])]
    /\ UNCHANGED <<stage, count>>

Process == \/ SetupAuthClient \/ SetupDatabase \/ RunDatabaseMigrations \/ SetupOpenAPIConfig
           \/ StartDraining \/ Shutdown \/ MainServerStopped \/ MetricsServerStopped
           \/ Kill \/ Restart

Next == \/ Process \/ Crash \/ Signal
        \/ Probe \/ ReadinessPasses \/ ReadinessFails
        \/ \E c \in Clients : Arrive(c) \/ Forward(c) \/ Handled(c) \/ GiveUp(c)
        \/ Tick

\* Time passes; main, the probe and the proxy run when it is their turn.  A
\* handler need not end.
Fairness == /\ SF_vars(Tick) /\ WF_vars(Process)
            /\ WF_vars(Probe) /\ WF_vars(ReadinessPasses)
            /\ \A c \in Clients : WF_vars(Forward(c) \/ GiveUp(c))

Spec == Init /\ [][Next]_vars /\ Fairness
-----------------------------------------------------------------------------
\* A request is handled, and a probe checks, in a process that is there.
TypeOK ==
    /\ stage = "exited" \/ Starting => At("app") = {} /\ ~ proxy.checking
    /\ stage \in {"auth", "database", "migrations", "openapi", "serving", "signalled",
                  "draining", "shutdown", "metrics", "exited"}
    /\ since \in 0 .. (IF Starting THEN StartupTime
                      ELSE IF stage = "draining" THEN DrainTime
                      ELSE IF Closing THEN ShutdownTimeout ELSE 0)
    /\ proxy \in [up : BOOLEAN, clock : 0 .. ProbeInterval,
                  checking : BOOLEAN, age : 0 .. CheckTime]
    /\ \A c \in Clients :
           \/ request[c].at \in {"none", "answered", "bad_gateway"} /\ request[c].age = 0
           \/ request[c].at = "proxy" /\ request[c].age \in 0 .. RetryDuration
           \/ request[c].at \in {"app", "cut"} /\ request[c].age \in 0 .. MaxAge
    /\ count \in [stops : 0 .. MaxStops, crashes : 0 .. MaxCrashes, outages : 0 .. MaxOutages]

(***************************************************************************)
(* "shutting down gracefully" (main.go:229): a request that is cut off had *)
(* all the time that main, or whoever kills the process, gives to those in *)
(* flight (main.go:236); only a crash is sudden.                           *)
(***************************************************************************)
GraceIsGiven ==
    count.crashes = 0 =>
        \A c \in At("cut") : \/ request[c].age >= ShutdownTimeout
                            \/ request[c].age >= KillAfter - DrainTime

(***************************************************************************)
(* "Waiting for load balancer to drain" (main.go:233): a second after the  *)
(* listener is closed, the proxy does not route to it any more, also when  *)
(* the probe before had looked at the flag just too early (health.go:27).  *)
(***************************************************************************)
ClosedServerIsLeft == Closing /\ since > 0 => ~ proxy.up

(***************************************************************************)
(* A process that is told to stop does, even while a request never ends    *)
(* that it waits for (main.go:236), and its successor is found ready       *)
(* (main.go:228-247, site.caddy:7).                                        *)
(***************************************************************************)
Stops == stage = "signalled" ~> stage = "exited"

ReadyInTheEnd == <>[](stage = "serving" /\ proxy.up)
=============================================================================
