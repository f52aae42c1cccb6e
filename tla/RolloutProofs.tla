--------------------------- MODULE RolloutProofs ---------------------------
(***************************************************************************)
(* Safety of a replacement, for all times, and any number of clients and   *)
(* of replacements.                                                        *)
(***************************************************************************)
EXTENDS Rollout, TLAPS

(***************************************************************************)
(* The times are numbers.                                                  *)
(***************************************************************************)
LEMMA TimesAreNumbers ==
    /\ DrainTime \in Nat /\ ShutdownTimeout \in Nat /\ KillAfter \in Nat
    /\ ProbeInterval \in Nat /\ RetryDuration \in Nat /\ CheckTime \in Nat
    /\ StartupTime \in Nat /\ MaxAge \in Nat
    /\ MaxStops \in Nat /\ MaxCrashes \in Nat /\ MaxOutages \in Nat
    /\ DrainTime > 0 /\ ProbeInterval > CheckTime /\ KillAfter > DrainTime
    /\ MaxAge >= ShutdownTimeout
  BY TimesAssumption

-----------------------------------------------------------------------------
(***************************************************************************)
(* The parts of the type invariant.                                        *)
(***************************************************************************)
Stages == {"auth", "database", "migrations", "openapi", "serving", "signalled",
           "draining", "shutdown", "metrics", "exited"}

Longest == IF Starting THEN StartupTime
           ELSE IF stage = "draining" THEN DrainTime
           ELSE IF Closing THEN ShutdownTimeout ELSE 0

Proxies == [up : BOOLEAN, clock : 0 .. ProbeInterval, checking : BOOLEAN, age : 0 .. CheckTime]

Counts == [stops : 0 .. MaxStops, crashes : 0 .. MaxCrashes, outages : 0 .. MaxOutages]

GoodRequest(q) ==
    \/ q.at \in {"none", "answered", "bad_gateway"} /\ q.age = 0
    \/ q.at = "proxy" /\ q.age \in 0 .. RetryDuration
    \/ q.at \in {"app", "cut"} /\ q.age \in 0 .. MaxAge

Requested == [at : {"none", "answered", "cut", "bad_gateway", "proxy", "app"}, age : Nat]

\* TypeOK, and that request is a function to records.
Inv == /\ stage = "exited" \/ Starting => At("app") = {} /\ ~ proxy.checking
       /\ stage \in Stages
       /\ since \in 0 .. Longest
       /\ proxy \in Proxies
       /\ request \in [Clients -> Requested]
       /\ \A c \in Clients : GoodRequest(request[c])
       /\ count \in Counts

(***************************************************************************)
(* The invariant implies the type invariant.                               *)
(***************************************************************************)
LEMMA InvImpliesTypeOK == ASSUME Inv PROVE TypeOK
  BY DEF Inv, TypeOK, Stages, Longest, Proxies, Counts, GoodRequest

(***************************************************************************)
(* Moving a request leaves the others where they are.                      *)
(***************************************************************************)
LEMMA MovedRequests ==
    ASSUME NEW c \in Clients, NEW from, NEW to \in {"answered", "bad_gateway", "proxy", "app"},
           request \in [Clients -> Requested], Move(c, from, to)
    PROVE  /\ request' \in [Clients -> Requested]
           /\ request'[c] = [at |-> to, age |-> 0]
           /\ \A d \in Clients : d # c => request'[d] = request[d]
  BY DEF Move, Requested

(***************************************************************************)
(* The requests a process that is gone leaves behind.                      *)
(***************************************************************************)
LEMMA GoneRequests ==
    ASSUME request \in [Clients -> Requested], Gone
    PROVE  /\ request' \in [Clients -> Requested]
           /\ \A c \in Clients :
                  request'[c] = IF request[c].at = "app" THEN [at |-> "cut", age |-> request[c].age]
                                ELSE request[c]
  <1>1. request' = [c \in Clients |-> IF request[c].at = "app"
                                       THEN [request[c] EXCEPT !.at = "cut"] ELSE request[c]]
    BY DEF Gone
  <1>2. \A c \in Clients : [request[c] EXCEPT !.at = "cut"] = [at |-> "cut", age |-> request[c].age]
    BY DEF Requested
  <1>3. \A c \in Clients :
           request'[c] = IF request[c].at = "app" THEN [at |-> "cut", age |-> request[c].age]
                         ELSE request[c]
    BY <1>1, <1>2
  <1>4. ASSUME NEW c \in Clients PROVE request'[c] \in Requested
    <2>1. request[c] \in Requested
      OBVIOUS
    <2>2. request[c].age \in Nat
      BY <2>1 DEF Requested
    <2>3. [at |-> "cut", age |-> request[c].age] \in Requested
      BY <2>2 DEF Requested
    <2> QED
      BY <1>3, <2>1, <2>3
  <1> QED
    BY <1>1, <1>3, <1>4

(***************************************************************************)
(* The probe after a process is gone is over.                              *)
(***************************************************************************)
LEMMA GoneProxy ==
    ASSUME proxy \in Proxies, Gone
    PROVE  /\ proxy' \in Proxies
           /\ ~ proxy'.checking
           /\ proxy'.clock = proxy.clock
  <1> DEFINE up == proxy.up /\ ~ proxy.checking
  <1>1. up \in BOOLEAN
    OBVIOUS
  <1>2. proxy' = [proxy EXCEPT !.up = up, !.checking = FALSE, !.age = 0]
    BY DEF Gone
  <1> HIDE DEF up
  <1>3. proxy' = [up |-> up, clock |-> proxy.clock, checking |-> FALSE, age |-> 0]
    BY <1>2 DEF Proxies
  <1> QED
    BY <1>1, <1>3, TimesAreNumbers DEF Proxies

(***************************************************************************)
(* A process that is gone leaves the invariant true.                       *)
(***************************************************************************)
LEMMA GoneIsSafe ==
    ASSUME Inv, Gone, count' \in Counts
    PROVE  Inv'
  <1>1. /\ request' \in [Clients -> Requested]
        /\ \A c \in Clients :
               request'[c] = IF request[c].at = "app" THEN [at |-> "cut", age |-> request[c].age]
                             ELSE request[c]
    BY GoneRequests DEF Inv
  <1>2. proxy' \in Proxies /\ ~ proxy'.checking
    BY GoneProxy DEF Inv
  <1>3. stage' = "exited" /\ since' = 0
    BY DEF Gone
  <1>4. At("app")' = {}
    BY <1>1 DEF At
  <1>5. \A c \in Clients : GoodRequest(request[c])'
    BY <1>1 DEF Inv, GoodRequest
  <1>6. since' \in 0 .. Longest'
    BY <1>3, TimesAreNumbers DEF Longest, Starting, Closing
  <1> QED
    BY <1>1, <1>2, <1>3, <1>4, <1>5, <1>6 DEF Inv, Stages

(***************************************************************************)
(* The process goes from one stage to the next.                            *)
(***************************************************************************)
LEMMA GotoIsSafe ==
    ASSUME Inv, NEW from, NEW to \in Stages, Goto(from, to), since' \in 0 .. Longest',
           to \in {"auth", "database", "migrations", "openapi"}
               => At("app") = {} /\ ~ proxy.checking,
           to # "exited"
    PROVE  Inv'
  <1>1. stage' = to /\ UNCHANGED <<proxy, request, count>>
    BY DEF Goto
  <1>2. At("app")' = At("app")
    BY <1>1 DEF At
  <1>3. \A c \in Clients : GoodRequest(request[c])'
    BY <1>1 DEF Inv, GoodRequest
  <1> QED
    BY <1>1, <1>2, <1>3 DEF Inv, Starting

(***************************************************************************)
(* Every stage of the process keeps the invariant.                         *)
(***************************************************************************)
LEMMA ProcessIsSafe == ASSUME Inv, Process PROVE Inv'
  <1> USE DEF Starting, Closing, Longest, Stages
  <1>1. CASE SetupAuthClient
    BY <1>1, GotoIsSafe DEF SetupAuthClient, Goto, Inv
  <1>2. CASE SetupDatabase
    BY <1>2, GotoIsSafe DEF SetupDatabase, Goto, Inv
  <1>3. CASE RunDatabaseMigrations
    BY <1>3, GotoIsSafe DEF RunDatabaseMigrations, Goto, Inv
  <1>4. CASE SetupOpenAPIConfig
    BY <1>4, GotoIsSafe, TimesAreNumbers DEF SetupOpenAPIConfig, Goto, Inv
  <1>5. CASE StartDraining
    BY <1>5, GotoIsSafe, TimesAreNumbers DEF StartDraining, Goto, Inv
  <1>6. CASE Shutdown
    BY <1>6, GotoIsSafe, TimesAreNumbers DEF Shutdown, Goto, Inv
  <1>7. CASE MainServerStopped
    BY <1>7, GotoIsSafe DEF MainServerStopped, Goto, Inv
  <1>8. CASE MetricsServerStopped
    BY <1>8, GoneIsSafe DEF MetricsServerStopped, Inv
  <1>9. CASE Kill
    BY <1>9, GoneIsSafe DEF Kill, Inv
  <1>10. CASE Restart
    BY <1>10, GotoIsSafe, TimesAreNumbers DEF Restart, Goto, Inv
  <1> QED
    BY <1>1, <1>2, <1>3, <1>4, <1>5, <1>6, <1>7, <1>8, <1>9, <1>10 DEF Process

(***************************************************************************)
(* A crash, and being told to stop, keep the invariant.                    *)
(***************************************************************************)
LEMMA CrashIsSafe == ASSUME Inv, Crash PROVE Inv'
  <1>1. count' \in Counts
    BY TimesAreNumbers DEF Crash, Inv, Counts
  <1> QED
    BY <1>1, GoneIsSafe DEF Crash

LEMMA SignalIsSafe == ASSUME Inv, Signal PROVE Inv'
  <1>1. count' \in Counts
    BY TimesAreNumbers DEF Signal, Inv, Counts
  <1>2. CASE Starting
    BY <1>1, <1>2, GoneIsSafe DEF Signal
  <1>3. CASE ~ Starting
    <2>1. stage = "serving" /\ stage' = "signalled" /\ UNCHANGED <<since, proxy, request>>
      BY <1>3 DEF Signal
    <2>2. since' \in 0 .. Longest'
      BY <2>1 DEF Inv, Longest, Starting, Closing
    <2>3. \A c \in Clients : GoodRequest(request[c])'
      BY <2>1 DEF Inv, GoodRequest
    <2> QED
      BY <1>1, <2>1, <2>2, <2>3 DEF Inv, Stages, Starting
  <1> QED
    BY <1>2, <1>3

(***************************************************************************)
(* A step of the probe keeps the invariant: none begins to check a process *)
(* that does not listen.                                                   *)
(***************************************************************************)
LEMMA ProbeIsSafe ==
    ASSUME Inv, UNCHANGED <<stage, since, request>>, count' \in Counts,
           proxy' \in Proxies, proxy'.checking => proxy.checking \/ Listening
    PROVE  Inv'
  <1>1. At("app")' = At("app")
    BY DEF At
  <1>2. since' \in 0 .. Longest'
    BY DEF Inv, Longest, Starting, Closing
  <1>3. \A c \in Clients : GoodRequest(request[c])'
    BY DEF Inv, GoodRequest
  <1>4. stage = "exited" \/ Starting => ~ Listening
    BY DEF Starting, Listening
  <1> QED
    BY <1>1, <1>2, <1>3, <1>4 DEF Inv, Stages, Starting

LEMMA ProxySteps ==
    ASSUME Inv, Probe \/ ReadinessPasses \/ ReadinessFails
    PROVE  Inv'
  <1>1. CASE Probe
    <2> DEFINE looks == Listening /\ ~ Draining
               up == proxy.up /\ looks
    <2>1. looks \in BOOLEAN /\ up \in BOOLEAN /\ (looks => Listening)
      OBVIOUS
    <2>2. /\ proxy' = [proxy EXCEPT !.clock = 0, !.checking = looks, !.up = up]
          /\ UNCHANGED <<stage, since, request, count>>
      BY <1>1 DEF Probe
    <2> HIDE DEF looks, up
    <2>3. proxy' = [up |-> up, clock |-> 0, checking |-> looks, age |-> proxy.age]
      BY <2>2 DEF Inv, Proxies
    <2>4. proxy' \in Proxies
      BY <2>1, <2>3, TimesAreNumbers DEF Inv, Proxies
    <2>5. proxy'.checking => Listening
      BY <2>1, <2>3
    <2>6. count' \in Counts
      BY <2>2 DEF Inv, Counts
    <2> QED
      BY <2>2, <2>4, <2>5, <2>6, ProbeIsSafe
  <1>2. ASSUME NEW up \in BOOLEAN, Checked(up)
        PROVE  proxy' \in Proxies /\ ~ proxy'.checking
    <2>1. proxy' = [up |-> up, clock |-> proxy.clock, checking |-> FALSE, age |-> 0]
      BY <1>2 DEF Checked, Inv, Proxies
    <2> QED
      BY <2>1, TimesAreNumbers DEF Inv, Proxies
  <1>3. CASE ReadinessPasses
    <2>1. proxy' \in Proxies /\ ~ proxy'.checking
      BY <1>2, <1>3 DEF ReadinessPasses
    <2> QED
      BY <1>3, <2>1, ProbeIsSafe DEF ReadinessPasses, Inv
  <1>4. CASE ReadinessFails
    <2>1. proxy' \in Proxies /\ ~ proxy'.checking
      BY <1>2, <1>4 DEF ReadinessFails
    <2>2. count' \in Counts
      BY <1>4, TimesAreNumbers DEF ReadinessFails, Inv, Counts
    <2> QED
      BY <1>4, <2>1, <2>2, ProbeIsSafe DEF ReadinessFails
  <1> QED
    BY <1>1, <1>3, <1>4

(***************************************************************************)
(* A step of a request keeps the invariant: none is forwarded to a process *)
(* that does not listen.                                                   *)
(***************************************************************************)
LEMMA RequestIsSafe ==
    ASSUME Inv, NEW c \in Clients, Arrive(c) \/ Forward(c) \/ Handled(c) \/ GiveUp(c)
    PROVE  Inv'
  <1>1. PICK to \in {"answered", "bad_gateway", "proxy", "app"} :
            /\ \E from : Move(c, from, to)
            /\ to = "app" => Listening
    BY DEF Arrive, Forward, Handled, GiveUp, CanForward
  <1>2. UNCHANGED <<stage, since, proxy, count>>
    BY <1>1 DEF Move
  <1>3. /\ request' \in [Clients -> Requested]
        /\ request'[c] = [at |-> to, age |-> 0]
        /\ \A d \in Clients : d # c => request'[d] = request[d]
    BY <1>1, MovedRequests DEF Inv
  <1>4. \A d \in Clients : GoodRequest(request[d])'
    <2> SUFFICES ASSUME NEW d \in Clients PROVE GoodRequest(request[d])'
      OBVIOUS
    <2>1. CASE d = c
      BY <1>3, <2>1, TimesAreNumbers DEF GoodRequest
    <2>2. CASE d # c
      BY <1>3, <2>2 DEF GoodRequest, Inv
    <2> QED
      BY <2>1, <2>2
  <1>5. stage = "exited" \/ Starting => At("app")' = {}
    BY <1>1, <1>3 DEF Inv, At, Starting, Listening
  <1>6. since' \in 0 .. Longest'
    BY <1>2 DEF Inv, Longest, Starting, Closing
  <1> QED
    BY <1>2, <1>3, <1>4, <1>5, <1>6 DEF Inv, Starting, Stages, Proxies, Counts

(***************************************************************************)
(* What a second changes.                                                  *)
(***************************************************************************)
Older(q) == IF q.at = "proxy" \/ (q.at = "app" /\ q.age < MaxAge) THEN q.age + 1 ELSE q.age

LEMMA TickChanges ==
    ASSUME Inv, Tick
    PROVE  /\ stage' = stage /\ count' = count
           /\ since' = IF stage = "serving" THEN 0 ELSE since + 1
           /\ proxy' \in Proxies
           /\ proxy'.up = proxy.up /\ proxy'.checking = proxy.checking
           /\ proxy'.clock = proxy.clock + 1
           /\ request' \in [Clients -> Requested]
           /\ \A c \in Clients :
                  /\ request'[c].at = request[c].at
                  /\ request'[c].age = Older(request[c])
  <1> DEFINE age == IF proxy.checking THEN proxy.age + 1 ELSE 0
  <1>1. /\ proxy' = [proxy EXCEPT !.clock = proxy.clock + 1, !.age = age]
        /\ ~ Due
    BY DEF Tick
  <1>2. proxy.clock # ProbeInterval /\ (proxy.checking => proxy.age # CheckTime)
    BY <1>1 DEF Due
  <1>3. age \in 0 .. CheckTime
    BY <1>2, TimesAreNumbers DEF Inv, Proxies
  <1> HIDE DEF age
  <1>4. proxy' = [up |-> proxy.up, clock |-> proxy.clock + 1, checking |-> proxy.checking, age |-> age]
    BY <1>1 DEF Inv, Proxies
  <1>5. proxy.clock + 1 \in 0 .. ProbeInterval
    BY <1>2, TimesAreNumbers DEF Inv, Proxies
  <1>6. proxy.up \in BOOLEAN /\ proxy.checking \in BOOLEAN
    BY DEF Inv, Proxies
  <1>7. proxy' \in Proxies
    BY <1>3, <1>4, <1>5, <1>6 DEF Proxies
  <1>8. request' = [c \in Clients |-> Aged(request[c])]
    BY DEF Tick
  <1>9. \A c \in Clients : /\ request[c] \in Requested
                            /\ [request[c] EXCEPT !.age = @ + 1]
                                  = [at |-> request[c].at, age |-> request[c].age + 1]
    BY DEF Inv, Requested
  <1>10. \A c \in Clients :
             request'[c] = [at |-> request[c].at, age |-> Older(request[c])]
    <2> TAKE c \in Clients
    <2>1. request'[c] = Aged(request[c]) /\ request[c] \in Requested
      BY <1>8, <1>9
    <2> QED
      BY <1>9, <2>1 DEF Requested, Aged, Older
  <1>11. ASSUME NEW c \in Clients PROVE request'[c] \in Requested
    <2> DEFINE seconds == Older(request[c])
               at == request[c].at
    <2>1. request[c] \in Requested
      BY <1>9
    <2>2. request[c].age \in Nat /\ at \in {"none", "answered", "cut", "bad_gateway", "proxy", "app"}
      BY <2>1 DEF Requested
    <2>3. seconds \in Nat
      BY <2>2 DEF Older
    <2>4. request'[c] = [at |-> at, age |-> seconds]
      BY <1>10
    <2> HIDE DEF seconds, at
    <2> QED
      BY <2>2, <2>3, <2>4 DEF Requested
  <1>12. request' \in [Clients -> Requested]
    BY <1>8, <1>11
  <1>13. \A c \in Clients : request'[c].at = request[c].at /\ request'[c].age = Older(request[c])
    <2> TAKE c \in Clients
    <2> DEFINE seconds == Older(request[c])
    <2>1. request'[c] = [at |-> request[c].at, age |-> seconds]
      BY <1>10
    <2> HIDE DEF seconds
    <2>2. request'[c].at = request[c].at /\ request'[c].age = seconds
      BY <2>1
    <2> QED
      BY <2>2 DEF seconds
  <1> QED
    BY <1>4, <1>7, <1>12, <1>13 DEF Tick

(***************************************************************************)
(* Time does not pass a limit.                                             *)
(***************************************************************************)
LEMMA TickIsSafe == ASSUME Inv, Tick PROVE Inv'
  <1>1. ~ Due
    BY DEF Tick
  <1>2. \A c \in Clients : GoodRequest(request[c])'
    <2> SUFFICES ASSUME NEW c \in Clients PROVE GoodRequest(request[c])'
      OBVIOUS
    <2>1. GoodRequest(request[c])
      BY DEF Inv
    <2>2. request[c].at = "proxy" => request[c].age # RetryDuration
      BY <1>1 DEF Due, At
    <2>3. request'[c].at = request[c].at /\ request'[c].age = Older(request[c])
      BY TickChanges
    <2> QED
      BY <2>1, <2>2, <2>3, TimesAreNumbers DEF GoodRequest, Older
  <1>3. stage' = stage /\ count' = count
        /\ since' = IF stage = "serving" THEN 0 ELSE since + 1
    BY TickChanges
  <1>4. Longest' = Longest /\ Longest \in Nat
    BY <1>3, TimesAreNumbers DEF Longest, Starting, Closing
  <1>5. stage # "serving" => since # Longest
    BY <1>1, TimesAreNumbers DEF Due, Longest, Starting, Closing, Inv, Stages
  <1>6. since' \in 0 .. Longest'
    BY <1>3, <1>4, <1>5 DEF Inv
  <1>7. At("app")' = At("app")
    BY TickChanges DEF At
  <1> QED
    BY <1>2, <1>3, <1>6, <1>7, TickChanges DEF Inv, Starting, Stages, Counts

-----------------------------------------------------------------------------
(***************************************************************************)
(* The invariant holds at first, and every step keeps it.                  *)
(***************************************************************************)
LEMMA InitIsSafe == Init => Inv
  <1> SUFFICES ASSUME Init PROVE Inv
    OBVIOUS
  <1>1. stage = "auth" /\ since = 0 /\ request = [c \in Clients |-> [at |-> "none", age |-> 0]]
    BY DEF Init
  <1>2. proxy = [up |-> TRUE, clock |-> 0, checking |-> FALSE, age |-> 0]
        /\ count = [stops |-> 0, crashes |-> 0, outages |-> 0]
    BY DEF Init
  <1>3. proxy \in Proxies /\ count \in Counts /\ ~ proxy.checking
    BY <1>2, TimesAreNumbers DEF Proxies, Counts
  <1>4. request \in [Clients -> Requested] /\ \A c \in Clients : GoodRequest(request[c])
    BY <1>1 DEF Requested, GoodRequest
  <1>5. since \in 0 .. Longest
    BY <1>1, TimesAreNumbers DEF Longest, Starting
  <1>6. At("app") = {}
    BY <1>1 DEF At
  <1> QED
    BY <1>1, <1>3, <1>4, <1>5, <1>6 DEF Inv, Stages

LEMMA StepIsSafe == Inv /\ [Next]_vars => Inv'
  <1> SUFFICES ASSUME Inv, [Next]_vars PROVE Inv'
    OBVIOUS
  <1>1. CASE UNCHANGED vars
    BY <1>1 DEF vars, Inv, At, Starting, Stages, Longest, Closing, Proxies, Counts, GoodRequest
  <1> QED
    BY <1>1, ProcessIsSafe, CrashIsSafe, SignalIsSafe, ProxySteps, RequestIsSafe, TickIsSafe
    DEF Next

LEMMA AlwaysSafe == Spec => []Inv
  BY InitIsSafe, StepIsSafe, PTL DEF Spec

(***************************************************************************)
(* The times of all that goes on stay within their limits, and a process   *)
(* that is not there handles nothing, for any times (Rollout, main.go).    *)
(***************************************************************************)
THEOREM TypeCorrect == Spec => []TypeOK
  <1>1. Inv => TypeOK
    BY InvImpliesTypeOK
  <1> QED
    BY <1>1, AlwaysSafe, PTL

-----------------------------------------------------------------------------
(***************************************************************************)
(* Why nothing is cut off early: whoever is in the server when it shuts    *)
(* down was there when the shutdown began, and the shutdown is over when   *)
(* nobody is there any more, or its time is over.                          *)
(***************************************************************************)
Grace == /\ Closing => \A c \in At("app") : request[c].age >= since
         /\ stage = "metrics" => At("app") = {} \/ since = ShutdownTimeout
         /\ GraceIsGiven

(***************************************************************************)
(* A process that is gone for a reason other than a crash has waited for   *)
(* the requests it cuts off.                                               *)
(***************************************************************************)
LEMMA GoneWithGrace ==
    ASSUME Inv, Grace, Gone,
           count'.crashes = 0 =>
               /\ count.crashes = 0
               /\ \A c \in At("app") : \/ request[c].age >= ShutdownTimeout
                                      \/ request[c].age >= KillAfter - DrainTime
    PROVE  Grace'
  <1>1. stage' = "exited"
    BY DEF Gone
  <1>2. \A c \in Clients :
           request'[c] = IF request[c].at = "app" THEN [at |-> "cut", age |-> request[c].age]
                         ELSE request[c]
    BY GoneRequests DEF Inv
  <1>3. ASSUME count'.crashes = 0, NEW c \in Clients, request'[c].at = "cut"
        PROVE  request'[c].age >= ShutdownTimeout \/ request'[c].age >= KillAfter - DrainTime
    <2>1. CASE request[c].at = "app"
      <3>1. request'[c] = [at |-> "cut", age |-> request[c].age]
        BY <1>2, <1>3, <2>1
      <3>2. request'[c].age = request[c].age
        BY <3>1
      <3>3. c \in At("app")
        BY <1>3, <2>1 DEF At
      <3> QED
        BY <1>3, <3>2, <3>3
    <2>2. CASE request[c].at # "app"
      <3>1. request'[c] = request[c] /\ c \in At("cut")
        BY <1>2, <1>3, <2>2 DEF At
      <3> QED
        BY <1>3, <3>1 DEF Grace, GraceIsGiven
    <2> QED
      BY <2>1, <2>2
  <1> QED
    BY <1>1, <1>3 DEF Grace, GraceIsGiven, Closing, At

(***************************************************************************)
(* A kill comes KillAfter seconds after the signal, DrainTime of which the *)
(* listener was open.                                                      *)
(***************************************************************************)
LEMMA KilledWithGrace ==
    ASSUME Inv, Grace, Kill
    PROVE  \A c \in At("app") : request[c].age >= KillAfter - DrainTime
  <1>1. StopAge >= KillAfter
    BY DEF Kill
  <1>2. since \in Nat /\ (stage = "draining" => since <= DrainTime)
    BY TimesAreNumbers DEF Inv, Longest, Starting, Closing
  <1>3. Closing /\ since >= KillAfter - DrainTime
    BY <1>1, <1>2, TimesAreNumbers DEF StopAge
  <1>4. \A c \in At("app") : request[c].age >= since /\ request[c].age \in Nat
    BY <1>3 DEF Grace, Inv, At, Requested
  <1> QED
    BY <1>2, <1>3, <1>4, TimesAreNumbers

(***************************************************************************)
(* Every step of the process, of the probe and of a request keeps Grace.   *)
(***************************************************************************)
LEMMA StageWithGrace ==
    ASSUME Inv, Grace, NEW from, NEW to, Goto(from, to),
           to \in {"shutdown", "metrics"} =>
               \A c \in At("app") : request[c].age >= since',
           to = "metrics" => At("app") = {} \/ since' = ShutdownTimeout
    PROVE  Grace'
  <1>1. stage' = to /\ UNCHANGED <<proxy, request, count>>
    BY DEF Goto
  <1>2. At("app")' = At("app") /\ At("cut")' = At("cut")
    BY <1>1 DEF At
  <1> QED
    BY <1>1, <1>2 DEF Grace, GraceIsGiven, Closing

LEMMA ProcessWithGrace ==
    ASSUME Inv, Grace, Process
    PROVE  Grace'
  <1>1. CASE SetupAuthClient \/ SetupDatabase \/ RunDatabaseMigrations \/ SetupOpenAPIConfig
             \/ StartDraining \/ Restart
    BY <1>1, StageWithGrace DEF SetupAuthClient, SetupDatabase, RunDatabaseMigrations,
       SetupOpenAPIConfig, StartDraining, Restart
  <1>2. CASE Shutdown
    <2>1. \A c \in At("app") : request[c].age >= 0
      BY DEF Inv, At, Requested
    <2> QED
      BY <1>2, <2>1, StageWithGrace DEF Shutdown
  <1>3. CASE MainServerStopped
    <2>1. Closing /\ since' = since /\ (At("app") = {} \/ since = ShutdownTimeout)
      BY <1>3 DEF MainServerStopped, Goto, Closing, Idle
    <2> QED
      BY <1>3, <2>1, StageWithGrace DEF MainServerStopped, Grace
  <1>4. CASE MetricsServerStopped
    <2>1. \A c \in At("app") : request[c].age >= ShutdownTimeout
      BY <1>4 DEF MetricsServerStopped, Grace, Closing
    <2> QED
      BY <1>4, <2>1, GoneWithGrace DEF MetricsServerStopped
  <1>5. CASE Kill
    BY <1>5, KilledWithGrace, GoneWithGrace DEF Kill
  <1> QED
    BY <1>1, <1>2, <1>3, <1>4, <1>5 DEF Process

LEMMA RequestWithGrace ==
    ASSUME Inv, Grace, NEW c \in Clients, Arrive(c) \/ Forward(c) \/ Handled(c) \/ GiveUp(c)
    PROVE  Grace'
  <1>1. PICK to \in {"answered", "bad_gateway", "proxy", "app"} :
            /\ \E from : Move(c, from, to)
            /\ to = "app" => Listening
    BY DEF Arrive, Forward, Handled, GiveUp, CanForward
  <1>2. UNCHANGED <<stage, since, proxy, count>>
    BY <1>1 DEF Move
  <1>3. /\ request'[c] = [at |-> to, age |-> 0]
        /\ \A d \in Clients : d # c => request'[d] = request[d]
    BY <1>1, MovedRequests DEF Inv
  <1>4. At("cut")' \subseteq At("cut") /\ c \notin At("cut")'
    BY <1>3 DEF At
  <1>5. Closing => At("app")' \subseteq At("app") \ {c}
    BY <1>1, <1>3 DEF At, Closing, Listening
  <1>6. Closing' => \A d \in At("app")' : request'[d].age >= since'
    <2> SUFFICES ASSUME Closing, NEW d \in At("app")' PROVE request'[d].age >= since
      BY <1>2 DEF Closing
    <2>1. d \in At("app") /\ d \in Clients /\ d # c
      BY <1>5 DEF At
    <2>2. request'[d] = request[d]
      BY <1>3, <2>1
    <2> QED
      BY <2>1, <2>2 DEF Grace
  <1>7. stage' = "metrics" => At("app")' = {} \/ since' = ShutdownTimeout
    BY <1>2, <1>5 DEF Grace, Closing
  <1>8. GraceIsGiven'
    <2>1. \A d \in At("cut")' : d \in At("cut") /\ d \in Clients /\ d # c
      BY <1>4 DEF At
    <2>2. \A d \in At("cut")' : d \in At("cut") /\ request'[d] = request[d]
      BY <1>3, <2>1
    <2> QED
      BY <1>2, <2>2 DEF Grace, GraceIsGiven
  <1> QED
    BY <1>6, <1>7, <1>8 DEF Grace

LEMMA TickWithGrace == ASSUME Inv, Grace, Tick PROVE Grace'
  <1>1. stage # "metrics" /\ (stage = "shutdown" => since # ShutdownTimeout)
    BY DEF Tick, Due
  <1>2. /\ stage' = stage /\ count' = count
        /\ since' = IF stage = "serving" THEN 0 ELSE since + 1
    BY TickChanges
  <1>3. \A c \in Clients :
            /\ request'[c].at = request[c].at
            /\ request'[c].age = Older(request[c])
    BY TickChanges
  <1>4. At("app")' = At("app") /\ At("cut")' = At("cut")
    BY <1>3 DEF At
  <1>5. since \in Nat /\ \A c \in Clients : request[c].age \in Nat
    BY TimesAreNumbers DEF Inv, Longest, Requested
  <1>6. Closing' => \A c \in At("app")' : request'[c].age >= since'
    <2> SUFFICES ASSUME Closing, NEW c \in At("app") PROVE Older(request[c]) >= since + 1
      BY <1>2, <1>3, <1>4 DEF Closing, At
    <2>1. since < ShutdownTimeout
      BY <1>1, TimesAreNumbers DEF Inv, Longest, Starting, Closing
    <2>2. request[c].age >= since /\ request[c].at = "app" /\ request[c].age \in Nat
      BY <1>5 DEF Grace, At
    <2> QED
      BY <1>5, <2>1, <2>2, TimesAreNumbers DEF Older
  <1>7. GraceIsGiven'
    BY <1>2, <1>3, <1>4 DEF Grace, GraceIsGiven, At, Older
  <1> QED
    BY <1>1, <1>2, <1>6, <1>7 DEF Grace

LEMMA StepWithGrace == Inv /\ Grace /\ [Next]_vars => Grace'
  <1> SUFFICES ASSUME Inv, Grace, [Next]_vars PROVE Grace'
    OBVIOUS
  <1>1. CASE UNCHANGED vars
    BY <1>1 DEF vars, Grace, GraceIsGiven, At, Closing
  <1>2. CASE Crash
    <2>1. count'.crashes # 0
      BY <1>2 DEF Crash, Inv, Counts
    <2> QED
      BY <1>2, <2>1, GoneWithGrace DEF Crash
  <1>3. CASE Signal
    <2>1. count'.crashes = count.crashes
      BY <1>3 DEF Signal, Inv, Counts
    <2>2. CASE Starting
      <3>1. At("app") = {}
        BY <2>2 DEF Inv
      <3> QED
        BY <1>3, <2>1, <2>2, <3>1, GoneWithGrace DEF Signal
    <2>3. CASE ~ Starting
      <3>1. stage' = "signalled" /\ UNCHANGED <<since, request>>
        BY <1>3, <2>3 DEF Signal
      <3> QED
        BY <2>1, <3>1 DEF Grace, GraceIsGiven, At, Closing
    <2> QED
      BY <2>2, <2>3
  <1>4. CASE Probe \/ ReadinessPasses \/ ReadinessFails
    <2>1. UNCHANGED <<stage, since, request>> /\ count'.crashes = count.crashes
      BY <1>4 DEF Probe, ReadinessPasses, ReadinessFails, Inv, Counts
    <2> QED
      BY <2>1 DEF Grace, GraceIsGiven, At, Closing
  <1> QED
    BY <1>1, <1>2, <1>3, <1>4, ProcessWithGrace, RequestWithGrace, TickWithGrace DEF Next

(***************************************************************************)
(* Whatever the times are, and however often the process is replaced: only *)
(* a crash cuts a request off before ShutdownTimeout seconds, or those a   *)
(* runtime that is less patient leaves after DrainTime (main.go:231-241).  *)
(***************************************************************************)
THEOREM GraceAlwaysGiven == Spec => []GraceIsGiven
  <1>1. Init => Grace
    BY DEF Init, Grace, GraceIsGiven, Closing, At
  <1>2. Grace => GraceIsGiven
    BY DEF Grace
  <1> QED
    BY <1>1, <1>2, StepWithGrace, AlwaysSafe, PTL DEF Spec

-----------------------------------------------------------------------------
(***************************************************************************)
(* Why the proxy leaves: as long as it routes, or may route again, it has  *)
(* not probed since draining began.                                        *)
(***************************************************************************)
Unprobed == Draining /\ (proxy.up \/ proxy.checking) => proxy.clock >= StopAge

LEMMA StepUnprobed == Inv /\ Unprobed /\ [Next]_vars => Unprobed'
  <1> SUFFICES ASSUME Inv, Unprobed, [Next]_vars PROVE Unprobed'
    OBVIOUS
  <1>1. since \in Nat /\ proxy.clock \in Nat
    BY TimesAreNumbers DEF Inv, Longest, Proxies
  <1>2. CASE UNCHANGED <<stage, since, proxy>>
    BY <1>2 DEF Unprobed, Draining, StopAge, Closing
  <1>3. CASE stage' \notin {"draining", "shutdown", "metrics"}
    BY <1>3 DEF Unprobed, Draining
  <1>4. CASE StartDraining
    BY <1>1, <1>4 DEF StartDraining, Goto, Unprobed, Draining, StopAge
  <1>5. CASE Shutdown
    BY <1>1, <1>5, TimesAreNumbers DEF Shutdown, Goto, Unprobed, Draining, StopAge, Closing
  <1>6. CASE MainServerStopped
    BY <1>6 DEF MainServerStopped, Goto, Unprobed, Draining, StopAge, Closing
  <1>7. CASE Probe
    <2>1. Draining => ~ proxy'.up /\ ~ proxy'.checking
      BY <1>7 DEF Probe, Inv, Proxies
    <2> QED
      BY <1>7, <2>1 DEF Probe, Unprobed, Draining
  <1>8. CASE ReadinessPasses \/ ReadinessFails
    <2>1. UNCHANGED <<stage, since>> /\ proxy.checking /\ proxy'.clock = proxy.clock
      BY <1>8 DEF ReadinessPasses, ReadinessFails, Checked, Inv, Proxies
    <2> QED
      BY <2>1 DEF Unprobed, Draining, StopAge, Closing
  <1>9. CASE Tick
    <2>1. /\ stage' = stage /\ proxy'.up = proxy.up /\ proxy'.checking = proxy.checking
          /\ proxy'.clock = proxy.clock + 1
          /\ Draining => since' = since + 1
      BY <1>9, TickChanges DEF Draining
    <2> QED
      BY <1>1, <2>1, TimesAreNumbers DEF Unprobed, Draining, StopAge, Closing
  <1> QED
    BY <1>2, <1>3, <1>4, <1>5, <1>6, <1>7, <1>8, <1>9
    DEF Next, vars, Process, SetupAuthClient, SetupDatabase, RunDatabaseMigrations,
        SetupOpenAPIConfig, MetricsServerStopped, Kill, Restart, Goto, Gone, Crash, Signal,
        Arrive, Forward, Handled, GiveUp, Move

(***************************************************************************)
(* If main drains for at least as long as the proxy waits between probes,  *)
(* the proxy has left before the listener is closed for a second           *)
(* (main.go:233, site.caddy:7).                                            *)
(***************************************************************************)
THEOREM ClosedServerAlwaysLeft ==
    ASSUME DrainTime >= ProbeInterval
    PROVE  Spec => []ClosedServerIsLeft
  <1>1. Init => Unprobed
    BY DEF Init, Unprobed, Draining
  <1>2. Inv /\ Unprobed => ClosedServerIsLeft
    BY TimesAreNumbers
    DEF Inv, Unprobed, ClosedServerIsLeft, Draining, Closing, StopAge, Proxies, Longest, Starting
  <1> QED
    BY <1>1, <1>2, StepUnprobed, AlwaysSafe, PTL DEF Spec
=============================================================================
