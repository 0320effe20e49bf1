----------------------------- MODULE Lifecycle ------------------------------
(***************************************************************************)
(* The process: Bootstrap and main (cmd/main.go), Run in a goroutine of    *)
(* its own (internal/app/bootstrap.go), the consumer goroutine it leaves   *)
(* behind, the probes of internal/app/health.go, signals, and Kubernetes,  *)
(* which starts an ended process again.                                    *)
(* Operators named Bug... are plausible mistakes in the definition that    *)
(* follows them; the specification uses none, each breaks a property.      *)
(***************************************************************************)
EXTENDS Integers

CONSTANTS
    IsProd,            \* configuration: production does not migrate
    MaxStarts, MaxSignals, MaxFaults   \* bounds of the environment

ASSUME ProcessAssumption == IsProd \in BOOLEAN

VARIABLES
    main,              \* the main goroutine
    run,               \* the goroutine of Run; "returned" is its result in errCh
    signalled,         \* sigCtx is done
    cancelled,         \* the context of Bootstrap is
    otel,              \* providers built, shutdownFuncs, and calls of each Shutdown
    channel, consumer,
    starts, signals, faults

processVars == <<main, run, signalled, cancelled, otel, channel, consumer,
                 starts, signals, faults>>

-----------------------------------------------------------------------------
Providers == {"tracer", "meter"}

Ends == {"fatal", "exited", "killed"}

ProcessType ==
    /\ main \in {"load", "tracer", "meter", "logger", "select", "leaving", "stop", "cancel"}
                \cup Ends
    /\ run \in {"none", "database", "migrate", "redis", "mq", "search", "queues", "consume",
                "router", "listen", "serve", "failing", "returned"}
    /\ signalled \in BOOLEAN /\ cancelled \in BOOLEAN
    /\ otel \in [built : SUBSET Providers, funcs : SUBSET Providers, downs : [Providers -> Nat]]
    /\ channel \in {"none", "open", "closed"}
    /\ consumer \in {"none", "listening", "lost", "drained", "stopped"}
    /\ starts \in Nat /\ signals \in Nat /\ faults \in Nat

Fresh == [main |-> "load", run |-> "none", signalled |-> FALSE, cancelled |-> FALSE,
          otel |-> [built |-> {}, funcs |-> {}, downs |-> [p \in Providers |-> 0]],
          channel |-> "none", consumer |-> "none"]

ProcessInit ==
    /\ main = Fresh.main /\ run = Fresh.run
    /\ signalled = Fresh.signalled /\ cancelled = Fresh.cancelled
    /\ otel = Fresh.otel /\ channel = Fresh.channel /\ consumer = Fresh.consumer
    /\ starts = 1 /\ signals = 0 /\ faults = 0

Alive == main \notin Ends

Fault == faults < MaxFaults /\ faults' = faults + 1

-----------------------------------------------------------------------------
(* Bootstrap *)

(* The configuration; without it log.Fatalf, which runs nothing deferred.  *)
LoadConfig ==
    /\ main = "load"
    /\ \/ main' = "tracer" /\ UNCHANGED faults
       \/ main' = "fatal" /\ Fault
    /\ UNCHANGED <<run, signalled, cancelled, otel, channel, consumer, starts, signals>>

(* The functions are called and stay registered. *)
BugShutdown(o) == [o EXCEPT !.downs = [p \in Providers |-> @[p] + (IF p \in o.funcs THEN 1 ELSE 0)]]

(* shutdown: every registered function is called, and the list is emptied. *)
Shutdown(o) ==
    [o EXCEPT !.downs = [p \in Providers |-> @[p] + (IF p \in o.funcs THEN 1 ELSE 0)],
              !.funcs = {}]

(* setupOTelSDK: a provider is registered, or what was registered is shut  *)
(* down; Bootstrap goes on in either case.                                 *)
Provide(p, next) ==
    /\ main = p
    /\ \/ /\ otel' = [otel EXCEPT !.built = @ \cup {p}, !.funcs = @ \cup {p}]
          /\ main' = next
          /\ UNCHANGED faults
       \/ /\ otel' = Shutdown(otel)
          /\ main' = "logger"
          /\ Fault
    /\ UNCHANGED <<run, signalled, cancelled, channel, consumer, starts, signals>>

NewTracerProvider == Provide("tracer", "meter")
NewMeterProvider == Provide("meter", "logger")

(* The logger, NotifyContext, and the goroutine of Run. *)
StartRun ==
    /\ main = "logger"
    /\ main' = "select" /\ run' = "database"
    /\ UNCHANGED <<signalled, cancelled, otel, channel, consumer, starts, signals, faults>>

-----------------------------------------------------------------------------
(* Run *)

(* One step of Run: it goes on, or the error is returned. *)
Try(at, next) ==
    /\ Alive /\ run = at
    /\ \/ run' = next /\ UNCHANGED faults
       \/ run' = "failing" /\ Fault

OpenDatabase ==
    /\ Try("database", IF IsProd THEN "redis" ELSE "migrate")
    /\ UNCHANGED <<main, signalled, cancelled, otel, channel, consumer, starts, signals>>

AutoMigrate ==
    /\ Try("migrate", "redis")
    /\ UNCHANGED <<main, signalled, cancelled, otel, channel, consumer, starts, signals>>

(* The ping is made with Bootstrap's context. *)
OpenRedis ==
    /\ IF cancelled THEN Alive /\ run = "redis" /\ run' = "failing" /\ UNCHANGED faults
       ELSE Try("redis", "mq")
    /\ UNCHANGED <<main, signalled, cancelled, otel, channel, consumer, starts, signals>>

InitMq ==
    /\ Try("mq", "search")
    /\ channel' = IF run' = "search" THEN "open" ELSE channel
    /\ UNCHANGED <<main, signalled, cancelled, otel, consumer, starts, signals>>

(* Without Elasticsearch the search is empty; Run goes on. *)
OpenSearch ==
    /\ Alive /\ run = "search"
    /\ run' = "queues"
    /\ UNCHANGED <<main, signalled, cancelled, otel, channel, consumer,
                   starts, signals, faults>>

OnChannel(at, next) ==
    IF channel = "open" THEN Try(at, next)
    ELSE Alive /\ run = at /\ run' = "failing" /\ UNCHANGED faults

SetupMQ ==
    /\ OnChannel("queues", "consume")
    /\ UNCHANGED <<main, signalled, cancelled, otel, channel, consumer, starts, signals>>

ListenTimeout ==
    /\ OnChannel("consume", "router")
    /\ consumer' = IF run' = "router" THEN "listening" ELSE consumer
    /\ UNCHANGED <<main, signalled, cancelled, otel, channel, starts, signals>>

SetupRouter ==
    /\ Alive /\ run = "router"
    /\ run' = "listen"
    /\ UNCHANGED <<main, signalled, cancelled, otel, channel, consumer,
                   starts, signals, faults>>

(* What the probes look at is set, and the port is opened. *)
Listen ==
    /\ Try("listen", "serve")
    /\ UNCHANGED <<main, signalled, cancelled, otel, channel, consumer, starts, signals>>

ServerFails ==
    /\ Alive /\ run = "serve"
    /\ run' = "failing" /\ Fault
    /\ UNCHANGED <<main, signalled, cancelled, otel, channel, consumer, starts, signals>>

(* The deferred mqCleanup, there once the channel is. *)
Cleanup == channel' = IF channel = "open" THEN "closed" ELSE channel

RunReturns ==
    /\ Alive /\ run = "failing"
    /\ run' = "returned"
    /\ Cleanup
    /\ UNCHANGED <<main, signalled, cancelled, otel, consumer, starts, signals, faults>>

-----------------------------------------------------------------------------
(* The rest of main.  In its select the process is told of a signal; before *)
(* and after that a signal kills it.                                       *)

(* Only the return of Run is waited for. *)
BugSelect == run = "returned"

Select == signalled \/ run = "returned"

Leave ==
    /\ main = "select" /\ Select
    /\ main' = "leaving"
    /\ UNCHANGED <<run, signalled, cancelled, otel, channel, consumer,
                   starts, signals, faults>>

RestoreSignals ==
    /\ main = "leaving"
    /\ main' = "stop"
    /\ UNCHANGED <<run, signalled, cancelled, otel, channel, consumer,
                   starts, signals, faults>>

(* stop: the providers, the logger, the context. *)
StopProviders ==
    /\ main = "stop"
    /\ otel' = Shutdown(otel)
    /\ main' = "cancel"
    /\ UNCHANGED <<run, signalled, cancelled, channel, consumer, starts, signals, faults>>

Cancel ==
    /\ main = "cancel" /\ ~cancelled
    /\ cancelled' = TRUE
    /\ UNCHANGED <<main, run, signalled, otel, channel, consumer, starts, signals, faults>>

Exit ==
    /\ main = "cancel" /\ cancelled
    /\ main' = "exited"
    /\ UNCHANGED <<run, signalled, cancelled, otel, channel, consumer,
                   starts, signals, faults>>

-----------------------------------------------------------------------------
(* The environment *)

Signal ==
    /\ Alive /\ signals < MaxSignals
    /\ signals' = signals + 1
    /\ IF main \in {"select", "leaving"} THEN signalled' = TRUE /\ UNCHANGED main
       ELSE main' = "killed" /\ UNCHANGED signalled
    /\ UNCHANGED <<run, cancelled, otel, channel, consumer, starts, faults>>

(* A panic nobody recovers, or memory. *)
Crash ==
    /\ Alive /\ Fault
    /\ main' = "killed"
    /\ UNCHANGED <<run, signalled, cancelled, otel, channel, consumer, starts, signals>>

ChannelCloses ==
    /\ Alive /\ channel = "open" /\ Fault
    /\ channel' = "closed"
    /\ UNCHANGED <<main, run, signalled, cancelled, otel, consumer, starts, signals>>

(* The consumer's goroutine returns: its context is done, its deliveries   *)
(* ended with the channel, or, with the channel open, the broker cancelled *)
(* it or its handler panicked.                                             *)
ConsumerEnds ==
    /\ Alive /\ consumer = "listening"
    /\ \/ cancelled /\ consumer' = "stopped" /\ UNCHANGED faults
       \/ channel = "closed" /\ consumer' = "drained" /\ UNCHANGED faults
       \/ channel = "open" /\ consumer' = "lost" /\ Fault
    /\ UNCHANGED <<main, run, signalled, cancelled, otel, channel, starts, signals>>

Serving == Alive /\ run = "serve"

(* The channel is only compared with nil. *)
BugReady(stores) == stores /\ channel # "none"

(* ReadyHandler's answer, after its pings of the stores.                   *)
Ready(stores) == stores /\ channel = "open"

(* Kubernetes starts the container again. *)
Restart ==
    /\ ~Alive /\ starts < MaxStarts
    /\ starts' = starts + 1
    /\ main' = Fresh.main /\ run' = Fresh.run
    /\ signalled' = Fresh.signalled /\ cancelled' = Fresh.cancelled
    /\ otel' = Fresh.otel /\ channel' = Fresh.channel /\ consumer' = Fresh.consumer
    /\ UNCHANGED <<signals, faults>>

MainStep ==
    \/ LoadConfig \/ NewTracerProvider \/ NewMeterProvider \/ StartRun
    \/ Leave \/ RestoreSignals \/ StopProviders \/ Cancel \/ Exit

RunStep ==
    \/ OpenDatabase \/ AutoMigrate \/ OpenRedis \/ InitMq \/ OpenSearch \/ SetupMQ
    \/ ListenTimeout \/ SetupRouter \/ Listen \/ ServerFails \/ RunReturns

Outside ==
    \/ Signal \/ Crash \/ ChannelCloses \/ ConsumerEnds

-----------------------------------------------------------------------------
(* Properties *)

(* Every provider is shut down at most once, though a failing set-up and   *)
(* stop both do it; when main returns, each that was built has been, and   *)
(* the channel is closed if Run returned.                                  *)
StopsCleanly ==
    /\ \A p \in Providers : otel.downs[p] <= 1
    /\ main = "exited" =>
          /\ \A p \in otel.built : otel.downs[p] = 1
          /\ run = "returned" => channel # "open"

(* Readiness is answered with success only while the consumer listens,     *)
(* unless its context is done, or it was lost with the channel open, which *)
(* no probe sees.                                                          *)
ReadyIsListening ==
    Serving /\ (\E stores \in BOOLEAN : Ready(stores)) =>
        consumer \in {"listening", "lost"} \/ cancelled

(* A signal that main has been told of, or the return of Run, ends the     *)
(* process: the select waits for both.                                     *)
EndsWhenAsked == (Alive /\ (signalled \/ run = "returned")) ~> ~Alive
=============================================================================
