----------------------------- MODULE Lifecycle ------------------------------
(***************************************************************************)
(* The process around the handler and the controller (main.go:502-641):    *)
(* main starts the manager and the servers, each in a goroutine of its     *)
(* own, waits for a signal, stops the manager and drains the reviews that  *)
(* are in progress.  Any of the goroutines may end the process with        *)
(* Fatalf, whatever main and the reviews are doing.                        *)
(***************************************************************************)
EXTENDS Integers

CONSTANTS
  Reviews,
  TelemetryAddress   \* is telemetry_listen_address set?

ASSUME LifecycleAssumption == TelemetryAddress \in BOOLEAN

Components == {"setup", "manager", "telemetry", "server", "listener"}

VARIABLES
  failing,    \* the components that may fail by themselves in this process
  timely,     \* whether its handlers return within shutdown_timeout
  main,       \* where main is
  notified,   \* signals go to the channel stop, they do not kill
  stop,       \* the signals in the channel
  manager,    \* the goroutine of the rotation manager
  server,     \* the goroutine of the admission server
  review,     \* review[r]: the request and its handler's goroutine
  expired,    \* shutdown_timeout has passed
  lnerr,      \* Shutdown could not close the listener, as it tells at its end
  exit        \* how the process ended

world      == <<failing, timely>>
signals    == <<notified, stop>>
goroutines == <<manager, server>>
ending     == <<expired, lnerr, exit>>
vars       == <<world, main, signals, goroutines, review, ending>>

Init ==
  /\ failing \in SUBSET Components /\ timely \in BOOLEAN
  /\ main = "setup"
  /\ notified = FALSE
  /\ stop = 0
  /\ manager = "off" /\ server = "off"
  /\ review = [r \in Reviews |-> "none"]
  /\ expired = FALSE
  /\ lnerr = FALSE
  /\ exit = "none"

Running == exit = "none"
At(pc)  == Running /\ main = pc
Open    == {r \in Reviews : review[r] = "open"}

-----------------------------------------------------------------------------
(* The end of the process takes the open reviews with it.                  *)

Exit(code) ==
  /\ exit' = code
  /\ review' = [r \in Reviews |-> IF r \in Open THEN "cut" ELSE review[r]]
  /\ UNCHANGED <<main, signals, goroutines, expired, lnerr, world>>

Fatal(component) == component \in failing /\ Exit("fatal")

-----------------------------------------------------------------------------
(* main, up to the signal.                                                 *)

(* The API server's client, the manager, its controller; the handlers.     *)
SetupFails == (At("setup") \/ At("handlers")) /\ Fatal("setup")

StartManager ==
  /\ At("setup")
  /\ main' = "handlers"
  /\ manager' = "running"
  /\ UNCHANGED <<signals, server, review, ending, world>>

(* With a TelemetryAddress serveMetrics now runs too, and is never stopped. *)
StartTelemetry ==
  /\ At("handlers")
  /\ main' = "notify"
  /\ UNCHANGED <<signals, goroutines, review, ending, world>>

NotifyDropped ==                                                   \* mutant
  /\ At("notify")
  /\ main' = "serve"
  /\ UNCHANGED <<signals, goroutines, review, ending, world>>

Notify ==
  /\ At("notify")
  /\ main' = "serve"
  /\ notified' = TRUE
  /\ UNCHANGED <<stop, goroutines, review, ending, world>>

StartServer ==
  /\ At("serve")
  /\ main' = "wait"
  /\ server' = "started"
  /\ UNCHANGED <<signals, manager, review, ending, world>>

-----------------------------------------------------------------------------
(* main, from the signal on.                                               *)

TakeSignal ==
  /\ At("wait") /\ stop > 0
  /\ main' = "cancelled"
  /\ stop' = stop - 1
  /\ manager' = IF manager = "running" THEN "stopping" ELSE manager
  /\ UNCHANGED <<notified, server, review, ending, world>>

(* The timer is set, and Shutdown closes the listener.                     *)
Shutdown ==
  /\ At("cancelled")
  /\ main' = "drain"
  /\ server' = IF server = "open" THEN "closing" ELSE server
  /\ \E err \in BOOLEAN : /\ err => server = "open" /\ "listener" \in failing
                         /\ lnerr' = err
  /\ UNCHANGED <<signals, manager, review, expired, exit, world>>

(* By the contract of net/http, when no handler is running any more.       *)
ShutdownReturns ==
  /\ At("drain")
  /\ Open = {}
  /\ Exit(IF lnerr THEN "fatal" ELSE "ok")

NoTimeout == At("drain") /\ UNCHANGED vars                         \* mutant

(* At once if it is negative; one that does not parse is 15 seconds.       *)
TimeoutPasses ==
  /\ At("drain") /\ ~expired
  /\ timely => Open = {}
  /\ expired' = TRUE
  /\ UNCHANGED <<main, signals, goroutines, review, lnerr, exit, world>>

(* Shutdown may notice the deadline after the last review is answered.     *)
ShutdownTimesOut ==
  /\ At("drain") /\ expired
  /\ Exit("fatal")

-----------------------------------------------------------------------------
(* The goroutines.                                                         *)

(* Also while it is being stopped: mgr.Start returns an error, and not nil *)
(* for the cancelled context, if what it runs does not end within its      *)
(* grace period or fails just then.                                        *)
ManagerFails ==
  /\ Running /\ manager \in {"running", "stopping"}
  /\ Fatal("manager")

ManagerStops ==
  /\ Running /\ manager = "stopping"
  /\ manager' = "stopped"
  /\ UNCHANGED <<main, signals, server, review, ending, world>>

TelemetryFails ==
  /\ Running /\ TelemetryAddress /\ main \notin {"setup", "handlers"}
  /\ Fatal("telemetry")

Listen ==
  /\ Running /\ server = "started" /\ main # "drain"
  /\ server' = "open"
  /\ UNCHANGED <<main, signals, manager, review, ending, world>>

(* The address or the certificate is of no use, or accepting fails.        *)
ServerFails ==
  /\ Running /\ server \in {"started", "open"}
  /\ Fatal("server")

Unserved == server = "closing" \/ (server = "started" /\ main = "drain")

ServerClosedIsFatal == Running /\ Unserved /\ Exit("fatal")        \* mutant

(* The listener is closed, or Shutdown came before it was open: the server *)
(* returns ErrServerClosed, which is no failure.                           *)
ServerClosed ==
  /\ Running /\ Unserved
  /\ server' = "closed"
  /\ UNCHANGED <<main, signals, manager, review, ending, world>>

(* A connection from before Shutdown that brings its first review after it *)
(* is left out.                                                            *)
Accept(r) ==
  /\ Running /\ server = "open"
  /\ review[r] = "none"
  /\ review' = [review EXCEPT ![r] = "open"]
  /\ UNCHANGED <<main, signals, goroutines, ending, world>>

(* The handler returns: it may never do so (main.go:117).                  *)
Answer(r) ==
  /\ Running /\ review[r] = "open"
  /\ review' = [review EXCEPT ![r] = "answered"]
  /\ UNCHANGED <<main, signals, goroutines, ending, world>>

-----------------------------------------------------------------------------
(* SIGINT or SIGTERM, any number of them.                                  *)

Kill ==
  /\ Running /\ ~notified
  /\ Exit("killed")

SignalQueued ==                                                    \* mutant
  /\ Running /\ notified
  /\ stop' = stop + 1
  /\ UNCHANGED <<main, notified, goroutines, review, ending, world>>

(* A signal that finds the channel full is dropped.                        *)
Signal ==
  /\ Running /\ notified
  /\ stop' = 1
  /\ UNCHANGED <<main, notified, goroutines, review, ending, world>>

-----------------------------------------------------------------------------
Main == \/ StartManager \/ StartTelemetry \/ Notify \/ StartServer
        \/ TakeSignal \/ Shutdown \/ ShutdownReturns \/ ShutdownTimesOut

Next ==
  \/ Main \/ SetupFails
  \/ TimeoutPasses
  \/ ManagerFails \/ ManagerStops
  \/ TelemetryFails
  \/ Listen \/ ServerFails \/ ServerClosed
  \/ \E r \in Reviews : Accept(r) \/ Answer(r)
  \/ Signal \/ Kill

Spec == Init /\ [][Next]_vars

(* main runs and time passes.  Handlers return where they are timely; for  *)
(* the rest none need ever do so, and no goroutine need ever be scheduled. *)
FairSpec ==
  /\ Spec
  /\ WF_vars(Main) /\ WF_vars(TimeoutPasses)
  /\ \A r \in Reviews : WF_vars(timely /\ Answer(r))

-----------------------------------------------------------------------------
(* Properties.                                                             *)

TypeOK ==
  /\ failing \subseteq Components /\ timely \in BOOLEAN
  /\ main \in {"setup", "handlers", "notify", "serve", "wait", "cancelled", "drain"}
  /\ notified \in BOOLEAN
  /\ stop \in 0..1
  /\ manager \in {"off", "running", "stopping", "stopped"}
  /\ server \in {"off", "started", "open", "closing", "closed"}
  /\ review \in [Reviews -> {"none", "open", "answered", "cut"}]
  /\ expired \in BOOLEAN /\ lnerr \in BOOLEAN
  /\ exit \in {"none", "ok", "fatal", "killed"}

(* Nothing fails but the setup and the closing of the listener, and the    *)
(* handlers return in time.                                                *)
Benign == failing \subseteq {"setup", "listener"} /\ timely

(* A graceful shutdown (main.go:597, 624): in a benign process no way out, *)
(* neither main's nor that of a goroutine which main stops or closes,      *)
(* takes a review with it once main has the signal (main.go:565-570,       *)
(* 608-640).                                                               *)
GracefulShutdown ==
  Benign /\ main \in {"cancelled", "drain"} => \A r \in Reviews : review[r] # "cut"

(* The signal that ends a pod of the webhook never kills the process with  *)
(* reviews in its hands: it is caught before the first can be accepted     *)
(* (main.go:603-620).                                                      *)
KilledBeforeServing == exit = "killed" => \A r \in Reviews : review[r] = "none"

(* A signal ends the process even if the handlers, the manager or the      *)
(* listener never return (main.go:622-638).                                *)
SignalEnds == stop = 1 ~> exit # "none"
=============================================================================
