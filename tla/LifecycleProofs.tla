-------------------------- MODULE LifecycleProofs ---------------------------
(***************************************************************************)
(* The safety properties of Lifecycle, for any number of reviews.  They    *)
(* need to be proved together with the order in which main does things:    *)
(* signals are caught before the server exists, nothing is accepted before *)
(* it does, and the listener is closed before the deadline can pass.       *)
(***************************************************************************)
EXTENDS Lifecycle, TLAPS

NoneTaken == \A r \in Reviews : review[r] = "none"

StartInOrder ==
  /\ main \in {"setup", "handlers", "notify"} \/ notified
  /\ main \in {"setup", "handlers", "notify", "serve"} => server = "off"
  /\ server = "off" => NoneTaken

CutAtExit == Running => \A r \in Reviews : review[r] # "cut"

LifecycleInv ==
  /\ TypeOK
  /\ StartInOrder
  /\ CutAtExit
  /\ KilledBeforeServing

(* What a graceful shutdown rests on besides.                              *)
GracefulInv ==
  Benign => /\ main = "drain" => server # "open"
            /\ expired => main = "drain" /\ Open = {}
            /\ GracefulShutdown

(* Whatever ends the process cuts the open reviews and no others.          *)
LEMMA ExitCuts ==
  ASSUME TypeOK, NEW code, Exit(code)
  PROVE  /\ review' \in [Reviews -> {"none", "open", "answered", "cut"}]
         /\ NoneTaken => NoneTaken'
         /\ (Open = {} /\ CutAtExit /\ Running)
              => \A r \in Reviews : review'[r] # "cut"
  BY DEF TypeOK, Exit, NoneTaken, Open, CutAtExit, Running

(* A way out of the process that is none of a signal's.                    *)
LEMMA ExitKeeps ==
  ASSUME LifecycleInv, NEW code \in {"ok", "fatal"}, Exit(code)
  PROVE  LifecycleInv'
<1> USE DEF LifecycleInv, Exit, signals, goroutines, world
<1>1. TypeOK'
  <2>1. notified' \in BOOLEAN /\ expired' \in BOOLEAN /\ lnerr' \in BOOLEAN /\ timely' \in BOOLEAN
    BY Zenon DEF TypeOK
  <2> QED
    BY <2>1, ExitCuts DEF TypeOK
<1>2. StartInOrder'
  BY ExitCuts DEF StartInOrder
<1>3. CutAtExit' /\ KilledBeforeServing'
  BY DEF CutAtExit, Running, KilledBeforeServing
<1> QED
  BY <1>1, <1>2, <1>3

(* The steps of main.                                                      *)
LEMMA MainKeeps == LifecycleInv /\ Main => LifecycleInv'
<1> SUFFICES ASSUME LifecycleInv, Main PROVE LifecycleInv'
  OBVIOUS
<1> USE DEF LifecycleInv, signals, goroutines, ending, world
<1>1. CASE StartManager \/ StartTelemetry \/ Notify \/ StartServer \/ TakeSignal
           \/ Shutdown
  <2> USE <1>1 DEF StartManager, StartTelemetry, Notify, StartServer, TakeSignal,
                   Shutdown, At, Running
  <2>1. TypeOK'
    <3>1. stop' \in 0..1
      BY DEF TypeOK
    <3>2. notified' \in BOOLEAN /\ expired' \in BOOLEAN /\ lnerr' \in BOOLEAN /\ timely' \in BOOLEAN
      BY Zenon DEF TypeOK
    <3> QED
      BY <3>1, <3>2 DEF TypeOK
  <2>2. StartInOrder'
    BY DEF StartInOrder, NoneTaken, TypeOK
  <2>3. CutAtExit' /\ KilledBeforeServing'
    BY DEF CutAtExit, KilledBeforeServing
  <2> QED
    BY <2>1, <2>2, <2>3
<1>2. CASE ShutdownReturns \/ ShutdownTimesOut
  BY <1>2, ExitKeeps DEF ShutdownReturns, ShutdownTimesOut
<1> QED
  BY <1>1, <1>2 DEF Main

(* A signal before signal.Notify finds no server yet.                      *)
LEMMA KillKeeps == LifecycleInv /\ Kill => LifecycleInv'
<1> SUFFICES ASSUME LifecycleInv, Kill PROVE LifecycleInv'
  OBVIOUS
<1> USE DEF LifecycleInv, Kill, signals, goroutines, world
<1>1. NoneTaken
  BY DEF StartInOrder
<1>2. TypeOK'
  <2>1. notified' \in BOOLEAN /\ expired' \in BOOLEAN /\ lnerr' \in BOOLEAN /\ timely' \in BOOLEAN
    BY Zenon DEF TypeOK, Exit
  <2> QED
    BY <2>1, ExitCuts DEF TypeOK, Exit
<1>3. StartInOrder' /\ NoneTaken'
  BY <1>1, ExitCuts DEF StartInOrder, Exit
<1>4. CutAtExit' /\ KilledBeforeServing'
  BY <1>3 DEF Exit, CutAtExit, Running, NoneTaken, KilledBeforeServing
<1> QED
  BY <1>2, <1>3, <1>4

(* The goroutines, the timer and the signals that are caught.              *)
LEMMA OthersKeep ==
  ASSUME LifecycleInv,
         \/ TimeoutPasses \/ ManagerStops \/ Listen \/ ServerClosed \/ Signal
         \/ \E r \in Reviews : Accept(r) \/ Answer(r)
  PROVE  LifecycleInv'
<1> USE DEF LifecycleInv, signals, goroutines, ending, world, Running
<1>1. CASE TimeoutPasses \/ ManagerStops \/ Listen \/ ServerClosed \/ Signal
  <2> USE <1>1 DEF TimeoutPasses, ManagerStops, Listen, ServerClosed, Unserved, Signal, At
  <2>1. TypeOK'
    <3>1. stop' \in 0..1
      BY DEF TypeOK
    <3>2. notified' \in BOOLEAN /\ expired' \in BOOLEAN /\ lnerr' \in BOOLEAN /\ timely' \in BOOLEAN
      BY Zenon DEF TypeOK
    <3> QED
      BY <3>1, <3>2 DEF TypeOK
  <2>2. StartInOrder'
    BY DEF StartInOrder, NoneTaken, TypeOK
  <2>3. CutAtExit' /\ KilledBeforeServing'
    BY DEF CutAtExit, KilledBeforeServing
  <2> QED
    BY <2>1, <2>2, <2>3
<1>2. ASSUME NEW r \in Reviews, Accept(r) \/ Answer(r)
      PROVE  LifecycleInv'
  <2> USE <1>2 DEF Accept, Answer
  <2>1. TypeOK'
    BY DEF TypeOK
  <2>2. StartInOrder'
    BY DEF StartInOrder, NoneTaken, TypeOK
  <2>3. CutAtExit' /\ KilledBeforeServing'
    BY DEF CutAtExit, KilledBeforeServing, TypeOK
  <2> QED
    BY <2>1, <2>2, <2>3
<1> QED
  BY <1>1, <1>2

LEMMA LifecycleStep == LifecycleInv /\ [Next]_vars => LifecycleInv'
<1> SUFFICES ASSUME LifecycleInv, [Next]_vars PROVE LifecycleInv'
  OBVIOUS
<1>1. CASE Main
  BY <1>1, MainKeeps
<1>2. CASE Kill
  BY <1>2, KillKeeps
<1>3. CASE SetupFails \/ ManagerFails \/ TelemetryFails \/ ServerFails
  BY <1>3, ExitKeeps DEF SetupFails, ManagerFails, TelemetryFails, ServerFails, Fatal
<1>4. CASE \/ TimeoutPasses \/ ManagerStops \/ Listen \/ ServerClosed \/ Signal
           \/ \E r \in Reviews : Accept(r) \/ Answer(r)
  BY <1>4, OthersKeep
<1>5. CASE UNCHANGED vars
  BY <1>5 DEF vars, signals, goroutines, ending, world, LifecycleInv, TypeOK, StartInOrder,
              NoneTaken, CutAtExit, Running, KilledBeforeServing
<1> QED
  BY <1>1, <1>2, <1>3, <1>4, <1>5 DEF Next

LEMMA LifecycleInvariant == Spec => []LifecycleInv
<1>1. Init => LifecycleInv
  <2> SUFFICES ASSUME Init PROVE LifecycleInv
    OBVIOUS
  <2>1. notified \in BOOLEAN /\ expired \in BOOLEAN /\ lnerr \in BOOLEAN /\ timely \in BOOLEAN
    BY Zenon DEF Init
  <2> QED
    BY <2>1 DEF Init, LifecycleInv, TypeOK, StartInOrder, NoneTaken, CutAtExit, Running,
                KilledBeforeServing
<1> QED
  BY <1>1, LifecycleStep, PTL DEF Spec

(* TypeOK: the channel of signals holds one at most, whenever they come.   *)
THEOREM LifecycleTypeCorrect == Spec => []TypeOK
<1>1. LifecycleInv => TypeOK
  BY DEF LifecycleInv
<1> QED
  BY <1>1, LifecycleInvariant, PTL

(* KilledBeforeServing: no signal kills a process that has accepted a      *)
(* review (main.go:603-620).                                               *)
THEOREM SignalsAreCaught == Spec => []KilledBeforeServing
<1>1. LifecycleInv => KilledBeforeServing
  BY DEF LifecycleInv
<1> QED
  BY <1>1, LifecycleInvariant, PTL

-----------------------------------------------------------------------------
(* What may go wrong in a process is settled when it starts.               *)
LEMMA WorldStays == [Next]_vars => UNCHANGED world
<1> USE DEF Exit
<1>1. SetupFails \/ ManagerFails \/ TelemetryFails \/ ServerFails \/ Kill => UNCHANGED world
  BY DEF SetupFails, ManagerFails, TelemetryFails, ServerFails, Kill, Fatal
<1>2. Main => UNCHANGED world
  BY DEF Main, StartManager, StartTelemetry, Notify, StartServer, TakeSignal, Shutdown,
         ShutdownReturns, ShutdownTimesOut
<1>3. TimeoutPasses \/ ManagerStops \/ Listen \/ ServerClosed \/ Signal
        => UNCHANGED world
  BY DEF TimeoutPasses, ManagerStops, Listen, ServerClosed, Signal
<1>4. (\E r \in Reviews : Accept(r) \/ Answer(r)) => UNCHANGED world
  BY DEF Accept, Answer
<1> QED
  BY <1>1, <1>2, <1>3, <1>4 DEF Next, vars, world

(* The steps by which the process ends.                                    *)
LEMMA EndsGracefully ==
  ASSUME Benign, LifecycleInv, GracefulInv,
         \/ SetupFails \/ ManagerFails \/ TelemetryFails \/ ServerFails \/ Kill
         \/ ShutdownReturns \/ ShutdownTimesOut
  PROVE  GracefulInv'
<1> USE DEF signals, goroutines, world, Exit, Open
<1>1. CASE SetupFails \/ Kill
  <2>1. main \notin {"cancelled", "drain"} /\ ~expired
    BY <1>1 DEF SetupFails, Kill, At, LifecycleInv, StartInOrder, GracefulInv
  <2>2. main' = main /\ expired' = expired
    BY <1>1 DEF SetupFails, Kill, Fatal
  <2> QED
    BY <2>1, <2>2 DEF GracefulInv, GracefulShutdown
<1>2. CASE ShutdownReturns \/ ShutdownTimesOut
  <2>1. Open = {} /\ Running /\ main = "drain"
    BY <1>2 DEF ShutdownReturns, ShutdownTimesOut, At, GracefulInv
  <2>2. review' = review
    BY <1>2, <2>1 DEF ShutdownReturns, ShutdownTimesOut, LifecycleInv, TypeOK
  <2>3. UNCHANGED <<main, server, expired>>
    BY <1>2 DEF ShutdownReturns, ShutdownTimesOut
  <2> QED
    BY <2>1, <2>2, <2>3 DEF GracefulInv, GracefulShutdown
<1>3. ~(ManagerFails \/ TelemetryFails \/ ServerFails)
  BY DEF Benign, ManagerFails, TelemetryFails, ServerFails, Fatal
<1> QED
  BY <1>1, <1>2, <1>3

(* The other steps leave the process running.                              *)
LEMMA RunsGracefully ==
  ASSUME Benign, LifecycleInv, GracefulInv,
         \/ StartManager \/ StartTelemetry \/ Notify \/ StartServer \/ TakeSignal
         \/ Shutdown \/ TimeoutPasses \/ ManagerStops \/ Listen \/ ServerClosed
         \/ Signal \/ \E r \in Reviews : Accept(r) \/ Answer(r)
  PROVE  GracefulInv'
<1> USE DEF signals, goroutines, ending, world, Running, At
<1>1. Running /\ \A r \in Reviews : review[r] # "cut"
  BY DEF StartManager, StartTelemetry, Notify, StartServer, TakeSignal, Shutdown,
         TimeoutPasses, ManagerStops, Listen, ServerClosed, Signal, Accept, Answer,
         LifecycleInv, CutAtExit
<1>2. CASE \E r \in Reviews : Accept(r) \/ Answer(r)
  <2>1. PICK r \in Reviews : Accept(r) \/ Answer(r)
    BY <1>2
  <2>2. UNCHANGED <<main, server, expired>>
    BY <2>1 DEF Accept, Answer
  <2>3. GracefulShutdown'
    BY <1>1, <2>1 DEF Accept, Answer, GracefulShutdown, LifecycleInv, TypeOK
  <2>4. expired => main = "drain" /\ Open' = {}
    BY <2>1 DEF Accept, Answer, GracefulInv, Open, LifecycleInv, TypeOK
  <2> QED
    BY <2>2, <2>3, <2>4 DEF GracefulInv
<1>3. CASE \/ StartManager \/ StartTelemetry \/ Notify \/ StartServer \/ TakeSignal
           \/ Shutdown \/ TimeoutPasses \/ ManagerStops \/ Listen \/ ServerClosed
           \/ Signal
  <2> USE <1>3 DEF StartManager, StartTelemetry, Notify, StartServer, TakeSignal,
                   Shutdown, TimeoutPasses, ManagerStops, Listen, ServerClosed,
                   Unserved, Signal
  <2>1. Open' = Open /\ GracefulShutdown'
    BY <1>1 DEF Open, GracefulShutdown
  <2>2. main' = "drain" => server' # "open"
    BY DEF GracefulInv
  <2>3. expired' => main' = "drain" /\ Open = {}
    BY DEF GracefulInv, Benign
  <2> QED
    BY <2>1, <2>2, <2>3 DEF GracefulInv
<1> QED
  BY <1>2, <1>3

(* GracefulShutdown: in a process where only the setup or the closing of   *)
(* the listener may fail and handlers return within shutdown_timeout, a    *)
(* shutdown cuts no review off, whenever the signal comes (main.go:565-570,*)
(* 608-640).                                                               *)
THEOREM ShutdownIsGraceful == Spec => []GracefulShutdown
<1>1. Init => GracefulInv
  BY DEF Init, GracefulInv, GracefulShutdown
<1>2. LifecycleInv /\ GracefulInv /\ [Next]_vars => GracefulInv'
  <2> SUFFICES ASSUME LifecycleInv, GracefulInv, [Next]_vars PROVE GracefulInv'
    OBVIOUS
  <2>1. CASE ~Benign
    BY <2>1, WorldStays DEF GracefulInv, Benign, world
  <2>2. CASE UNCHANGED vars
    BY <2>2 DEF vars, signals, goroutines, ending, world, GracefulInv, Benign,
                GracefulShutdown, Open
  <2> QED
    BY <2>1, <2>2, EndsGracefully, RunsGracefully DEF Next, Main
<1>3. GracefulInv => GracefulShutdown
  BY DEF GracefulInv, GracefulShutdown
<1> QED
  BY <1>1, <1>2, <1>3, LifecycleInvariant, PTL DEF Spec
=============================================================================
