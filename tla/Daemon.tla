------------------------------- MODULE Daemon -------------------------------
(***************************************************************************)
(* The lifecycle of passdoqd (src/src/daemon.cpp) and its registry of      *)
(* services (src/src/services.cpp): Daemon::start, stop, the destructor    *)
(* and the calls of the registry on the main thread, Daemon::run on the    *)
(* worker thread, and SIGTERM and SIGINT, whose handler calls stop() on    *)
(* whichever thread it interrupts.  A call of stop() is a frame on the     *)
(* stack of its thread; a handler pushes a frame above whatever the thread *)
(* was doing.                                                              *)
(*                                                                         *)
(* std::signal blocks a signal in the thread that handles it, not the other*)
(* signal and not the other thread.  The main program is not part of the   *)
(* repository: it may start, stop and destroy its Daemon in any order.     *)
(***************************************************************************)
EXTENDS Naturals, Sequences

CONSTANTS
  Daemons,            \* processes configured with the same PID file
  Services,           \* the services each of them may register
  MayFail,            \* the services whose start() may return false
  None,               \* no PID file
  MaxSignals,         \* bound: signals sent to each process
  SignalsInStart,     \* may a signal arrive while start() runs?
  SignalsToWorker     \* may the worker thread be the one that handles it?

ASSUME DaemonAssumption ==
  /\ None \notin Daemons
  /\ MayFail \subseteq Services
  /\ MaxSignals \in Nat
  /\ {SignalsInStart, SignalsToWorker} \subseteq BOOLEAN

VARIABLES
  proc,       \* each process: "alive", "exited", "killed" or "aborted"
  main,       \* where its main thread is, outside stop()
  stack,      \* the stop() frames of its two threads, innermost first
  running,    \* running_
  thread,     \* the worker as the system sees it
  handle,     \* worker_thread_: "null", "joinable" or "joined"
  registered, \* the services in the registry, services_
  up,         \* the services that are running
  handlers,   \* are the signal handlers installed?
  signals,    \* signals still to be sent
  caught,     \* since the last start(), has a handler said "stopping daemon"?
  pidFile,    \* the process the PID file names
  odd         \* history: what happened to each process that its code is not ready for

procVars == <<proc, main, stack, running, thread, handle, up, handlers, signals, caught>>
book == <<registered, odd>>
vars == <<procVars, pidFile, book>>

-----------------------------------------------------------------------------
Threads == {"main", "worker"}
Kinds == {"SIGTERM", "SIGINT"}

InStart == {"write", "install", "services", "running", "spawn", "assign"}
MainPoints == {"idle", "stopping", "destroying", "members"} \cup InStart
StopPoints == {"check", "clear", "join", "services", "remove"}

\* A signal inside start() or on the worker, a service that start() could not
\* start, one that was started by hand while the daemon did not run.
Oddities == {"early", "worker", "failed", "manual"}

\* A call of stop(): why it was made and the statement it is about to execute.
Frames == [why : Kinds \cup {"call"}, at : StopPoints]

TypeOK ==
  /\ proc \in [Daemons -> {"alive", "exited", "killed", "aborted"}]
  /\ main \in [Daemons -> MainPoints]
  /\ stack \in [Daemons -> [Threads -> Seq(Frames)]]
  /\ running \in [Daemons -> BOOLEAN]
  /\ thread \in [Daemons -> {"none", "alive", "exited"}]
  /\ handle \in [Daemons -> {"null", "joinable", "joined"}]
  /\ registered \in [Daemons -> SUBSET Services]
  /\ up \in [Daemons -> SUBSET Services]
  /\ handlers \in [Daemons -> BOOLEAN]
  /\ signals \in [Daemons -> 0 .. MaxSignals]
  /\ caught \in [Daemons -> BOOLEAN]
  /\ pidFile \in Daemons \cup {None}
  /\ odd \in [Daemons -> SUBSET Oddities]

Init ==
  /\ proc = [d \in Daemons |-> "alive"]
  /\ main = [d \in Daemons |-> "idle"]
  /\ stack = [d \in Daemons |-> [t \in Threads |-> <<>>]]
  /\ running = [d \in Daemons |-> FALSE]
  /\ thread = [d \in Daemons |-> "none"]
  /\ handle = [d \in Daemons |-> "null"]
  /\ registered = [d \in Daemons |-> {}]
  /\ up = [d \in Daemons |-> {}]
  /\ handlers = [d \in Daemons |-> FALSE]
  /\ signals = [d \in Daemons |-> MaxSignals]
  /\ caught = [d \in Daemons |-> FALSE]
  /\ pidFile = None
  /\ odd = [d \in Daemons |-> {}]

\* The process is over, with its threads and the services they ran.
Ends(d, how) ==
  /\ proc' = [proc EXCEPT ![d] = how]
  /\ stack' = [stack EXCEPT ![d] = [t \in Threads |-> <<>>]]
  /\ thread' = [thread EXCEPT ![d] = "exited"]
  /\ running' = [running EXCEPT ![d] = FALSE]
  /\ up' = [up EXCEPT ![d] = {}]

Free(d, t) == proc[d] = "alive" /\ stack[d][t] = <<>>

MainAt(d, point) == Free(d, "main") /\ main[d] = point
MainGoes(d, point) == main' = [main EXCEPT ![d] = point]

Notes(d, what) == odd' = [odd EXCEPT ![d] = @ \cup what]

-----------------------------------------------------------------------------
\* Daemon::start, one action per statement another thread or a handler can see.
Start(d) ==
  /\ MainAt(d, "idle")
  /\ ~running[d]
  /\ MainGoes(d, "write")
  /\ caught' = [caught EXCEPT ![d] = FALSE]
  /\ UNCHANGED <<proc, stack, running, thread, handle, up, handlers, signals, pidFile, book>>

\* Mutant: start() goes on without a PID file.
WritePidFile_Ignored(d) ==
  /\ MainAt(d, "write")
  /\ MainGoes(d, "install")
  /\ pidFile' \in {pidFile, d}
  /\ UNCHANGED <<proc, stack, running, thread, handle, up, handlers, signals, caught, book>>

\* daemonize() or opening the PID file may fail.
WritePidFile(d) ==
  /\ MainAt(d, "write")
  /\ \/ MainGoes(d, "idle") /\ UNCHANGED pidFile
     \/ MainGoes(d, "install") /\ pidFile' = d
  /\ UNCHANGED <<proc, stack, running, thread, handle, up, handlers, signals, caught, book>>

InstallHandlers(d) ==
  /\ MainAt(d, "install")
  /\ MainGoes(d, "services")
  /\ handlers' = [handlers EXCEPT ![d] = TRUE]
  /\ UNCHANGED <<proc, stack, running, thread, handle, up, signals, caught, pidFile, book>>

\* ServiceRegistry::start_all starts every service it can; start() gives up if
\* one failed, and leaves the others up and the PID file written.
StartServices(d) ==
  /\ MainAt(d, "services")
  /\ \E failed \in SUBSET (MayFail \cap registered[d]) :
       /\ up' = [up EXCEPT ![d] = @ \cup (registered[d] \ failed)]
       /\ IF failed = {} THEN MainGoes(d, "running") /\ UNCHANGED odd
                         ELSE MainGoes(d, "idle") /\ Notes(d, {"failed"})
  /\ UNCHANGED <<proc, stack, running, thread, handle, handlers, signals, caught, pidFile, registered>>

SetRunning(d) ==
  /\ MainAt(d, "running")
  /\ running' = [running EXCEPT ![d] = TRUE]
  /\ MainGoes(d, "spawn")
  /\ UNCHANGED <<proc, stack, thread, handle, up, handlers, signals, caught, pidFile, book>>

\* make_unique<thread>: the worker runs before worker_thread_ knows it.
Spawn(d) ==
  /\ MainAt(d, "spawn")
  /\ thread' = [thread EXCEPT ![d] = "alive"]
  /\ MainGoes(d, "assign")
  /\ UNCHANGED <<proc, stack, running, handle, up, handlers, signals, caught, pidFile, book>>

\* Assigning over a thread that was never joined destroys it: std::terminate.
Assign(d) ==
  /\ MainAt(d, "assign")
  /\ \/ /\ handle[d] # "joinable"
        /\ handle' = [handle EXCEPT ![d] = "joinable"]
        /\ MainGoes(d, "idle")
        /\ UNCHANGED <<proc, stack, running, thread, up>>
     \/ /\ handle[d] = "joinable"
        /\ Ends(d, "aborted")
        /\ UNCHANGED <<main, handle>>
  /\ UNCHANGED <<handlers, signals, caught, pidFile, book>>

-----------------------------------------------------------------------------
\* The registry of the daemon, services(): the main program may call it while the
\* daemon runs or not.  Each call is one step: a handler that would run stop_all
\* inside one of them is left out.
Registry(d) ==
  /\ MainAt(d, "idle")
  /\ UNCHANGED <<proc, main, stack, running, thread, handle, handlers, signals, caught, pidFile>>

Register(d, s) ==
  /\ Registry(d)
  /\ s \notin registered[d]
  /\ registered' = [registered EXCEPT ![d] = @ \cup {s}]
  /\ UNCHANGED <<up, odd>>

\* Mutant: the service is erased as it is.
Unregister_Running(d, s) ==
  /\ Registry(d)
  /\ registered' = [registered EXCEPT ![d] = @ \ {s}]
  /\ UNCHANGED <<up, odd>>

\* A service that runs is stopped before it is erased.
Unregister(d, s) ==
  /\ Registry(d)
  /\ registered' = [registered EXCEPT ![d] = @ \ {s}]
  /\ up' = [up EXCEPT ![d] = @ \ {s}]
  /\ UNCHANGED odd

StartService(d, s) ==
  /\ Registry(d)
  /\ s \in registered[d]
  /\ up' = [up EXCEPT ![d] = @ \cup {s}]
  /\ Notes(d, IF running[d] THEN {} ELSE {"manual"})
  /\ UNCHANGED registered

StopService(d, s) ==
  /\ Registry(d)
  /\ up' = [up EXCEPT ![d] = @ \ {s}]
  /\ UNCHANGED book

\* restart_service stops the service and starts it, which may fail.
RestartService(d, s) == StartService(d, s) \/ (s \in MayFail /\ StopService(d, s))

UseRegistry(d) == \E s \in Services :
  Register(d, s) \/ Unregister(d, s) \/ StopService(d, s) \/ RestartService(d, s)

-----------------------------------------------------------------------------
Push(d, t, why) ==
  stack' = [stack EXCEPT ![d][t] = <<[why |-> why, at |-> "check"]>> \o @]

\* The main program calls stop(), or destroys the Daemon, whose destructor does.
CallStop(d) ==
  /\ MainAt(d, "idle")
  /\ \E point \in {"stopping", "destroying"} : MainGoes(d, point)
  /\ Push(d, "main", "call")
  /\ UNCHANGED <<proc, running, thread, handle, up, handlers, signals, caught, pidFile, book>>

StopReturned(d) ==
  /\ MainAt(d, "stopping")
  /\ MainGoes(d, "idle")
  /\ UNCHANGED <<proc, stack, running, thread, handle, up, handlers, signals, caught, pidFile, book>>

\* The destructor clears instance_ ...
ClearInstance(d) ==
  /\ MainAt(d, "destroying")
  /\ MainGoes(d, "members")
  /\ UNCHANGED <<proc, stack, running, thread, handle, up, handlers, signals, caught, pidFile, book>>

\* ... and destroys the members: worker_thread_ terminates the process when it
\* is still joinable, ~ServiceRegistry stops every service.
DestroyMembers(d) ==
  /\ MainAt(d, "members")
  /\ Ends(d, IF handle[d] = "joinable" THEN "aborted" ELSE "exited")
  /\ UNCHANGED <<main, handle, handlers, signals, caught, pidFile, book>>

\* One statement of the innermost stop() of thread t.
At(d, t, point) ==
  proc[d] = "alive" /\ stack[d][t] # <<>> /\ Head(stack[d][t]).at = point
Goes(d, t, point) == stack' = [stack EXCEPT ![d][t][1].at = point]
Pops(d, t) == stack' = [stack EXCEPT ![d][t] = Tail(@)]

StopCheck(d, t) ==
  /\ At(d, t, "check")
  /\ IF running[d] THEN Goes(d, t, "clear") ELSE Pops(d, t)
  /\ UNCHANGED <<proc, main, running, thread, handle, up, handlers, signals, caught, pidFile, book>>

\* Mutant: stop() joins a worker that was never told to stop.
StopClear_Forgotten(d, t) ==
  /\ At(d, t, "clear")
  /\ Goes(d, t, "join")
  /\ UNCHANGED <<proc, main, running, thread, handle, up, handlers, signals, caught, pidFile, book>>

StopClear(d, t) ==
  /\ At(d, t, "clear")
  /\ running' = [running EXCEPT ![d] = FALSE]
  /\ Goes(d, t, "join")
  /\ UNCHANGED <<proc, main, thread, handle, up, handlers, signals, caught, pidFile, book>>

\* Mutant: the worker is detached, not joined.
StopJoin_Detaches(d, t) ==
  /\ At(d, t, "join")
  /\ handle' = [handle EXCEPT ![d] = IF @ = "joinable" THEN "detached" ELSE @]
  /\ Goes(d, t, "services")
  /\ UNCHANGED <<proc, main, running, thread, up, handlers, signals, caught, pidFile, book>>

\* Mutant: stop() goes on without joining.
StopJoin_Skipped(d, t) ==
  /\ At(d, t, "join")
  /\ Goes(d, t, "services")
  /\ UNCHANGED <<proc, main, running, thread, handle, up, handlers, signals, caught, pidFile, book>>

\* join() waits for the worker; on the worker itself it throws and, with nobody
\* to catch it, terminates the process.
StopJoin(d, t) ==
  /\ At(d, t, "join")
  /\ \/ handle[d] # "joinable" /\ Goes(d, t, "services") /\ UNCHANGED <<proc, running, thread, handle, up>>
     \/ /\ handle[d] = "joinable"
        /\ t = "main"
        /\ thread[d] = "exited"
        /\ handle' = [handle EXCEPT ![d] = "joined"]
        /\ Goes(d, t, "services")
        /\ UNCHANGED <<proc, running, thread, up>>
     \/ /\ handle[d] = "joinable"
        /\ t = "worker"
        /\ Ends(d, "aborted")
        /\ UNCHANGED handle
  /\ UNCHANGED <<main, handlers, signals, caught, pidFile, book>>

\* ServiceRegistry::stop_all calls every service; a stop() that fails is taken
\* to leave its service down all the same.
StopServices(d, t) ==
  /\ At(d, t, "services")
  /\ up' = [up EXCEPT ![d] = {}]
  /\ Goes(d, t, "remove")
  /\ UNCHANGED <<proc, main, running, thread, handle, handlers, signals, caught, pidFile, book>>

\* unlink, whoever wrote the file.
RemovePidFile(d, t) ==
  /\ At(d, t, "remove")
  /\ pidFile' = None
  /\ Pops(d, t)
  /\ UNCHANGED <<proc, main, running, thread, handle, up, handlers, signals, caught, book>>

Stop(d, t) ==
  \/ StopCheck(d, t) \/ StopClear(d, t) \/ StopJoin(d, t)
  \/ StopServices(d, t) \/ RemovePidFile(d, t)

-----------------------------------------------------------------------------
\* The worker sleeps and looks at running_ again.
WorkerExits(d) ==
  /\ Free(d, "worker")
  /\ thread[d] = "alive"
  /\ ~running[d]
  /\ thread' = [thread EXCEPT ![d] = "exited"]
  /\ UNCHANGED <<proc, main, stack, running, handle, up, handlers, signals, caught, pidFile, book>>

\* A signal reaches a thread that does not handle that signal already.  Without
\* handlers it kills the process; once instance_ is cleared it does nothing.
Signal(d, t, why) ==
  /\ proc[d] = "alive"
  /\ signals[d] > 0
  /\ signals' = [signals EXCEPT ![d] = @ - 1]
  /\ main[d] \in InStart => SignalsInStart
  /\ t = "worker" => SignalsToWorker /\ thread[d] = "alive"
  /\ \A i \in DOMAIN stack[d][t] : stack[d][t][i].why # why
  /\ \/ ~handlers[d] /\ Ends(d, "killed") /\ UNCHANGED caught
     \/ /\ handlers[d]
        /\ IF main[d] = "members" THEN UNCHANGED <<stack, caught>>
           ELSE Push(d, t, why) /\ caught' = [caught EXCEPT ![d] = TRUE]
        /\ UNCHANGED <<proc, running, thread, up>>
  /\ Notes(d, (IF main[d] \in InStart THEN {"early"} ELSE {}) \cup (IF t = "worker" THEN {t} ELSE {}))
  /\ UNCHANGED <<main, handle, handlers, pidFile, registered>>

\* What a thread does next once it is inside a call; calls themselves are the
\* choice of the main program.
MainStep(d) ==
  \/ WritePidFile(d) \/ InstallHandlers(d) \/ StartServices(d) \/ SetRunning(d)
  \/ Spawn(d) \/ Assign(d) \/ StopReturned(d) \/ ClearInstance(d) \/ DestroyMembers(d)
  \/ Stop(d, "main")

WorkerStep(d) == WorkerExits(d) \/ Stop(d, "worker")

Next == \E d \in Daemons :
  \/ Start(d) \/ CallStop(d) \/ UseRegistry(d) \/ MainStep(d) \/ WorkerStep(d)
  \/ \E t \in Threads, why \in Kinds : Signal(d, t, why)

\* The scheduler runs both threads; nobody has to call or to send a signal.
Fairness == \A d \in Daemons : WF_vars(MainStep(d)) /\ WF_vars(WorkerStep(d))

Spec == Init /\ [][Next]_vars /\ Fairness

-----------------------------------------------------------------------------
\* While a daemon runs the PID file names it (start writes the file before
\* running_ is set, stop clears running_ before it removes the file), however
\* often and by whatever handler it was stopped; only a handler that the worker
\* ran inside start() may remove it later.
PidFileNamesRunning == \A d \in Daemons :
  running[d] => pidFile = d \/ {"early", "worker"} \subseteq odd[d]

\* daemon.cpp:70 "Wait for worker thread": past the join no worker is alive,
\* unless a signal came inside start().
StopWaitsForWorker ==
  \A d \in Daemons, t \in Threads : \A i \in DOMAIN stack[d][t] :
    stack[d][t][i].at \in {"services", "remove"} /\ "early" \notin odd[d] => thread[d] # "alive"

\* daemon.cpp:63-83, services.cpp:31-44: no service runs that the registry has
\* forgotten, and a daemon that is neither running nor inside start() or stop()
\* has no worker, no service and no PID file, however often it was started and
\* whichever stop(), called or nested in a handler, came first.
NothingLeftBehind == \A d \in Daemons :
  /\ up[d] \subseteq registered[d]
  /\ MainAt(d, "idle") /\ Free(d, "worker") /\ ~running[d] =>
       /\ thread[d] = "alive" => "early" \in odd[d]
       /\ up[d] # {} => odd[d] \cap {"early", "failed", "manual"} # {}
       /\ pidFile = d => odd[d] \cap {"early", "failed"} # {}

\* daemon.cpp:173 "stopping daemon": no order of signals, stops and starts ends
\* in std::terminate, unless a signal came inside start() or on the worker.
NeverAborts == \A d \in Daemons : proc[d] = "aborted" => odd[d] \cap {"early", "worker"} # {}

\* daemon.cpp:173 "stopping daemon": once a handler has said so, the daemon
\* comes to a point where it is not running and stays there, unless its main
\* program starts it again.
Stopped(d) == ~running[d] /\ main[d] \notin InStart
CaughtStops == \A d \in Daemons : caught[d] ~> Stopped(d)

\* The same for signals that come when start() is over.
LateSignalStops == \A d \in Daemons : caught[d] ~> Stopped(d) \/ "early" \in odd[d]

\* stop() returns: join() never waits for a worker that waits for it.
StopReturns == \A d \in Daemons, t \in Threads :
  stack[d][t] # <<>> ~> stack[d][t] = <<>>

=============================================================================
