---------------------------- MODULE DaemonProofs ----------------------------
(***************************************************************************)
(* Theorems about Daemon, for any number of processes, services and        *)
(* signals: the types and the promises of stop(); for one daemon, that the *)
(* PID file names it while it runs.                                        *)
(*                                                                         *)
(* Of the calls of stop() on a stack only the statements they are at       *)
(* matter.  A step concerns one process, so that the invariants are stated *)
(* of one process.                                                         *)
(***************************************************************************)
EXTENDS Daemon, TLAPS

Points(d, t) == {stack[d][t][i].at : i \in DOMAIN stack[d][t]}

Stacks == [Daemons -> [Threads -> Seq(Frames)]]

\* Nothing but the stack of thread t of d changes, and it stays a stack.
Only(d, t) ==
  /\ stack' \in Stacks
  /\ \A u \in Threads \ {t} : stack'[d][u] = stack[d][u]
  /\ \A e \in Daemons \ {d} : stack'[e] = stack[e]

-----------------------------------------------------------------------------
\* What pushing a call of stop(), going on in it and returning from it do to the
\* statements on the stack.
LEMMA PushPoints ==
  ASSUME stack \in Stacks, NEW d \in Daemons, NEW t \in Threads,
         NEW why \in Kinds \cup {"call"}, Push(d, t, why)
  PROVE  Only(d, t) /\ Points(d, t)' = Points(d, t) \cup {"check"}
<1> DEFINE s == stack[d][t]
           frame == [why |-> why, at |-> "check"]
           new == <<frame>> \o s
<1>1. s \in Seq(Frames) /\ frame \in Frames
  BY DEF Stacks, Frames, StopPoints
<1>2. /\ new \in Seq(Frames)
      /\ DOMAIN new = 1 .. Len(s) + 1
      /\ DOMAIN s = 1 .. Len(s)
      /\ new[1] = frame
      /\ \A i \in 1 .. Len(s) : new[i + 1] = s[i]
  BY <1>1
<1>3. stack'[d][t] = new /\ Only(d, t)
  BY <1>2 DEF Push, Only, Stacks
<1> HIDE DEF new
<1>4. {new[i].at : i \in DOMAIN new} = {s[i].at : i \in DOMAIN s} \cup {"check"}
  <2>1. ASSUME NEW i \in DOMAIN new PROVE new[i].at \in {s[j].at : j \in DOMAIN s} \cup {"check"}
    <3>1. CASE i = 1
      BY <1>2, <3>1
    <3>2. CASE i # 1
      <4>1. i - 1 \in 1 .. Len(s) /\ Len(s) \in Nat /\ (i - 1) + 1 = i
        BY <1>1, <1>2, <3>2
      <4> QED
        BY <1>2, <4>1
    <3> QED
      BY <3>1, <3>2
  <2>2. "check" \in {new[i].at : i \in DOMAIN new}
    BY <1>1, <1>2
  <2>3. ASSUME NEW i \in DOMAIN s PROVE s[i].at \in {new[j].at : j \in DOMAIN new}
    BY <1>1, <1>2, i + 1 \in 1 .. Len(s) + 1
  <2> QED
    BY <2>1, <2>2, <2>3
<1> QED
  BY <1>3, <1>4 DEF Points

LEMMA GoesPoints ==
  ASSUME stack \in Stacks, NEW d \in Daemons, NEW t \in Threads, NEW at \in StopPoints,
         NEW point \in StopPoints, At(d, t, at), Goes(d, t, point)
  PROVE  /\ Only(d, t)
         /\ at \in Points(d, t) /\ point \in Points(d, t)'
         /\ Points(d, t)' \subseteq Points(d, t) \cup {point}
         /\ Points(d, t) \subseteq Points(d, t)' \cup {at}
<1> DEFINE s == stack[d][t]
           new == [s EXCEPT ![1].at = point]
<1>1. s \in Seq(Frames) /\ s # <<>> /\ s[1].at = at
  BY DEF Stacks, At
<1>2. 1 \in DOMAIN s /\ s[1] \in Frames
  BY <1>1
<1>3. [s[1] EXCEPT !.at = point] \in Frames /\ [s[1] EXCEPT !.at = point].at = point
  BY <1>2 DEF Frames
<1>4. /\ new \in Seq(Frames)
      /\ DOMAIN new = DOMAIN s
      /\ new[1].at = point
      /\ \A i \in DOMAIN s \ {1} : new[i] = s[i]
  BY <1>1, <1>2, <1>3
<1>5. stack' = [stack EXCEPT ![d] = [@ EXCEPT ![t] = new]]
  BY DEF Goes, Stacks
<1>6. stack'[d][t] = new /\ Only(d, t)
  BY <1>4, <1>5 DEF Only, Stacks
<1> HIDE DEF new
<1>7. Points(d, t) = {s[i].at : i \in DOMAIN s} /\ Points(d, t)' = {new[i].at : i \in DOMAIN s}
  BY <1>4, <1>6 DEF Points
<1> HIDE DEF s
<1>8. at \in Points(d, t) /\ point \in Points(d, t)'
  BY <1>1, <1>2, <1>4, <1>7
<1>9. Points(d, t)' \subseteq Points(d, t) \cup {point}
  BY <1>4, <1>7
<1>10. Points(d, t) \subseteq Points(d, t)' \cup {at}
  BY <1>1, <1>4, <1>7
<1> QED
  BY <1>6, <1>8, <1>9, <1>10

LEMMA PopsPoints ==
  ASSUME stack \in Stacks, NEW d \in Daemons, NEW t \in Threads, NEW at \in StopPoints,
         At(d, t, at), Pops(d, t)
  PROVE  /\ Only(d, t)
         /\ at \in Points(d, t)
         /\ Points(d, t)' \subseteq Points(d, t)
         /\ Points(d, t) \subseteq Points(d, t)' \cup {at}
<1> DEFINE s == stack[d][t]
           new == Tail(s)
<1>1. s \in Seq(Frames) /\ s # <<>> /\ s[1].at = at
  BY DEF Stacks, At
<1>2. /\ new \in Seq(Frames)
      /\ DOMAIN s = 1 .. Len(s) /\ DOMAIN new = 1 .. Len(s) - 1 /\ Len(s) \in Nat \ {0}
      /\ \A i \in 1 .. Len(s) - 1 : new[i] = s[i + 1]
  BY <1>1
<1>3. stack'[d][t] = new /\ Only(d, t)
  BY <1>2 DEF Pops, Only, Stacks
<1> HIDE DEF new
<1>4. \A i \in DOMAIN s \ {1} : i - 1 \in DOMAIN new /\ new[i - 1] = s[i]
  BY <1>2
<1>5. \A i \in DOMAIN new : i + 1 \in DOMAIN s /\ new[i] = s[i + 1]
  BY <1>2
<1>6. Points(d, t) = {s[i].at : i \in DOMAIN s} /\ Points(d, t)' = {new[i].at : i \in DOMAIN new}
  BY <1>3 DEF Points
<1>7. 1 \in DOMAIN s
  BY <1>2
<1> HIDE DEF s
<1>8. at \in Points(d, t)
  BY <1>1, <1>6, <1>7
<1>9. Points(d, t)' \subseteq Points(d, t)
  BY <1>5, <1>6
<1>10. Points(d, t) \subseteq Points(d, t)' \cup {at}
  BY <1>1, <1>4, <1>6
<1> QED
  BY <1>3, <1>8, <1>9, <1>10

-----------------------------------------------------------------------------
\* What holds of the worker of a process: only a worker that is alive runs
\* stop(); unless a signal came inside start(), start() itself runs none, the
\* worker is known to handle unless start() is about to store it there, and
\* whoever is past the join has seen it exit.
Workers(d) ==
  /\ Points(d, "worker") # {} => thread[d] = "alive"
  /\ "early" \notin odd[d] =>
       /\ main[d] \in InStart => Points(d, "main") = {}
       /\ thread[d] = "alive" => handle[d] = "joinable" \/ main[d] = "assign"
       /\ main[d] = "assign" /\ handle[d] # "joinable" => Points(d, "worker") = {}
       /\ \A t \in Threads : Points(d, t) \cap {"services", "remove"} # {} => thread[d] # "alive"

Quiet(d) == odd[d] \cap {"early", "worker"} = {}

\* What holds of the calls of a process no signal found inside start() or on the
\* worker: a joinable handle is one of a daemon that runs or of a call about to
\* join it, and a call leaves running_ clear.
Calls(d) == Quiet(d) =>
  /\ proc[d] # "aborted"
  /\ Points(d, "worker") = {}
  /\ proc[d] = "alive" =>
       /\ handle[d] = "joinable" => running[d] \/ "join" \in Points(d, "main")
       /\ main[d] \in InStart => handle[d] # "joinable"
       /\ main[d] \in {"spawn", "assign"} => running[d]
       /\ Points(d, "main") \cap {"join", "services", "remove"} # {} => ~running[d]
       /\ main[d] \in {"stopping", "destroying"} /\ running[d] =>
            Points(d, "main") \cap {"check", "clear"} # {}
       /\ main[d] = "members" => ~running[d] /\ Points(d, "main") = {}

Inv(d) == Workers(d) /\ Calls(d)

\* The calls of stop() on either thread.
Busy(d) == Points(d, "main") \cup Points(d, "worker")

\* What a process that is not running leaves for a call under way to clean up:
\* the worker to join, services to stop, the PID file to remove.
Left(d) ==
  /\ up[d] \subseteq registered[d]
  /\ proc[d] = "alive" =>
       /\ "early" \notin odd[d] =>
            /\ handle[d] = "joinable" => running[d] \/ "join" \in Busy(d)
            /\ main[d] \in {"spawn", "assign"} /\ handle[d] # "joinable" => running[d]
       /\ odd[d] \cap {"early", "failed", "manual"} = {} /\ up[d] # {} =>
            running[d] \/ main[d] = "running" \/ Busy(d) \cap {"join", "services"} # {}
       /\ odd[d] \cap {"early", "failed"} = {} /\ pidFile = d =>
            running[d] \/ main[d] \in {"install", "services", "running"}
              \/ Busy(d) \cap {"join", "services", "remove"} # {}

\* A step of one process.
Step(d) ==
  \/ Start(d) \/ CallStop(d) \/ UseRegistry(d) \/ MainStep(d) \/ WorkerStep(d)
  \/ \E t \in Threads, why \in Kinds : Signal(d, t, why)

\* No stack changes, or every stack of d is emptied.
LEMMA SamePoints ==
  ASSUME NEW d \in Daemons, NEW t \in Threads, stack'[d] = stack[d]
  PROVE  Points(d, t)' = Points(d, t)
BY DEF Points

LEMMA EmptyPoints ==
  ASSUME NEW d \in Daemons, NEW t \in Threads, stack[d][t] = <<>>
  PROVE  Points(d, t) = {}
BY DEF Points

LEMMA EndsPoints ==
  ASSUME TypeOK, NEW d \in Daemons, NEW how, Ends(d, how)
  PROVE  /\ stack' \in Stacks
         /\ \A t \in Threads : Points(d, t)' = {}
         /\ \A e \in Daemons \ {d} : stack'[e] = stack[e]
<1>1. stack \in Stacks
  BY DEF TypeOK, Stacks
<1>2. <<>> \in Seq(Frames)
  OBVIOUS
<1>3. stack' \in Stacks /\ stack'[d] = [t \in Threads |-> <<>>] /\ \A e \in Daemons \ {d} : stack'[e] = stack[e]
  BY <1>1, <1>2 DEF Ends, Stacks
<1> QED
  BY <1>3 DEF Points

-----------------------------------------------------------------------------
LEMMA StartKeeps ==
  ASSUME TypeOK, NEW d \in Daemons, Inv(d),
         Start(d) \/ WritePidFile(d) \/ InstallHandlers(d) \/ StartServices(d) \/ SetRunning(d)
                  \/ Spawn(d) \/ UseRegistry(d) \/ StopReturned(d) \/ ClearInstance(d)
  PROVE  Inv(d)'
<1>1. stack' = stack
  BY DEF Start, WritePidFile, InstallHandlers, StartServices, SetRunning, Spawn, UseRegistry,
         Register, Unregister, StopService, RestartService, StartService, Registry, StopReturned, ClearInstance
<1>2. \A t \in Threads : Points(d, t)' = Points(d, t)
  BY <1>1, SamePoints
<1>3. Points(d, "main") = {}
  BY EmptyPoints DEF Start, WritePidFile, InstallHandlers, StartServices, SetRunning, Spawn, UseRegistry,
         Register, Unregister, StopService, RestartService, StartService, Registry, StopReturned, ClearInstance,
         MainAt, Free, Threads
<1>4. CASE Start(d)
  BY <1>2, <1>3, <1>4 DEF Start, TypeOK, Inv, Workers, Calls, Quiet, MainAt, Free, MainGoes, InStart, Threads, book
<1>5. CASE WritePidFile(d)
  BY <1>2, <1>3, <1>5 DEF WritePidFile, TypeOK, Inv, Workers, Calls, Quiet, MainAt, Free, MainGoes, InStart, Threads, book
<1>6. CASE InstallHandlers(d)
  BY <1>2, <1>3, <1>6 DEF InstallHandlers, TypeOK, Inv, Workers, Calls, Quiet, MainAt, Free, MainGoes, InStart, Threads, book
<1>7. CASE StartServices(d)
  BY <1>2, <1>3, <1>7 DEF StartServices, TypeOK, Inv, Workers, Calls, Quiet, MainAt, Free, MainGoes, InStart, Threads, Notes
<1>8. CASE SetRunning(d)
  BY <1>2, <1>3, <1>8 DEF SetRunning, TypeOK, Inv, Workers, Calls, Quiet, MainAt, Free, MainGoes, InStart, Threads, book
<1>9. CASE Spawn(d)
  BY <1>2, <1>3, <1>9 DEF Spawn, TypeOK, Inv, Workers, Calls, Quiet, MainAt, Free, MainGoes, InStart, Threads, book
<1>10. CASE UseRegistry(d)
  BY <1>2, <1>3, <1>10 DEF UseRegistry, Register, Unregister, StopService, RestartService, StartService,
     Registry, TypeOK, Inv, Workers, Calls, Quiet, MainAt, Free, InStart, Threads, book, Notes
<1>11. CASE StopReturned(d)
  BY <1>2, <1>3, <1>11 DEF StopReturned, TypeOK, Inv, Workers, Calls, Quiet, MainAt, Free, MainGoes, InStart, Threads, book
<1>12. CASE ClearInstance(d)
  BY <1>2, <1>3, <1>12 DEF ClearInstance, TypeOK, Inv, Workers, Calls, Quiet, MainAt, Free, MainGoes, InStart, Threads, book
<1> QED
  BY <1>4, <1>5, <1>6, <1>7, <1>8, <1>9, <1>10, <1>11, <1>12

LEMMA CallStopKeeps ==
  ASSUME TypeOK, NEW d \in Daemons, Inv(d), CallStop(d)
  PROVE  Inv(d)'
<1>1. Points(d, "main") = {}
  BY EmptyPoints DEF CallStop, MainAt, Free, Threads
<1>2. Only(d, "main") /\ Points(d, "main")' = {"check"}
  BY <1>1, PushPoints DEF CallStop, TypeOK, Stacks, Threads
<1>3. Points(d, "worker")' = Points(d, "worker")
  BY <1>2 DEF Points, Only, Threads
<1>4. main'[d] \in {"stopping", "destroying"} /\ main[d] = "idle"
  BY DEF CallStop, MainGoes, MainAt, TypeOK
<1> QED
  BY <1>1, <1>2, <1>3, <1>4 DEF CallStop, TypeOK, Inv, Workers, Calls, Quiet, InStart, Threads, book

\* The three ways a process ends inside a step: whatever it was doing is gone.
LEMMA EndsKeeps ==
  ASSUME TypeOK, NEW d \in Daemons, NEW how \in {"exited", "killed", "aborted"},
         Ends(d, how), Quiet(d)' => how # "aborted"
  PROVE  Inv(d)'
<1>1. \A t \in Threads : Points(d, t)' = {}
  BY EndsPoints
<1>2. thread'[d] = "exited" /\ proc'[d] = how
  BY DEF Ends, TypeOK
<1> QED
  BY <1>1, <1>2 DEF Inv, Workers, Calls, Threads

LEMMA AssignKeeps ==
  ASSUME TypeOK, NEW d \in Daemons, Inv(d), Assign(d)
  PROVE  Inv(d)'
<1>1. CASE handle[d] = "joinable"
  BY <1>1, EndsKeeps DEF Assign, MainAt, Free, TypeOK, Inv, Workers, Calls, Quiet, InStart, Threads, book
<1>2. CASE handle[d] # "joinable"
  <2>1. \A t \in Threads : Points(d, t)' = Points(d, t)
    BY <1>2, SamePoints DEF Assign
  <2>2. handle'[d] = "joinable" /\ main'[d] = "idle" /\ main[d] = "assign"
    BY <1>2 DEF Assign, MainAt, MainGoes, TypeOK
  <2> QED
    BY <1>2, <2>1, <2>2 DEF Assign, MainAt, Free, TypeOK, Inv, Workers, Calls, Quiet, InStart, Threads, book
<1> QED
  BY <1>1, <1>2

LEMMA DestroyMembersKeeps ==
  ASSUME TypeOK, NEW d \in Daemons, Inv(d), DestroyMembers(d)
  PROVE  Inv(d)'
BY EndsKeeps DEF DestroyMembers, MainAt, Free, TypeOK, Inv, Workers, Calls, Quiet, InStart, Threads, book

LEMMA WorkerExitsKeeps ==
  ASSUME TypeOK, NEW d \in Daemons, Inv(d), WorkerExits(d)
  PROVE  Inv(d)'
<1>1. \A t \in Threads : Points(d, t)' = Points(d, t)
  BY SamePoints DEF WorkerExits
<1>2. Points(d, "worker") = {}
  BY EmptyPoints DEF WorkerExits, Free, Threads
<1>3. thread'[d] = "exited"
  BY DEF WorkerExits, TypeOK
<1> QED
  BY <1>1, <1>2, <1>3 DEF WorkerExits, TypeOK, Inv, Workers, Calls, Quiet, InStart, Threads, book

-----------------------------------------------------------------------------
\* The statements of stop(), on whichever thread runs it.
LEMMA StopCheckKeeps ==
  ASSUME TypeOK, NEW d \in Daemons, NEW t \in Threads, Inv(d), StopCheck(d, t)
  PROVE  Inv(d)'
<1>1. /\ Only(d, t)
      /\ "check" \in Points(d, t)
      /\ running[d] => "clear" \in Points(d, t)'
      /\ Points(d, t)' \subseteq Points(d, t) \cup {"clear"}
      /\ Points(d, t) \subseteq Points(d, t)' \cup {"check"}
  BY GoesPoints, PopsPoints DEF StopCheck, TypeOK, Stacks, StopPoints
<1>2. \A u \in Threads \ {t} : Points(d, u)' = Points(d, u)
  BY <1>1 DEF Points, Only
<1>3. CASE t = "main"
  BY <1>1, <1>2, <1>3 DEF StopCheck, At, TypeOK, Inv, Workers, Calls, Quiet, InStart, Threads, book
<1>4. CASE t = "worker"
  BY <1>1, <1>2, <1>4 DEF StopCheck, At, TypeOK, Inv, Workers, Calls, Quiet, InStart, Threads, book
<1> QED
  BY <1>3, <1>4 DEF Threads

LEMMA StopClearKeeps ==
  ASSUME TypeOK, NEW d \in Daemons, NEW t \in Threads, Inv(d), StopClear(d, t)
  PROVE  Inv(d)'
<1>1. /\ Only(d, t)
      /\ "clear" \in Points(d, t) /\ "join" \in Points(d, t)'
      /\ Points(d, t)' \subseteq Points(d, t) \cup {"join"}
      /\ Points(d, t) \subseteq Points(d, t)' \cup {"clear"}
  BY GoesPoints DEF StopClear, TypeOK, Stacks, StopPoints
<1>2. \A u \in Threads \ {t} : Points(d, u)' = Points(d, u)
  BY <1>1 DEF Points, Only
<1>3. running'[d] = FALSE
  BY DEF StopClear, TypeOK
<1>4. CASE t = "main"
  BY <1>1, <1>2, <1>3, <1>4 DEF StopClear, At, TypeOK, Inv, Workers, Calls, Quiet, InStart, Threads, book
<1>5. CASE t = "worker"
  BY <1>1, <1>2, <1>3, <1>5 DEF StopClear, At, TypeOK, Inv, Workers, Calls, Quiet, InStart, Threads, book
<1> QED
  BY <1>4, <1>5 DEF Threads

LEMMA StopJoinKeeps ==
  ASSUME TypeOK, NEW d \in Daemons, NEW t \in Threads, Inv(d), StopJoin(d, t)
  PROVE  Inv(d)'
<1>1. CASE handle[d] = "joinable" /\ t = "worker"
  <2>1. stack[d][t] \in Seq(Frames) /\ stack[d][t] # <<>>
    BY DEF StopJoin, At, TypeOK
  <2>2. 1 \in DOMAIN stack[d][t]
    BY <2>1
  <2>3. ~Quiet(d)
    BY <1>1, <2>2 DEF Inv, Calls, Points
  <2> QED
    BY <1>1, <2>3, EndsKeeps DEF StopJoin, Quiet, book
<1>2. CASE handle[d] # "joinable" \/ t = "main"
  <2>1. Goes(d, t, "services") /\ UNCHANGED <<proc, running, thread>>
    BY <1>2 DEF StopJoin, Threads
  <2>2. /\ Only(d, t)
        /\ "join" \in Points(d, t)
        /\ Points(d, t)' \subseteq Points(d, t) \cup {"services"}
        /\ Points(d, t) \subseteq Points(d, t)' \cup {"join"}
    BY <2>1, GoesPoints DEF StopJoin, TypeOK, Stacks, StopPoints
  <2>3. \A u \in Threads \ {t} : Points(d, u)' = Points(d, u)
    BY <2>2 DEF Points, Only
  <2>4. /\ handle'[d] # "joinable"
        /\ handle[d] = "joinable" => thread[d] = "exited"
    BY <1>2 DEF StopJoin, TypeOK
  <2>5. CASE t = "main"
    BY <2>1, <2>2, <2>3, <2>4, <2>5 DEF StopJoin, At, TypeOK, Inv, Workers, Calls, Quiet, InStart, Threads, book
  <2>6. CASE t = "worker"
    BY <1>2, <2>1, <2>2, <2>3, <2>4, <2>6 DEF StopJoin, At, TypeOK, Inv, Workers, Calls, Quiet, InStart, Threads, book
  <2> QED
    BY <2>5, <2>6 DEF Threads
<1> QED
  BY <1>1, <1>2 DEF Threads

LEMMA StopServicesKeeps ==
  ASSUME TypeOK, NEW d \in Daemons, NEW t \in Threads, Inv(d), StopServices(d, t)
  PROVE  Inv(d)'
<1>1. /\ Only(d, t)
      /\ "services" \in Points(d, t)
      /\ Points(d, t)' \subseteq Points(d, t) \cup {"remove"}
      /\ Points(d, t) \subseteq Points(d, t)' \cup {"services"}
  BY GoesPoints DEF StopServices, TypeOK, Stacks, StopPoints
<1>2. \A u \in Threads \ {t} : Points(d, u)' = Points(d, u)
  BY <1>1 DEF Points, Only
<1>3. CASE t = "main"
  BY <1>1, <1>2, <1>3 DEF StopServices, At, TypeOK, Inv, Workers, Calls, Quiet, InStart, Threads, book
<1>4. CASE t = "worker"
  BY <1>1, <1>2, <1>4 DEF StopServices, At, TypeOK, Inv, Workers, Calls, Quiet, InStart, Threads, book
<1> QED
  BY <1>3, <1>4 DEF Threads

LEMMA RemovePidFileKeeps ==
  ASSUME TypeOK, NEW d \in Daemons, NEW t \in Threads, Inv(d), RemovePidFile(d, t)
  PROVE  Inv(d)'
<1>1. /\ Only(d, t)
      /\ "remove" \in Points(d, t)
      /\ Points(d, t)' \subseteq Points(d, t)
      /\ Points(d, t) \subseteq Points(d, t)' \cup {"remove"}
  BY PopsPoints DEF RemovePidFile, TypeOK, Stacks, StopPoints
<1>2. \A u \in Threads \ {t} : Points(d, u)' = Points(d, u)
  BY <1>1 DEF Points, Only
<1>3. CASE t = "main"
  BY <1>1, <1>2, <1>3 DEF RemovePidFile, At, TypeOK, Inv, Workers, Calls, Quiet, InStart, Threads, book
<1>4. CASE t = "worker"
  BY <1>1, <1>2, <1>4 DEF RemovePidFile, At, TypeOK, Inv, Workers, Calls, Quiet, InStart, Threads, book
<1> QED
  BY <1>3, <1>4 DEF Threads

\* A signal starts a call of stop() at its first statement, where it disturbs
\* nothing; the history says when it came at a moment the invariant excepts.
LEMMA SignalKeeps ==
  ASSUME TypeOK, NEW d \in Daemons, NEW t \in Threads, NEW why \in Kinds, Inv(d), Signal(d, t, why)
  PROVE  Inv(d)'
<1>1. /\ odd[d] \subseteq odd'[d]
      /\ main[d] \in InStart => "early" \in odd'[d]
      /\ t = "worker" => "worker" \in odd'[d] /\ thread[d] = "alive"
  BY DEF Signal, Notes, TypeOK
<1>2. proc[d] = "alive" /\ UNCHANGED <<main, handle>>
  BY DEF Signal
<1>3. CASE Ends(d, "killed")
  BY <1>3, EndsKeeps
<1>4. CASE /\ handlers[d]
           /\ UNCHANGED <<proc, running, thread, up>>
           /\ IF main[d] = "members" THEN UNCHANGED <<stack, caught>> ELSE Push(d, t, why)
  <2>1. /\ \A u \in Threads \ {t} : Points(d, u)' = Points(d, u)
        /\ \/ Points(d, t)' = Points(d, t)
           \/ main[d] # "members" /\ Points(d, t)' = Points(d, t) \cup {"check"}
    <3>1. CASE main[d] = "members"
      BY <1>4, <3>1, SamePoints
    <3>2. CASE main[d] # "members"
      <4>1. Only(d, t) /\ Points(d, t)' = Points(d, t) \cup {"check"}
        BY <1>4, <3>2, PushPoints DEF TypeOK, Stacks
      <4> QED
        BY <3>2, <4>1 DEF Only, Points
    <3> QED
      BY <3>1, <3>2
  <2>2. CASE t = "main"
    BY <1>1, <1>2, <1>4, <2>1, <2>2 DEF TypeOK, Inv, Workers, Calls, Quiet, InStart, Threads, book
  <2>3. CASE t = "worker"
    BY <1>1, <1>2, <1>4, <2>1, <2>3 DEF TypeOK, Inv, Workers, Calls, Quiet, InStart, Threads, book
  <2> QED
    BY <2>2, <2>3 DEF Threads
<1> QED
  BY <1>3, <1>4 DEF Signal

LEMMA StepKeeps ==
  ASSUME TypeOK, NEW d \in Daemons, Inv(d), Step(d)
  PROVE  Inv(d)'
<1>1. ASSUME NEW t \in Threads, Stop(d, t) PROVE Inv(d)'
  BY <1>1, StopCheckKeeps, StopClearKeeps, StopJoinKeeps, StopServicesKeeps, RemovePidFileKeeps DEF Stop
<1>2. CASE MainStep(d)
  BY <1>1, <1>2, StartKeeps, AssignKeeps, DestroyMembersKeeps DEF MainStep, Threads
<1>3. CASE WorkerStep(d)
  BY <1>1, <1>3, WorkerExitsKeeps DEF WorkerStep, Threads
<1> QED
  BY <1>2, <1>3, StartKeeps, CallStopKeeps, SignalKeeps DEF Step

-----------------------------------------------------------------------------
\* What a step does to the calls of both threads together.
LEMMA SameBusy ==
  ASSUME NEW d \in Daemons, stack'[d] = stack[d]
  PROVE  Busy(d)' = Busy(d)
BY SamePoints DEF Busy, Threads

LEMMA PushBusy ==
  ASSUME TypeOK, NEW d \in Daemons, NEW t \in Threads, NEW why \in Kinds \cup {"call"}, Push(d, t, why)
  PROVE  Busy(d) \subseteq Busy(d)'
<1>1. Only(d, t) /\ Points(d, t)' = Points(d, t) \cup {"check"}
  BY PushPoints DEF TypeOK, Stacks
<1>2. \A u \in Threads \ {t} : Points(d, u)' = Points(d, u)
  BY <1>1 DEF Points, Only
<1> QED
  BY <1>1, <1>2 DEF Busy, Threads

LEMMA StopBusy ==
  ASSUME TypeOK, NEW d \in Daemons, NEW t \in Threads, NEW at \in StopPoints, NEW point \in StopPoints,
         At(d, t, at), Goes(d, t, point) \/ Pops(d, t)
  PROVE  /\ at \in Points(d, t)
         /\ Busy(d) \subseteq Busy(d)' \cup {at}
         /\ Goes(d, t, point) => point \in Busy(d)'
<1>1. /\ Only(d, t) /\ at \in Points(d, t)
      /\ Points(d, t) \subseteq Points(d, t)' \cup {at}
      /\ Goes(d, t, point) => point \in Points(d, t)'
  BY GoesPoints, PopsPoints DEF TypeOK, Stacks
<1>2. \A u \in Threads \ {t} : Points(d, u)' = Points(d, u)
  BY <1>1 DEF Points, Only
<1> QED
  BY <1>1, <1>2 DEF Busy, Threads

\* Start() finds nothing left, or a call under way that will clean it up.
LEMMA StartLeaves ==
  ASSUME TypeOK, NEW d \in Daemons, Left(d),
         Start(d) \/ WritePidFile(d) \/ InstallHandlers(d) \/ StartServices(d) \/ SetRunning(d)
                  \/ Spawn(d) \/ StopReturned(d) \/ ClearInstance(d)
  PROVE  Left(d)'
<1>1. Busy(d)' = Busy(d)
  BY SameBusy DEF Start, WritePidFile, InstallHandlers, StartServices, SetRunning, Spawn, StopReturned, ClearInstance
<1>2. proc' = proc /\ proc[d] = "alive"
  BY DEF Start, WritePidFile, InstallHandlers, StartServices, SetRunning, Spawn, StopReturned, ClearInstance,
     MainAt, Free
<1>3. CASE Start(d)
  BY <1>1, <1>2, <1>3 DEF Start, TypeOK, Left, MainAt, MainGoes, book
<1>4. CASE WritePidFile(d)
  BY <1>1, <1>2, <1>4 DEF WritePidFile, TypeOK, Left, MainAt, MainGoes, book
<1>5. CASE InstallHandlers(d)
  BY <1>1, <1>2, <1>5 DEF InstallHandlers, TypeOK, Left, MainAt, MainGoes, book
<1>6. CASE StartServices(d)
  <2>1. PICK failed \in SUBSET (MayFail \cap registered[d]) :
          /\ up' = [up EXCEPT ![d] = @ \cup (registered[d] \ failed)]
          /\ IF failed = {} THEN MainGoes(d, "running") /\ UNCHANGED odd
                            ELSE MainGoes(d, "idle") /\ Notes(d, {"failed"})
    BY <1>6 DEF StartServices
  <2>2. main[d] = "services" /\ UNCHANGED <<running, handle, pidFile, registered>>
    BY <1>6 DEF StartServices, MainAt
  <2>3. up'[d] \subseteq registered'[d]
    BY <2>1, <2>2 DEF TypeOK, Left
  <2>4. CASE failed = {}
    BY <1>1, <1>2, <2>1, <2>2, <2>3, <2>4 DEF TypeOK, Left, MainGoes
  <2>5. CASE failed # {}
    <3>1. main'[d] = "idle" /\ "failed" \in odd'[d] /\ odd[d] \subseteq odd'[d]
      BY <2>1, <2>5 DEF TypeOK, MainGoes, Notes
    <3> QED
      BY <1>1, <1>2, <2>2, <2>3, <3>1 DEF Left
  <2> QED
    BY <2>4, <2>5
<1>7. CASE SetRunning(d)
  BY <1>1, <1>2, <1>7 DEF SetRunning, TypeOK, Left, MainAt, MainGoes, book
<1>8. CASE Spawn(d)
  BY <1>1, <1>2, <1>8 DEF Spawn, TypeOK, Left, MainAt, MainGoes, book
<1>9. CASE StopReturned(d) \/ ClearInstance(d)
  BY <1>1, <1>2, <1>9 DEF StopReturned, ClearInstance, TypeOK, Left, MainAt, MainGoes, book
<1> QED
  BY <1>3, <1>4, <1>5, <1>6, <1>7, <1>8, <1>9

LEMMA UseRegistryLeaves ==
  ASSUME TypeOK, NEW d \in Daemons, Left(d), UseRegistry(d)
  PROVE  Left(d)'
<1>1. PICK s \in Services : Register(d, s) \/ Unregister(d, s) \/ StopService(d, s) \/ StartService(d, s)
  BY DEF UseRegistry, RestartService
<1>2. Registry(d)
  BY <1>1 DEF Register, Unregister, StopService, StartService
<1>3. Busy(d)' = Busy(d)
  BY <1>2, SameBusy DEF Registry
<1>4. /\ odd[d] \subseteq odd'[d]
      /\ up'[d] \subseteq up[d] \/ running[d] \/ "manual" \in odd'[d]
      /\ up'[d] \subseteq registered'[d]
  BY <1>1, <1>2 DEF Register, Unregister, StopService, StartService, Notes, TypeOK, Left, book
<1>5. UNCHANGED <<proc, main, running, handle, pidFile>>
  BY <1>2 DEF Registry
<1> QED
  BY <1>3, <1>4, <1>5 DEF Left

LEMMA EndsLeaves ==
  ASSUME TypeOK, NEW d \in Daemons, NEW how \in {"exited", "killed", "aborted"}, Ends(d, how)
  PROVE  Left(d)'
BY DEF Ends, TypeOK, Left

LEMMA MainLeaves ==
  ASSUME TypeOK, NEW d \in Daemons, Left(d), CallStop(d) \/ Assign(d) \/ DestroyMembers(d) \/ WorkerExits(d)
  PROVE  Left(d)'
<1>1. CASE CallStop(d)
  <2>1. Busy(d) \subseteq Busy(d)'
    BY <1>1, PushBusy DEF CallStop, Threads
  <2>2. main[d] = "idle" /\ main'[d] \in {"stopping", "destroying"}
    BY <1>1 DEF CallStop, MainAt, MainGoes, TypeOK
  <2>3. UNCHANGED <<proc, running, handle, up, pidFile, registered, odd>>
    BY <1>1 DEF CallStop, book
  <2> QED
    BY <2>1, <2>2, <2>3 DEF Left
<1>2. CASE Assign(d)
  <2>1. CASE handle[d] = "joinable"
    BY <1>2, <2>1, EndsLeaves DEF Assign
  <2>2. CASE handle[d] # "joinable"
    <3>1. Busy(d)' = Busy(d)
      BY <1>2, <2>2, SameBusy DEF Assign
    <3>2. main[d] = "assign" /\ main'[d] = "idle" /\ proc[d] = "alive"
      BY <1>2, <2>2 DEF Assign, MainAt, Free, MainGoes, TypeOK
    <3>3. UNCHANGED <<proc, running, up, pidFile, registered, odd>>
      BY <1>2, <2>2 DEF Assign, book
    <3> QED
      BY <2>2, <3>1, <3>2, <3>3 DEF Left
  <2> QED
    BY <2>1, <2>2
<1>3. CASE DestroyMembers(d)
  BY <1>3, EndsLeaves DEF DestroyMembers
<1>4. CASE WorkerExits(d)
  <2>1. Busy(d)' = Busy(d)
    BY <1>4, SameBusy DEF WorkerExits
  <2> QED
    BY <1>4, <2>1 DEF WorkerExits, Left, book
<1> QED
  BY <1>1, <1>2, <1>3, <1>4

\* Each statement of stop() leaves the rest to the ones after it.
LEMMA StopLeaves ==
  ASSUME TypeOK, NEW d \in Daemons, NEW t \in Threads, Inv(d), Left(d), Stop(d, t)
  PROVE  Left(d)'
<1>1. CASE StopCheck(d, t)
  <2>1. Busy(d) \subseteq Busy(d)' \cup {"check"}
    BY <1>1, StopBusy DEF StopCheck, StopPoints
  <2>2. UNCHANGED <<proc, main, running, handle, up, pidFile, registered, odd>>
    BY <1>1 DEF StopCheck, book
  <2> QED
    BY <2>1, <2>2 DEF Left
<1>2. CASE StopClear(d, t)
  <2>1. "join" \in Busy(d)' /\ "clear" \in Points(d, t)
    BY <1>2, StopBusy DEF StopClear, StopPoints
  <2>2. UNCHANGED <<proc, main, handle, up, pidFile, registered, odd>>
    BY <1>2 DEF StopClear, book
  <2>3. "early" \notin odd[d] => ~(main[d] \in {"spawn", "assign"} /\ handle[d] # "joinable")
    <3>1. CASE t = "main"
      BY <2>1, <3>1 DEF Inv, Workers, InStart
    <3>2. CASE t = "worker"
      BY <2>1, <3>2 DEF Inv, Workers, InStart
    <3> QED
      BY <3>1, <3>2 DEF Threads
  <2> QED
    BY <2>1, <2>2, <2>3 DEF Left
<1>3. CASE StopJoin(d, t)
  <2>1. CASE Ends(d, "aborted")
    BY <2>1, EndsLeaves
  <2>2. CASE Goes(d, t, "services") /\ UNCHANGED <<proc, running, up>> /\ handle'[d] # "joinable"
    <3>1. Busy(d) \subseteq Busy(d)' \cup {"join"} /\ "services" \in Busy(d)'
      BY <1>3, <2>2, StopBusy DEF StopJoin, StopPoints
    <3>2. UNCHANGED <<main, pidFile, registered, odd>>
      BY <1>3 DEF StopJoin, book
    <3>3. handle[d] # "joinable" \/ (t = "main" /\ "join" \in Points(d, t))
      BY <1>3, <2>2, StopBusy DEF StopJoin, StopPoints
    <3>4. "early" \notin odd[d] /\ main[d] \in {"spawn", "assign"} => handle[d] # "joinable"
      BY <3>3 DEF Inv, Workers, InStart
    <3> QED
      BY <2>2, <3>1, <3>2, <3>4 DEF Left
  <2>3. handle[d] = "joinable" /\ handle' = [handle EXCEPT ![d] = "joined"] => handle'[d] # "joinable"
    BY DEF TypeOK
  <2> QED
    BY <1>3, <2>1, <2>2, <2>3 DEF StopJoin
<1>4. CASE StopServices(d, t)
  <2>1. Busy(d) \subseteq Busy(d)' \cup {"services"} /\ "remove" \in Busy(d)'
    BY <1>4, StopBusy DEF StopServices, StopPoints
  <2>2. up'[d] = {} /\ UNCHANGED <<proc, main, running, handle, pidFile, registered, odd>>
    BY <1>4 DEF StopServices, TypeOK, book
  <2> QED
    BY <2>1, <2>2 DEF Left
<1>5. CASE RemovePidFile(d, t)
  <2>1. Busy(d) \subseteq Busy(d)' \cup {"remove"}
    BY <1>5, StopBusy DEF RemovePidFile, StopPoints
  <2>2. pidFile' # d /\ UNCHANGED <<proc, main, running, handle, up, registered, odd>>
    BY <1>5, DaemonAssumption DEF RemovePidFile, book
  <2> QED
    BY <2>1, <2>2 DEF Left
<1> QED
  BY <1>1, <1>2, <1>3, <1>4, <1>5 DEF Stop

LEMMA SignalLeaves ==
  ASSUME TypeOK, NEW d \in Daemons, NEW t \in Threads, NEW why \in Kinds, Left(d), Signal(d, t, why)
  PROVE  Left(d)'
<1>1. CASE Ends(d, "killed")
  BY <1>1, EndsLeaves
<1>2. CASE UNCHANGED <<proc, running, up>> /\ (UNCHANGED stack \/ Push(d, t, why))
  <2>1. Busy(d) \subseteq Busy(d)'
    BY <1>2, PushBusy, SameBusy
  <2>2. odd[d] \subseteq odd'[d] /\ UNCHANGED <<main, handle, pidFile, registered>>
    BY DEF Signal, Notes, TypeOK
  <2> QED
    BY <1>2, <2>1, <2>2 DEF Left
<1> QED
  BY <1>1, <1>2 DEF Signal

LEMMA StepLeaves ==
  ASSUME TypeOK, NEW d \in Daemons, Inv(d), Left(d), Step(d)
  PROVE  Left(d)'
<1>1. ASSUME NEW t \in Threads, Stop(d, t) PROVE Left(d)'
  BY <1>1, StopLeaves
<1>2. CASE MainStep(d)
  BY <1>1, <1>2, StartLeaves, MainLeaves DEF MainStep, Threads
<1>3. CASE WorkerStep(d)
  BY <1>1, <1>3, MainLeaves DEF WorkerStep, Threads
<1> QED
  BY <1>2, <1>3, StartLeaves, UseRegistryLeaves, MainLeaves, SignalLeaves DEF Step

-----------------------------------------------------------------------------
\* A process touches nothing of another but the PID file, and its stacks stay stacks.
LEMMA StopElsewhere ==
  ASSUME TypeOK, NEW d \in Daemons, NEW t \in Threads, Stop(d, t)
  PROVE  /\ stack' \in Stacks
         /\ \A e \in Daemons \ {d} :
              /\ stack'[e] = stack[e]
              /\ <<proc[e], main[e], running[e], thread[e], handle[e], odd[e], up[e], registered[e]>>'
                   = <<proc[e], main[e], running[e], thread[e], handle[e], odd[e], up[e], registered[e]>>
<1>1. stack \in Stacks
  BY DEF TypeOK, Stacks
<1>2. CASE StopCheck(d, t)
  <2>1. Only(d, t)
    BY <1>1, <1>2, GoesPoints, PopsPoints DEF StopCheck, StopPoints
  <2> QED
    BY <1>2, <2>1 DEF StopCheck, Only, book
<1>3. CASE StopClear(d, t)
  <2>1. Only(d, t)
    BY <1>1, <1>3, GoesPoints DEF StopClear, StopPoints
  <2> QED
    BY <1>3, <2>1 DEF StopClear, Only, book, TypeOK
<1>4. CASE StopJoin(d, t)
  <2>1. CASE Goes(d, t, "services")
    <3>1. Only(d, t)
      BY <1>1, <1>4, <2>1, GoesPoints DEF StopJoin, StopPoints
    <3> QED
      BY <1>4, <3>1 DEF StopJoin, Only, Ends, book, TypeOK
  <2>2. CASE Ends(d, "aborted") /\ UNCHANGED <<main, handle, odd, registered>>
    BY <2>2, EndsPoints DEF Ends, TypeOK
  <2> QED
    BY <1>4, <2>1, <2>2 DEF StopJoin, book
<1>5. CASE StopServices(d, t)
  <2>1. Only(d, t)
    BY <1>1, <1>5, GoesPoints DEF StopServices, StopPoints
  <2> QED
    BY <1>5, <2>1 DEF StopServices, Only, book
<1>6. CASE RemovePidFile(d, t)
  <2>1. Only(d, t)
    BY <1>1, <1>6, PopsPoints DEF RemovePidFile, StopPoints
  <2> QED
    BY <1>6, <2>1 DEF RemovePidFile, Only, book
<1> QED
  BY <1>2, <1>3, <1>4, <1>5, <1>6 DEF Stop

LEMMA Elsewhere ==
  ASSUME TypeOK, NEW d \in Daemons, Step(d)
  PROVE  /\ stack' \in Stacks
         /\ \A e \in Daemons \ {d} :
              /\ stack'[e] = stack[e]
              /\ <<proc[e], main[e], running[e], thread[e], handle[e], odd[e], up[e], registered[e]>>'
                   = <<proc[e], main[e], running[e], thread[e], handle[e], odd[e], up[e], registered[e]>>
<1>1. stack \in Stacks
  BY DEF TypeOK, Stacks
<1>2. CASE Stop(d, "main") \/ Stop(d, "worker")
  BY <1>2, StopElsewhere DEF Threads
<1>3. CASE CallStop(d)
  <2>1. Only(d, "main")
    BY <1>1, <1>3, PushPoints DEF CallStop, Threads
  <2> QED
    BY <1>3, <2>1 DEF CallStop, MainGoes, Only, TypeOK, book
<1>4. CASE \E t \in Threads, why \in Kinds : Signal(d, t, why)
  <2>1. PICK t \in Threads, why \in Kinds : Signal(d, t, why)
    BY <1>4
  <2>2. stack' \in Stacks /\ \A e \in Daemons \ {d} : stack'[e] = stack[e]
    BY <1>1, <2>1, PushPoints, EndsPoints DEF Signal, Only
  <2>3. \A e \in Daemons \ {d} :
          <<proc[e], main[e], running[e], thread[e], handle[e], odd[e], up[e], registered[e]>>'
            = <<proc[e], main[e], running[e], thread[e], handle[e], odd[e], up[e], registered[e]>>
    BY <2>1 DEF Signal, Ends, Notes, TypeOK
  <2> QED
    BY <2>2, <2>3
<1>5. CASE Start(d) \/ WritePidFile(d) \/ InstallHandlers(d) \/ StartServices(d) \/ SetRunning(d)
  BY <1>1, <1>5 DEF Start, WritePidFile, InstallHandlers, StartServices, SetRunning, MainGoes, Notes, book, TypeOK
<1>6. CASE Spawn(d) \/ StopReturned(d) \/ ClearInstance(d) \/ WorkerExits(d)
  BY <1>1, <1>6 DEF Spawn, StopReturned, ClearInstance, WorkerExits, MainGoes, book, TypeOK
<1>7. CASE UseRegistry(d)
  BY <1>1, <1>7 DEF UseRegistry, Register, Unregister, StopService, RestartService, StartService, Registry,
     Notes, book, TypeOK
<1>8. CASE Assign(d)
  <2>1. CASE Ends(d, "aborted") /\ UNCHANGED <<main, handle, odd, registered>>
    BY <2>1, EndsPoints DEF Ends, TypeOK
  <2>2. CASE handle[d] # "joinable"
    BY <1>1, <1>8, <2>2 DEF Assign, MainGoes, book, TypeOK
  <2> QED
    BY <1>8, <2>1, <2>2 DEF Assign, book
<1>9. CASE DestroyMembers(d)
  <2>1. PICK how : Ends(d, how)
    BY <1>9 DEF DestroyMembers
  <2> QED
    BY <1>9, <2>1, EndsPoints DEF DestroyMembers, Ends, book, TypeOK
<1> QED
  BY <1>2, <1>3, <1>4, <1>5, <1>6, <1>7, <1>8, <1>9 DEF Step, MainStep, WorkerStep

LEMMA InvElsewhere ==
  ASSUME TypeOK, NEW d \in Daemons, Step(d), NEW e \in Daemons \ {d}, Inv(e)
  PROVE  Inv(e)'
<1>1. /\ stack'[e] = stack[e]
      /\ <<proc[e], main[e], running[e], thread[e], handle[e], odd[e], up[e], registered[e]>>'
           = <<proc[e], main[e], running[e], thread[e], handle[e], odd[e], up[e], registered[e]>>
  BY Elsewhere
<1>2. \A t \in Threads : Points(e, t)' = Points(e, t)
  BY <1>1 DEF Points
<1> QED
  BY <1>1, <1>2 DEF Inv, Workers, Calls, Quiet, Threads

\* The PID file comes to name a process only when that process writes it.
LEMMA LeftElsewhere ==
  ASSUME TypeOK, NEW d \in Daemons, Step(d), NEW e \in Daemons \ {d}, Left(e)
  PROVE  Left(e)'
<1>1. /\ stack'[e] = stack[e]
      /\ <<proc[e], main[e], running[e], thread[e], handle[e], odd[e], up[e], registered[e]>>'
           = <<proc[e], main[e], running[e], thread[e], handle[e], odd[e], up[e], registered[e]>>
  BY Elsewhere
<1>2. Busy(e)' = Busy(e)
  BY <1>1, SameBusy
<1>3. pidFile' \in {pidFile, None, d}
  BY DEF Step, MainStep, WorkerStep, Start, CallStop, UseRegistry, Register, Unregister, StopService,
     RestartService, StartService, Registry, WritePidFile, InstallHandlers, StartServices, SetRunning,
     Spawn, Assign, StopReturned, ClearInstance, DestroyMembers, WorkerExits, Stop, StopCheck, StopClear,
     StopJoin, StopServices, RemovePidFile, Signal
<1>4. pidFile' = e => pidFile = e
  BY <1>3, DaemonAssumption
<1> QED
  BY <1>1, <1>2, <1>4 DEF Left

-----------------------------------------------------------------------------
LEMMA TypeStep ==
  ASSUME TypeOK, NEW d \in Daemons, Step(d)
  PROVE  TypeOK'
<1>1. stack' \in Stacks
  BY Elsewhere
<1> DEFINE Others ==
      /\ proc \in [Daemons -> {"alive", "exited", "killed", "aborted"}]
      /\ main \in [Daemons -> MainPoints]
      /\ running \in [Daemons -> BOOLEAN]
      /\ thread \in [Daemons -> {"none", "alive", "exited"}]
      /\ handle \in [Daemons -> {"null", "joinable", "joined"}]
      /\ registered \in [Daemons -> SUBSET Services]
      /\ up \in [Daemons -> SUBSET Services]
      /\ handlers \in [Daemons -> BOOLEAN]
      /\ signals \in [Daemons -> 0 .. MaxSignals]
      /\ caught \in [Daemons -> BOOLEAN]
      /\ pidFile \in Daemons \cup {None}
      /\ odd \in [Daemons -> SUBSET Oddities]
<1>2. Others
  BY DEF TypeOK
<1> SUFFICES Others'
  BY <1>1 DEF TypeOK, Stacks
<1>3. CASE Start(d) \/ WritePidFile(d) \/ InstallHandlers(d) \/ SetRunning(d) \/ Spawn(d) \/ StopReturned(d)
             \/ ClearInstance(d) \/ WorkerExits(d)
  BY <1>2, <1>3 DEF Start, WritePidFile, InstallHandlers, SetRunning, Spawn, StopReturned, ClearInstance,
     WorkerExits, MainGoes, MainPoints, InStart, book
<1>4. CASE StartServices(d)
  BY <1>2, <1>4, DaemonAssumption DEF StartServices, MainGoes, MainPoints, InStart, Notes, Oddities
<1>5. CASE UseRegistry(d)
  BY <1>2, <1>5 DEF UseRegistry, Register, Unregister, StopService, RestartService, StartService, Registry,
     Notes, Oddities, book
<1>6. CASE CallStop(d)
  BY <1>2, <1>6 DEF CallStop, MainGoes, MainPoints, book
<1>7. CASE Assign(d) \/ DestroyMembers(d)
  BY <1>2, <1>7 DEF Assign, DestroyMembers, Ends, MainGoes, MainPoints, book
<1>8. CASE \E t \in Threads : Stop(d, t)
  BY <1>2, <1>8 DEF Stop, StopCheck, StopClear, StopJoin, StopServices, RemovePidFile, Ends, book
<1>9. CASE \E t \in Threads, why \in Kinds : Signal(d, t, why)
  <2>1. PICK t \in Threads, why \in Kinds : Signal(d, t, why)
    BY <1>9
  <2>2. signals' \in [Daemons -> 0 .. MaxSignals]
    BY <1>2, <2>1, DaemonAssumption DEF Signal
  <2>3. odd' \in [Daemons -> SUBSET Oddities]
    BY <1>2, <2>1 DEF Signal, Notes, Oddities, Threads
  <2> QED
    BY <1>2, <2>1, <2>2, <2>3 DEF Signal, Ends
<1> QED
  BY <1>3, <1>4, <1>5, <1>6, <1>7, <1>8, <1>9 DEF Step, MainStep, WorkerStep, Threads

-----------------------------------------------------------------------------
\* The inductive invariant.
Safe == TypeOK /\ \A d \in Daemons : Inv(d) /\ Left(d)

LEMMA SafeInitially == Init => Safe
<1> SUFFICES ASSUME Init PROVE Safe
  OBVIOUS
<1>1. <<>> \in Seq(Frames)
  OBVIOUS
<1>2. TypeOK
  BY <1>1, DaemonAssumption DEF Init, TypeOK, MainPoints
<1>3. \A d \in Daemons, t \in Threads : Points(d, t) = {}
  BY EmptyPoints DEF Init
<1>4. \A d \in Daemons : Inv(d)
  BY <1>3 DEF Init, Inv, Workers, Calls, InStart, Threads
<1>5. \A d \in Daemons : Left(d)
  BY DaemonAssumption DEF Init, Left
<1> QED
  BY <1>2, <1>4, <1>5 DEF Safe

LEMMA SafeKept == Safe /\ [Next]_vars => Safe'
<1> SUFFICES ASSUME Safe, [Next]_vars PROVE Safe'
  OBVIOUS
<1> USE DEF Safe
<1>1. CASE UNCHANGED vars
  <2>1. UNCHANGED <<proc, main, stack, running, thread, handle, registered, up, handlers, signals,
                    caught, pidFile, odd>>
    BY <1>1 DEF vars, procVars, book
  <2>2. TypeOK'
    BY <2>1 DEF TypeOK
  <2>3. ASSUME NEW d \in Daemons PROVE Inv(d)' /\ Left(d)'
    <3>1. (\A t \in Threads : Points(d, t)' = Points(d, t)) /\ Busy(d)' = Busy(d)
      BY <2>1, SamePoints, SameBusy
    <3>2. Inv(d)'
      BY <2>1, <3>1 DEF Inv, Workers, Calls, Quiet, Threads
    <3>3. Left(d)'
      BY <2>1, <3>1 DEF Left
    <3> QED
      BY <3>2, <3>3
  <2> QED
    BY <2>2, <2>3
<1>2. CASE Next
  <2>1. PICK d \in Daemons : Step(d)
    BY <1>2 DEF Next, Step
  <2>2. TypeOK'
    BY <2>1, TypeStep
  <2>3. \A e \in Daemons : Inv(e)'
    BY <2>1, StepKeeps, InvElsewhere
  <2>4. \A e \in Daemons : Left(e)'
    BY <2>1, StepLeaves, LeftElsewhere
  <2> QED
    BY <2>2, <2>3, <2>4
<1> QED
  BY <1>1, <1>2

LEMMA DaemonSafe == Spec => []Safe
BY SafeInitially, SafeKept, PTL DEF Spec

-----------------------------------------------------------------------------
\* With any number of processes, services and signals in any order every variable
\* has its type.
THEOREM DaemonTyped == Spec => []TypeOK
<1>1. Safe => TypeOK
  BY DEF Safe
<1> QED
  BY <1>1, DaemonSafe, PTL

\* Past the join of stop() no worker is alive, on whichever thread and under
\* whatever other calls it runs, unless a signal came inside start()
\* (daemon.cpp:63-83).
THEOREM DaemonJoins == Spec => []StopWaitsForWorker
<1>1. Safe => StopWaitsForWorker
  <2> SUFFICES ASSUME Safe PROVE StopWaitsForWorker
    OBVIOUS
  <2>1. ASSUME NEW d \in Daemons, NEW t \in Threads, NEW i \in DOMAIN stack[d][t],
               stack[d][t][i].at \in {"services", "remove"}, "early" \notin odd[d]
        PROVE  thread[d] # "alive"
    <3>1. Points(d, t) \cap {"services", "remove"} # {}
      BY <2>1 DEF Points
    <3> QED
      BY <2>1, <3>1 DEF Safe, Inv, Workers
  <2> QED
    BY <2>1 DEF StopWaitsForWorker
<1> QED
  BY <1>1, DaemonSafe, PTL

\* No process ends in std::terminate: no thread joins itself, no joinable handle
\* is overwritten or destroyed, unless a signal came inside start() or on the
\* worker (daemon.cpp:28-30, 54, 72).
THEOREM DaemonNeverAborts == Spec => []NeverAborts
<1>1. Safe => NeverAborts
  BY DEF Safe, NeverAborts, Inv, Calls, Quiet
<1> QED
  BY <1>1, DaemonSafe, PTL

\* A daemon that is idle and does not run has left no worker, no service and no
\* PID file behind but for what the history excepts, and no service ever runs
\* that the registry has forgotten (daemon.cpp:63-83, services.cpp:31-44).
THEOREM DaemonLeavesNothing == Spec => []NothingLeftBehind
<1>1. Safe => NothingLeftBehind
  <2> SUFFICES ASSUME Safe, NEW d \in Daemons
               PROVE  /\ up[d] \subseteq registered[d]
                      /\ MainAt(d, "idle") /\ Free(d, "worker") /\ ~running[d] =>
                           /\ thread[d] = "alive" => "early" \in odd[d]
                           /\ up[d] # {} => odd[d] \cap {"early", "failed", "manual"} # {}
                           /\ pidFile = d => odd[d] \cap {"early", "failed"} # {}
    BY DEF NothingLeftBehind
  <2>1. up[d] \subseteq registered[d]
    BY DEF Safe, Left
  <2>2. ASSUME MainAt(d, "idle"), Free(d, "worker"), ~running[d]
        PROVE  /\ thread[d] = "alive" => "early" \in odd[d]
               /\ up[d] # {} => odd[d] \cap {"early", "failed", "manual"} # {}
               /\ pidFile = d => odd[d] \cap {"early", "failed"} # {}
    <3>1. Busy(d) = {} /\ proc[d] = "alive" /\ main[d] = "idle"
      BY <2>2, EmptyPoints DEF MainAt, Free, Busy, Threads
    <3> QED
      BY <2>2, <3>1 DEF Safe, Left, Inv, Workers
  <2> QED
    BY <2>1, <2>2
<1> QED
  BY <1>1, DaemonSafe, PTL
-----------------------------------------------------------------------------
\* One daemon uses the PID file.
Lone == \A d, e \in Daemons : d = e

\* What keeps the PID file while the daemon runs: a call that may remove it has
\* cleared running_, and on the way to set it start() is interrupted at most by
\* calls that will find it clear.  The worker runs calls only after a signal.
Named(d) ==
  /\ Points(d, "main") \cap {"join", "services", "remove"} # {} => ~running[d]
  /\ main[d] \in {"write", "install", "services", "running"} =>
       ~running[d] /\ Points(d, "main") \subseteq {"check"}
  /\ "worker" \notin odd[d] => Points(d, "worker") = {}
  /\ running[d] \/ main[d] \in {"install", "services", "running"} =>
       pidFile = d \/ {"early", "worker"} \subseteq odd[d]

LEMMA MainNamed ==
  ASSUME TypeOK, NEW d \in Daemons, Named(d),
         \/ Start(d) \/ WritePidFile(d) \/ InstallHandlers(d) \/ StartServices(d)
         \/ SetRunning(d) \/ Spawn(d) \/ StopReturned(d) \/ ClearInstance(d)
         \/ UseRegistry(d) \/ WorkerExits(d)
  PROVE  Named(d)'
<1>1. stack' = stack
  BY DEF Start, WritePidFile, InstallHandlers, StartServices, SetRunning, Spawn, UseRegistry,
     Register, Unregister, StopService, RestartService, StartService, Registry, StopReturned,
     ClearInstance, WorkerExits
<1>2. \A t \in Threads : Points(d, t)' = Points(d, t)
  BY <1>1, SamePoints
<1>3. odd[d] \subseteq odd'[d]
  BY DEF Start, WritePidFile, InstallHandlers, StartServices, SetRunning, Spawn, UseRegistry,
     Register, Unregister, StopService, RestartService, StartService, Registry, StopReturned,
     ClearInstance, WorkerExits, Notes, book, TypeOK
<1>4. CASE UseRegistry(d) \/ WorkerExits(d)
  BY <1>2, <1>3, <1>4 DEF UseRegistry, Register, Unregister, StopService, RestartService,
     StartService, Registry, WorkerExits, Named, Threads
<1>5. CASE \/ Start(d) \/ WritePidFile(d) \/ InstallHandlers(d) \/ StartServices(d)
           \/ SetRunning(d) \/ Spawn(d) \/ StopReturned(d) \/ ClearInstance(d)
  <2>1. Points(d, "main") = {}
    BY <1>5, EmptyPoints DEF Start, WritePidFile, InstallHandlers, StartServices, SetRunning,
       Spawn, StopReturned, ClearInstance, MainAt, Free, Threads
  <2>2. CASE Start(d) \/ WritePidFile(d) \/ InstallHandlers(d) \/ StartServices(d)
    BY <1>2, <1>3, <2>1, <2>2 DEF Start, WritePidFile, InstallHandlers, StartServices, MainAt,
       MainGoes, Named, Threads, TypeOK
  <2>3. CASE SetRunning(d) \/ Spawn(d) \/ StopReturned(d) \/ ClearInstance(d)
    BY <1>2, <1>3, <2>1, <2>3 DEF SetRunning, Spawn, StopReturned, ClearInstance, MainAt,
       MainGoes, Named, Threads, TypeOK
  <2> QED
    BY <1>5, <2>2, <2>3
<1> QED
  BY <1>4, <1>5

LEMMA EndsNamed ==
  ASSUME TypeOK, NEW d \in Daemons, Named(d), NEW how, Ends(d, how), main' = main,
         pidFile' = pidFile, odd[d] \subseteq odd'[d]
  PROVE  Named(d)'
<1>1. (\A t \in Threads : Points(d, t)' = {}) /\ ~running'[d]
  BY EndsPoints DEF Ends, TypeOK
<1> QED
  BY <1>1 DEF Named, Threads

LEMMA CallStopNamed ==
  ASSUME TypeOK, NEW d \in Daemons, Named(d), CallStop(d)
  PROVE  Named(d)'
<1>1. Points(d, "main") = {}
  BY EmptyPoints DEF CallStop, MainAt, Free, Threads
<1>2. Only(d, "main") /\ Points(d, "main")' = {"check"}
  BY <1>1, PushPoints DEF CallStop, TypeOK, Stacks, Threads
<1>3. Points(d, "worker")' = Points(d, "worker")
  BY <1>2 DEF Points, Only, Threads
<1>4. main'[d] \in {"stopping", "destroying"} /\ UNCHANGED <<running, pidFile, odd>>
  BY DEF CallStop, MainGoes, TypeOK, book
<1> QED
  BY <1>1, <1>2, <1>3, <1>4 DEF Named

LEMMA AssignNamed ==
  ASSUME TypeOK, NEW d \in Daemons, Named(d), Assign(d)
  PROVE  Named(d)'
<1>1. CASE Ends(d, "aborted") /\ UNCHANGED <<main, handle>>
  BY <1>1, EndsNamed DEF Assign, book
<1>2. CASE main'[d] = "idle" /\ UNCHANGED <<stack, running>>
  <2>1. \A t \in Threads : Points(d, t)' = Points(d, t)
    BY <1>2, SamePoints
  <2> QED
    BY <1>2, <2>1 DEF Assign, Named, Threads, book
<1> QED
  BY <1>1, <1>2 DEF Assign, MainGoes, TypeOK

\* Of the statements of stop() the unlink is the one that matters: on the main
\* thread running_ is clear and start() is not under way, on the worker, unless
\* a signal came early, no call gets that far.
LEMMA StopNamed ==
  ASSUME TypeOK, NEW d \in Daemons, Inv(d), Named(d), NEW t \in Threads, Stop(d, t)
  PROVE  Named(d)'
<1>1. stack \in Stacks
  BY DEF TypeOK, Stacks
<1>2. CASE StopCheck(d, t)
  <2>1. /\ Only(d, t)
        /\ Points(d, t)' \subseteq Points(d, t) \cup (IF running[d] THEN {"clear"} ELSE {})
        /\ Points(d, t) # {}
    BY <1>1, <1>2, GoesPoints, PopsPoints DEF StopCheck, StopPoints
  <2>2. \A u \in Threads \ {t} : Points(d, u)' = Points(d, u)
    BY <2>1 DEF Points, Only
  <2> QED
    BY <1>2, <2>1, <2>2 DEF StopCheck, Named, Threads, book
<1>3. CASE StopClear(d, t)
  <2>1. /\ Only(d, t) /\ "clear" \in Points(d, t)
    BY <1>1, <1>3, GoesPoints DEF StopClear, StopPoints
  <2>2. \A u \in Threads \ {t} : Points(d, u)' = Points(d, u)
    BY <2>1 DEF Points, Only
  <2>3. ~running'[d]
    BY <1>3 DEF StopClear, TypeOK
  <2> QED
    BY <1>3, <2>1, <2>2, <2>3 DEF StopClear, Named, Threads, book
<1>4. CASE (StopJoin(d, t) /\ Goes(d, t, "services")) \/ StopServices(d, t)
  <2>1. /\ Only(d, t)
        /\ Points(d, t)' \subseteq Points(d, t) \cup {"services", "remove"}
        /\ Points(d, t) \cap {"join", "services"} # {}
    BY <1>1, <1>4, GoesPoints DEF StopJoin, StopServices, StopPoints
  <2>2. \A u \in Threads \ {t} : Points(d, u)' = Points(d, u)
    BY <2>1 DEF Points, Only
  <2>3. UNCHANGED <<main, pidFile, odd>> /\ (running' = running \/ ~running'[d])
    BY <1>4 DEF StopJoin, StopServices, Ends, TypeOK, book
  <2> QED
    BY <2>1, <2>2, <2>3 DEF Named, Threads
<1>5. CASE StopJoin(d, t) /\ Ends(d, "aborted")
  BY <1>5, EndsNamed DEF StopJoin, book
<1>6. CASE RemovePidFile(d, t)
  <2>1. /\ Only(d, t)
        /\ Points(d, t)' \subseteq Points(d, t)
        /\ "remove" \in Points(d, t)
    BY <1>1, <1>6, PopsPoints DEF RemovePidFile, StopPoints
  <2>2. \A u \in Threads \ {t} : Points(d, u)' = Points(d, u)
    BY <2>1 DEF Points, Only
  <2>3. t = "worker" => {"early", "worker"} \subseteq odd[d]
    BY <2>1 DEF Named, Inv, Workers
  <2> QED
    BY <1>6, <2>1, <2>2, <2>3 DEF RemovePidFile, Named, Threads, book
<1> QED
  BY <1>2, <1>3, <1>4, <1>5, <1>6 DEF Stop, StopJoin

LEMMA SignalNamed ==
  ASSUME TypeOK, NEW d \in Daemons, Named(d), NEW t \in Threads, NEW why \in Kinds,
         Signal(d, t, why)
  PROVE  Named(d)'
<1>1. /\ odd[d] \subseteq odd'[d] /\ UNCHANGED <<main, pidFile>>
      /\ t = "worker" => "worker" \in odd'[d]
  BY DEF Signal, Notes, TypeOK
<1>2. CASE Ends(d, "killed")
  BY <1>1, <1>2, EndsNamed
<1>3. CASE UNCHANGED running /\ Push(d, t, why)
  <2>1. Only(d, t) /\ Points(d, t)' = Points(d, t) \cup {"check"}
    BY <1>3, PushPoints DEF TypeOK, Stacks
  <2>2. \A u \in Threads \ {t} : Points(d, u)' = Points(d, u)
    BY <2>1 DEF Points, Only
  <2> QED
    BY <1>1, <1>3, <2>1, <2>2 DEF Named, Threads
<1>4. CASE UNCHANGED <<running, stack>>
  <2>1. \A u \in Threads : Points(d, u)' = Points(d, u)
    BY <1>4, SamePoints
  <2> QED
    BY <1>1, <1>4, <2>1 DEF Named, Threads
<1> QED
  BY <1>2, <1>3, <1>4 DEF Signal

LEMMA StepNamed ==
  ASSUME TypeOK, NEW d \in Daemons, Inv(d), Named(d), Step(d)
  PROVE  Named(d)'
<1>1. CASE DestroyMembers(d)
  BY <1>1, EndsNamed DEF DestroyMembers, book
<1>2. CASE Stop(d, "main") \/ Stop(d, "worker")
  BY <1>2, StopNamed DEF Threads
<1> QED
  BY <1>1, <1>2, MainNamed, CallStopNamed, AssignNamed, SignalNamed
     DEF Step, MainStep, WorkerStep

\* Of one daemon the PID file names it while it runs, whatever calls and handlers
\* are under way, unless a signal inside start() and one on the worker came
\* together (daemon.cpp:34-83, 142-163).
THEOREM DaemonNamed ==
  ASSUME Lone
  PROVE  Spec => []PidFileNamesRunning
<1> DEFINE AllNamed == \A d \in Daemons : Named(d)
<1>1. Init => AllNamed
  <2> SUFFICES ASSUME Init, NEW d \in Daemons PROVE Named(d)
    OBVIOUS
  <2>1. \A t \in Threads : Points(d, t) = {}
    BY EmptyPoints DEF Init
  <2> QED
    BY <2>1 DEF Init, Named, Threads
<1>2. Safe /\ AllNamed /\ [Next]_vars => AllNamed'
  <2> SUFFICES ASSUME Safe, AllNamed, [Next]_vars, NEW d \in Daemons PROVE Named(d)'
    OBVIOUS
  <2>1. CASE UNCHANGED vars
    BY <2>1, SamePoints DEF vars, procVars, book, Named, Threads
  <2>2. CASE Next
    <3>1. Step(d)
      BY <2>2 DEF Next, Step, Lone
    <3> QED
      BY <3>1, StepNamed DEF Safe
  <2> QED
    BY <2>1, <2>2
<1>3. AllNamed => PidFileNamesRunning
  BY DEF Named, PidFileNamesRunning
<1> QED
  BY <1>1, <1>2, <1>3, SafeInitially, SafeKept, PTL DEF Spec

=============================================================================
