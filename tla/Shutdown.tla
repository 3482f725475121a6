------------------------------ MODULE Shutdown ------------------------------
(***************************************************************************)
(* The life of one API server process (runAPI): its start, which has gRPC  *)
(* serve before the rest is ready; then the gRPC and HTTP servers in       *)
(* goroutines of their own, the main goroutine waiting for a failure or a  *)
(* signal, and the shutdown in two stages: both servers gracefully and in  *)
(* parallel and, after gracefulShutdownTimeout, gRPC by force.             *)
(***************************************************************************)
CONSTANTS
  Work,        \* requests clients send
  ServerOf     \* the server each request goes to

Server == {"grpc", "http"}

ASSUME ServerAssumption == ServerOf \in [Work -> Server]

VARIABLES
  main,      \* where runAPI is
  signal,    \* exitCh holds a SIGINT or SIGTERM
  loop,      \* each server's goroutine: Serve or ListenAndServe, then the send on its channel
  drain,     \* the goroutines of GracefulStop and Shutdown
  timeout,   \* main's time.After and the context of Shutdown have expired
  forced,    \* grpcServer.Stop was called
  work       \* what became of each request

vars == <<main, signal, loop, drain, timeout, forced, work>>

(* Before the database, the key and the bot are there; before the admin     *)
(* service; before signals are caught.                                      *)
Boot == {"open", "admin", "notify"}

TypeOK ==
  /\ main \in Boot \cup {"select", "wait", "stop", "receive", "join", "exited", "dead"}
  /\ signal \in BOOLEAN /\ forced \in BOOLEAN
  /\ loop \in [Server -> {"off", "serving", "sending", "closed"}]
  /\ drain \in [Server -> {"none", "launched", "draining", "done"}]
  /\ timeout \in [{"main", "http"} -> BOOLEAN]
  /\ work \in [Work -> {"new", "running", "finished", "cut"}]
  /\ main \in {"wait", "stop", "receive", "join", "exited"} <=> drain["grpc"] # "none"
  /\ drain["grpc"] = "none" <=> drain["http"] = "none"
  /\ forced <=> main \in {"receive", "join", "exited"}

Init ==
  /\ main = "open" /\ signal = FALSE /\ forced = FALSE
  /\ loop = [s \in Server |-> "off"]
  /\ drain = [s \in Server |-> "none"]
  /\ timeout = [t \in {"main", "http"} |-> FALSE]
  /\ work = [w \in Work |-> "new"]

Up == main \notin {"exited", "dead"}
Running(s) == {w \in Work : ServerOf[w] = s /\ work[w] = "running"}
Cut(s) == [w \in Work |-> IF w \in Running(s) THEN "cut" ELSE work[w]]
Told(s) == drain[s] \in {"draining", "done"} \/ (s = "grpc" /\ forced)

(* The process ends at once, and with it what runs.                         *)
Die ==
  /\ main' = "dead"
  /\ work' = [w \in Work |-> IF work[w] = "running" THEN "cut" ELSE work[w]]

(* The database, the key or the bot is missing, the address cannot be bound *)
(* or, with gRPC serving already, the admin's credentials are malformed.    *)
StartFails ==
  /\ main \in {"open", "admin"}
  /\ Die
  /\ UNCHANGED <<signal, loop, drain, timeout, forced>>

StartGRPC ==
  /\ main = "open"
  /\ main' = "admin"
  /\ loop' = [loop EXCEPT !["grpc"] = "serving"]
  /\ UNCHANGED <<signal, drain, timeout, forced, work>>

StartHTTP ==
  /\ main = "admin"
  /\ main' = "notify"
  /\ loop' = [loop EXCEPT !["http"] = "serving"]
  /\ UNCHANGED <<signal, drain, timeout, forced, work>>

Notify ==
  /\ main = "notify"
  /\ main' = "select"
  /\ UNCHANGED <<signal, loop, drain, timeout, forced, work>>

(* The operator or Kubernetes stops the pod. Until signal.Notify a signal   *)
(* kills the process; from then on it is left in exitCh.                    *)
SendSignal ==
  /\ Up /\ ~signal
  /\ signal' = TRUE
  /\ IF main \in Boot THEN Die ELSE UNCHANGED <<main, work>>
  /\ UNCHANGED <<loop, drain, timeout, forced>>

(* A request arrives, on an old connection even when no new one is accepted *)
(* any more, until the server is told to stop.                              *)
Start(w) ==
  /\ Up /\ work[w] = "new" /\ loop[ServerOf[w]] # "off" /\ ~Told(ServerOf[w])
  /\ work' = [work EXCEPT ![w] = "running"]
  /\ UNCHANGED <<main, signal, loop, drain, timeout, forced>>

Finish(w) ==
  /\ Up /\ work[w] = "running"
  /\ work' = [work EXCEPT ![w] = "finished"]
  /\ UNCHANGED <<main, signal, loop, drain, timeout, forced>>

(* A server goroutine has a result to send: an error, or nil once it was    *)
(* told to stop; Serve returns that only after GracefulStop or Stop is over. *)
ServeFails(s) ==
  /\ Up /\ loop[s] = "serving" /\ ~Told(s)
  /\ loop' = [loop EXCEPT ![s] = "sending"]
  /\ UNCHANGED <<main, signal, drain, timeout, forced, work>>

ServeReturns(s) ==
  /\ Up /\ loop[s] = "serving"
  /\ IF s = "grpc" THEN drain[s] = "done" \/ forced ELSE drain[s] \in {"draining", "done"}
  /\ loop' = [loop EXCEPT ![s] = "sending"]
  /\ UNCHANGED <<main, signal, drain, timeout, forced, work>>

(* A receive from an unbuffered channel; the sender then closes it.         *)
Take(s) == loop[s] = "sending" /\ loop' = [loop EXCEPT ![s] = "closed"]

(* Mutant: the HTTP server is left running.                                 *)
SelectGRPCOnly ==
  /\ main = "select"
  /\ \/ signal /\ UNCHANGED loop
     \/ \E s \in Server : Take(s)
  /\ main' = "wait"
  /\ drain' = [drain EXCEPT !["grpc"] = "launched"]
  /\ UNCHANGED <<signal, timeout, forced, work>>

(* The first select of runAPI, and the start of both graceful shutdowns.    *)
Select ==
  /\ main = "select"
  /\ \/ signal /\ UNCHANGED loop
     \/ \E s \in Server : Take(s)
  /\ main' = "wait"
  /\ drain' = [s \in Server |-> "launched"]
  /\ UNCHANGED <<signal, timeout, forced, work>>

BeginDrain(s) ==
  /\ Up /\ drain[s] = "launched"
  /\ drain' = [drain EXCEPT ![s] = "draining"]
  /\ UNCHANGED <<main, signal, loop, timeout, forced, work>>

(* GracefulStop returns when no call is left or Stop took the connections;  *)
(* Shutdown when no request is left or its context has expired.             *)
EndDrain(s) ==
  /\ Up /\ drain[s] = "draining"
  /\ Running(s) = {} \/ (IF s = "grpc" THEN forced ELSE timeout["http"])
  /\ drain' = [drain EXCEPT ![s] = "done"]
  /\ UNCHANGED <<main, signal, loop, timeout, forced, work>>

(* Both clocks run for gracefulShutdownTimeout, one from the second select, *)
(* the other from the call of Shutdown.                                     *)
Expire(t) ==
  /\ Up /\ ~timeout[t]
  /\ IF t = "main" THEN drain["grpc"] # "none" ELSE drain["http"] = "draining"
  /\ timeout' = [timeout EXCEPT ![t] = TRUE]
  /\ UNCHANGED <<main, signal, loop, drain, forced, work>>

ShutdownDone == \A s \in Server : drain[s] = "done"

(* Mutant: the servers are stopped without waiting.                         *)
WaitNot ==
  /\ main = "wait"
  /\ main' = "stop"
  /\ UNCHANGED <<signal, loop, drain, timeout, forced, work>>

(* The second select.                                                       *)
Wait ==
  /\ main = "wait"
  /\ ShutdownDone \/ timeout["main"]
  /\ main' = "stop"
  /\ UNCHANGED <<signal, loop, drain, timeout, forced, work>>

(* grpcServer.Stop closes the connections under calls that still run.       *)
Stop ==
  /\ main = "stop"
  /\ forced' = TRUE
  /\ work' = Cut("grpc")
  /\ main' = "receive"
  /\ UNCHANGED <<signal, loop, drain, timeout>>

(* Mutant: the sender does not close grpcCh.                                *)
ReceiveUnclosed ==
  /\ main = "receive"
  /\ Take("grpc")
  /\ main' = "join"
  /\ UNCHANGED <<signal, drain, timeout, forced, work>>

(* The receive from grpcCh: the result of Serve, or at once when the first  *)
(* select has taken it and the channel is closed.                           *)
Receive ==
  /\ main = "receive"
  /\ Take("grpc") \/ (loop["grpc"] = "closed" /\ UNCHANGED loop)
  /\ main' = "join"
  /\ UNCHANGED <<signal, drain, timeout, forced, work>>

(* The receive from shutdownDone; the process ends, and with it what runs.  *)
Join ==
  /\ main = "join"
  /\ ShutdownDone
  /\ main' = "exited"
  /\ work' = Cut("http")
  /\ UNCHANGED <<signal, loop, drain, timeout, forced>>

Runtime ==
  \/ StartHTTP \/ Notify
  \/ Select \/ Wait \/ Stop \/ Receive \/ Join
  \/ \E s \in Server : ServeReturns(s) \/ BeginDrain(s) \/ EndDrain(s)
  \/ \E t \in {"main", "http"} : Expire(t)

Next ==
  \/ StartGRPC \/ StartFails
  \/ Runtime
  \/ SendSignal
  \/ \E w \in Work : Start(w) \/ Finish(w)
  \/ \E s \in Server : ServeFails(s)

Spec == Init /\ [][Next]_vars

(* Goroutines that can run do, and clocks tick. Nothing says that a request *)
(* is ever finished, or that the bot answers the ping of the start.         *)
Fairness ==
  /\ WF_vars(StartHTTP \/ StartFails) /\ WF_vars(Notify)
  /\ WF_vars(Select) /\ WF_vars(Wait) /\ WF_vars(Stop) /\ WF_vars(Receive) /\ WF_vars(Join)
  /\ \A s \in Server : WF_vars(ServeReturns(s)) /\ WF_vars(BeginDrain(s)) /\ WF_vars(EndDrain(s))
  /\ \A t \in {"main", "http"} : WF_vars(Expire(t))
FairSpec == Spec /\ Fairness
-----------------------------------------------------------------------------
(* A shutdown is graceful: once signals are caught, a request is cut off    *)
(* only after the five seconds its server was given, however failures,      *)
(* signals and clocks fall. Only a process that is still starting dies at   *)
(* once, with the requests it has let in already.                           *)
NothingCutEarly ==
  [][\A w \in Work : work[w] = "running" /\ work'[w] = "cut" =>
       main \in Boot \/ timeout[IF ServerOf[w] = "grpc" THEN "main" ELSE "http"]]_vars

(* A signal or a failed server ends the process, even when requests hang,   *)
(* when the other server fails too, or when the result of Serve was taken   *)
(* by the first select already.                                             *)
ShutdownEnds == (signal \/ \E s \in Server : loop[s] = "sending") ~> ~Up
=============================================================================
