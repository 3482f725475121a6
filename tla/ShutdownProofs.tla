--------------------------- MODULE ShutdownProofs ---------------------------
(***************************************************************************)
(* Shutdown for any number of requests: its shutdown is graceful.          *)
(***************************************************************************)
EXTENDS Shutdown, TLAPS

(* A graceful stop that has returned has left nothing running, unless its   *)
(* time was up; main stops the servers when both have returned or its own   *)
(* time is up.                                                              *)
Drained ==
  /\ drain["grpc"] = "done" => Running("grpc") = {} \/ forced
  /\ drain["http"] = "done" => Running("http") = {} \/ timeout["http"]

Decided == main = "stop" => timeout["main"] \/ ShutdownDone

SInv == TypeOK /\ Drained /\ Decided
-----------------------------------------------------------------------------
LEMMA TypeStep == TypeOK /\ [Next]_vars => TypeOK'
  <1> SUFFICES ASSUME TypeOK, [Next]_vars PROVE TypeOK' OBVIOUS
  <1> USE DEF TypeOK, Boot, Server
  <1>1. CASE UNCHANGED vars BY <1>1 DEF vars
  <1>2. CASE StartFails BY <1>2 DEF StartFails, Die
  <1>3. CASE StartGRPC BY <1>3 DEF StartGRPC
  <1>4. CASE StartHTTP BY <1>4 DEF StartHTTP
  <1>5. CASE Notify BY <1>5 DEF Notify
  <1>6. CASE SendSignal BY <1>6 DEF SendSignal, Die
  <1>7. ASSUME NEW w \in Work, Start(w) \/ Finish(w) PROVE TypeOK' BY <1>7 DEF Start, Finish
  <1>8. ASSUME NEW s \in Server, ServeFails(s) \/ ServeReturns(s) PROVE TypeOK'
    BY <1>8 DEF ServeFails, ServeReturns
  <1>9. CASE Select BY <1>9 DEF Select, Take
  <1>10. ASSUME NEW s \in Server, BeginDrain(s) \/ EndDrain(s) PROVE TypeOK'
    BY <1>10 DEF BeginDrain, EndDrain
  <1>11. ASSUME NEW t \in {"main", "http"}, Expire(t) PROVE TypeOK' BY <1>11 DEF Expire
  <1>12. CASE Wait BY <1>12 DEF Wait
  <1>13. CASE Stop BY <1>13 DEF Stop, Cut
  <1>14. CASE Receive BY <1>14 DEF Receive, Take
  <1>15. CASE Join BY <1>15 DEF Join, Cut
  <1> QED BY <1>1, <1>2, <1>3, <1>4, <1>5, <1>6, <1>7, <1>8, <1>9, <1>10, <1>11, <1>12, <1>13,
             <1>14, <1>15 DEF Next, Runtime

(* Nothing starts on a server that was told to stop, so what is over stays  *)
(* over, and time that is up stays up.                                      *)
LEMMA DrainedStep == TypeOK /\ Drained /\ [Next]_vars => Drained'
  <1> SUFFICES ASSUME TypeOK, Drained, [Next]_vars PROVE Drained' OBVIOUS
  <1>a. ASSUME drain' = drain, timeout' = timeout, forced => forced',
               \A s \in Server : drain[s] = "done" => Running(s)' \subseteq Running(s)
        PROVE  Drained'
    BY <1>a DEF Drained, Server
  <1>b. ASSUME \A w \in Work : work'[w] = "running" => work[w] = "running",
               NEW s \in Server
        PROVE  Running(s)' \subseteq Running(s)
    BY <1>b DEF Running
  <1> USE DEF TypeOK, Boot, Server
  <1>1. CASE UNCHANGED vars BY <1>1 DEF vars, Drained, Running
  <1>2. CASE StartFails BY <1>2, <1>a, <1>b DEF StartFails, Die
  <1>3. CASE StartGRPC \/ StartHTTP \/ Notify BY <1>3, <1>a, <1>b DEF StartGRPC, StartHTTP, Notify
  <1>4. CASE SendSignal BY <1>4, <1>a, <1>b DEF SendSignal, Die
  <1>5. ASSUME NEW w \in Work, Start(w) PROVE Drained'
    <2>1. \A s \in Server : drain[s] = "done" => Running(s)' \subseteq Running(s)
      BY <1>5 DEF Start, Told, Running
    <2> QED BY <2>1, <1>5, <1>a DEF Start
  <1>6. ASSUME NEW w \in Work, Finish(w) PROVE Drained' BY <1>6, <1>a, <1>b DEF Finish
  <1>7. ASSUME NEW s \in Server, ServeFails(s) \/ ServeReturns(s) PROVE Drained'
    BY <1>7, <1>a, <1>b DEF ServeFails, ServeReturns
  <1>8. CASE Select BY <1>8 DEF Select, Drained
  <1>9. ASSUME NEW s \in Server, BeginDrain(s) PROVE Drained'
    BY <1>9 DEF BeginDrain, Drained, Running
  <1>10. ASSUME NEW s \in Server, EndDrain(s) PROVE Drained'
    BY <1>10 DEF EndDrain, Drained, Running
  <1>11. ASSUME NEW t \in {"main", "http"}, Expire(t) PROVE Drained'
    BY <1>11 DEF Expire, Drained, Running
  <1>12. CASE Wait \/ Receive BY <1>12, <1>a, <1>b DEF Wait, Receive
  <1>13. CASE Stop BY <1>13, <1>a, <1>b DEF Stop, Cut
  <1>14. CASE Join BY <1>14, <1>a, <1>b DEF Join, Cut
  <1> QED BY <1>1, <1>2, <1>3, <1>4, <1>5, <1>6, <1>7, <1>8, <1>9, <1>10, <1>11, <1>12, <1>13,
             <1>14 DEF Next, Runtime

LEMMA DecidedStep == TypeOK /\ Decided /\ [Next]_vars => Decided'
  <1> SUFFICES ASSUME TypeOK, Decided, [Next]_vars, main' = "stop"
               PROVE  (timeout["main"] \/ ShutdownDone)'
    BY DEF Decided
  <1>1. CASE main = "stop"
    <2>1. timeout["main"] \/ ShutdownDone BY <1>1 DEF Decided
    <2>2. timeout["main"] => timeout'["main"]
      BY <1>1 DEF TypeOK, Next, Runtime, vars, StartFails, StartGRPC, StartHTTP, Notify, SendSignal, Start,
                  Finish, ServeFails, ServeReturns, Select, BeginDrain, EndDrain, Expire, Wait, Stop,
                  Receive, Join
    <2>3. ShutdownDone => ShutdownDone'
      BY <1>1 DEF TypeOK, Next, Runtime, vars, StartFails, StartGRPC, StartHTTP, Notify, SendSignal, Start,
                  Finish, ServeFails, ServeReturns, Select, BeginDrain, EndDrain, Expire, Wait, Stop,
                  Receive, Join, ShutdownDone
    <2> QED BY <2>1, <2>2, <2>3
  <1>2. CASE main # "stop"
    <2>1. Wait
      BY <1>2 DEF Next, Runtime, vars, StartFails, Die, StartGRPC, StartHTTP, Notify, SendSignal, Start,
                  Finish, ServeFails, ServeReturns, Select, BeginDrain, EndDrain, Expire, Stop,
                  Receive, Join
    <2> QED BY <2>1 DEF Wait, ShutdownDone
  <1> QED BY <1>1, <1>2

LEMMA InitSInv == Init => SInv
  <1> SUFFICES ASSUME Init PROVE SInv OBVIOUS
  <1>1. drain = [s \in Server |-> "none"] BY DEF Init
  <1>2. drain["grpc"] = "none" /\ drain["http"] = "none" BY <1>1 DEF Server
  <1>3. main = "open" /\ forced = FALSE /\ signal = FALSE BY DEF Init
  <1>4. timeout \in [{"main", "http"} -> BOOLEAN] BY DEF Init
  <1>5. work \in [Work -> {"new", "running", "finished", "cut"}] BY DEF Init
  <1>6. /\ drain \in [Server -> {"none", "launched", "draining", "done"}]
        /\ loop \in [Server -> {"off", "serving", "sending", "closed"}]
    BY DEF Init
  <1>7. TypeOK BY <1>2, <1>3, <1>4, <1>5, <1>6 DEF TypeOK, Boot
  <1> QED BY <1>2, <1>3, <1>7 DEF SInv, Drained, Decided

LEMMA SInvStep == SInv /\ [Next]_vars => SInv'
  BY TypeStep, DrainedStep, DecidedStep DEF SInv

(* The variables keep their types, and main, its goroutines and the forced  *)
(* stop stay in step, for any number of requests.                           *)
THEOREM LifeTypeCorrect == Spec => []TypeOK
  <1>1. SInv => TypeOK BY DEF SInv
  <1> QED BY <1>1, InitSInv, SInvStep, PTL DEF Spec

(* A request is cut off by the death of a process that is still starting,   *)
(* by the forced stop of gRPC after main's five seconds or by the end of    *)
(* the process after those of the HTTP shutdown, and by nothing else.       *)
LEMMA CutStep ==
  ASSUME SInv, [Next]_vars, NEW w \in Work, work[w] = "running", work'[w] = "cut"
  PROVE  main \in Boot \/ timeout[IF ServerOf[w] = "grpc" THEN "main" ELSE "http"]
  <1> USE DEF TypeOK, Server
  <1>0. /\ TypeOK /\ ServerOf[w] \in Server
        /\ ServerOf[w] = "grpc" => Running("grpc") # {}
        /\ ServerOf[w] = "http" => Running("http") # {}
    BY ServerAssumption DEF SInv, Running
  <1>1. CASE StartFails \/ SendSignal BY <1>1 DEF StartFails, SendSignal, Boot
  <1>2. CASE Stop
    <2>1. ServerOf[w] = "grpc" BY <1>2, <1>0 DEF Stop, Cut, Running
    <2>2. ~forced BY <1>2, <1>0 DEF Stop
    <2>3. drain["grpc"] # "done" BY <1>0, <2>1, <2>2 DEF SInv, Drained
    <2> QED BY <1>2, <2>1, <2>3 DEF SInv, Decided, Stop, ShutdownDone
  <1>3. CASE Join
    <2>1. ServerOf[w] = "http" BY <1>3, <1>0 DEF Join, Cut, Running
    <2> QED BY <1>0, <1>3, <2>1 DEF Join, ShutdownDone, SInv, Drained
  <1>4. CASE ~(StartFails \/ SendSignal \/ Stop \/ Join)
    BY <1>0, <1>4 DEF Next, Runtime, vars, StartGRPC, StartHTTP, Notify, Start, Finish, ServeFails,
                      ServeReturns, Select, BeginDrain, EndDrain, Expire, Wait, Receive
  <1> QED BY <1>1, <1>2, <1>3, <1>4

(* Shutdown is graceful for any number of requests, however failures,       *)
(* signals and clocks fall.                                                 *)
THEOREM ShutdownIsGraceful == Spec => NothingCutEarly
  <1>1. SInv /\ [Next]_vars =>
          [\A w \in Work : work[w] = "running" /\ work'[w] = "cut" =>
             main \in Boot \/ timeout[IF ServerOf[w] = "grpc" THEN "main" ELSE "http"]]_vars
    BY CutStep
  <1> QED BY <1>1, InitSInv, SInvStep, PTL DEF Spec, NothingCutEarly
=============================================================================
