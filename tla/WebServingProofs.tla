-------------------------- MODULE WebServingProofs --------------------------
(***************************************************************************)
(* For any number of runs of the script and of retries: the routers of     *)
(* earlier runs are out of the way, and whoever finds the machine ready    *)
(* finds both servers loaded, if the script is told to WAIT: it is then    *)
(* that no run begins while servers of the one before are still to load.   *)
(***************************************************************************)
EXTENDS WebServing, TLAPS

(* The services of runs that are still to come have no supervisor, nor has *)
(* a service that the script is still to start.                            *)
Unstarted ==
    /\ \A k \in Services : k[1] > run => sup[k] = "none"
    /\ script # "idle" => run \in Runs
    /\ script \in {"kill router", "kill web-server", "start router"} =>
           sup[<<run, "router">>] = "none"
    /\ script \in {"kill router", "kill web-server", "start router", "start web-server"} =>
           sup[<<run, "web-server">>] = "none"

(* Once KillRouter is done, no earlier router has a supervisor.            *)
Replaced ==
    script # "kill router" =>
        \A r \in Runs : r < run => sup[<<r, "router">>] \in {"none", "gone"}

(* A service has nothing to write into the status file before a restart.   *)
Quiet(k) == sup[k] # "next" /\ proc[k] # "loading"

(* As long as nothing was restarted, what an earlier run started is quiet, *)
(* what this run started writes one line, and then it is quiet.            *)
OneLineEach ==
    NoRestart =>
        /\ \A k \in Services : k[1] < run \/ (k[1] = run /\ script = "idle") => Quiet(k)
        /\ \A s \in Servers :
              /\ lines[s] \in {0, 1}
              /\ lines[s] = 1 => /\ <<run, s>> \in Services
                                 /\ sup[<<run, s>>] # "none" /\ Quiet(<<run, s>>)

IInv == TypeOK /\ Unstarted /\ Replaced

-----------------------------------------------------------------------------
(* A service is a pair of a run, which is a number, and a server.          *)
LEMMA ServicePair == \A k \in Services : k[1] \in Runs /\ k[2] \in Servers /\ k = <<k[1], k[2]>>
  BY DEF Services

(* So runs can be compared.                                                *)
LEMMA RunsAreNumbers == Runs \subseteq Nat \ {0}
  BY ServingAssumption DEF Runs

(* The values of the functions of TypeOK.                                  *)
Sups  == {"none", "next", "running", "gone"}
Procs == {"none", "loading", "loaded", "serving", "failed"}
Codes == Exits \cup {0, 1, 101, SIGTERM}

(* What TypeOK says, by its parts.                                         *)
LEMMA TypeParts ==
  ASSUME TypeOK
  PROVE  /\ run \in Runs \cup {0}
         /\ sup \in [Services -> Sups] /\ iter \in [Services -> 1 .. MaxRetry + 1]
         /\ proc \in [Services -> Procs] /\ code \in [Services -> Codes]
         /\ lines \in [Servers -> Nat] /\ emails \subseteq Services
         /\ \A k \in Services : proc[k] # "none" => sup[k] = "running"
  BY DEF TypeOK, Sups, Procs, Codes

(* A function with another value of its range at one place.                *)
LEMMA Updated ==
  ASSUME NEW S, NEW T, NEW f \in [S -> T], NEW k \in S, NEW v \in T
  PROVE  /\ [f EXCEPT ![k] = v] \in [S -> T]
         /\ [f EXCEPT ![k] = v][k] = v
         /\ \A m \in S : m # k => [f EXCEPT ![k] = v][m] = f[m]
  OBVIOUS

(* A step of a server that is there: its process gets another state, and   *)
(* its supervisor stays.                                                   *)
ProcMoves(k) == /\ proc[k] # "none" /\ sup' = sup
                /\ \E v \in Procs : proc' = [proc EXCEPT ![k] = v]

(* Such a step keeps the processes in their types and under a supervisor.  *)
LEMMA ProcessMoved ==
  ASSUME TypeOK, NEW k \in Services, ProcMoves(k)
  PROVE  /\ proc' \in [Services -> Procs]
         /\ \A m \in Services : proc'[m] # "none" => sup'[m] = "running"
<1>1. PICK v \in Procs : proc' = [proc EXCEPT ![k] = v]
  BY DEF ProcMoves
<1>2. proc' \in [Services -> Procs] /\ \A m \in Services : m # k => proc'[m] = proc[m]
  BY <1>1, TypeParts, Updated
<1> QED
  BY <1>2, TypeParts DEF ProcMoves

(* The variables keep their types in a step.                               *)
LEMMA TypesKept == IInv /\ [Next]_vars => TypeOK'
<1> SUFFICES ASSUME IInv, [Next]_vars PROVE TypeOK'
  OBVIOUS
<1>0. TypeOK
  BY DEF IInv
<1>1. CASE SetUp
  BY <1>0, <1>1, ServingAssumption DEF SetUp, Goto, supVars, procVars, TypeOK
<1>2. CASE KillRouter
  BY <1>0, <1>2, ServicePair DEF KillRouter, Goto, TypeOK
<1>3. CASE KillWebServer
  BY <1>0, <1>3, ServicePair DEF KillWebServer, Goto, supVars, Alive, TypeOK
<1>4. CASE WaitOver
  BY <1>0, <1>4 DEF WaitOver, Goto, supVars, procVars, TypeOK
<1>5. CASE Poll
  BY <1>0, <1>5 DEF Poll, scriptVars, supVars, procVars, TypeOK
<1>6. ASSUME NEW s \in Servers, Start(s) PROVE TypeOK'
  <2>1. sup[<<run, s>>] = "none"
    BY <1>6 DEF Start, Goto, IInv, Unstarted, Servers
  <2> QED
    BY <1>0, <1>6, <2>1 DEF Start, Goto, procVars, TypeOK
<1>7. ASSUME NEW k \in Services, RunServer(k) PROVE TypeOK'
  BY <1>0, <1>7 DEF RunServer, scriptVars, TypeOK
<1>8. ASSUME NEW k \in Services, ServerExited(k) PROVE TypeOK'
  <2>1. iter' \in [Services -> 1 .. MaxRetry + 1]
    <3>1. iter[k] \in 1 .. MaxRetry + 1
      BY <1>0, TypeParts
    <3>2. CASE MayRetry(k) /\ iter' = [iter EXCEPT ![k] = @ + 1]
      <4>1. iter[k] + 1 \in 1 .. MaxRetry + 1
        BY <3>1, <3>2, ServingAssumption DEF MayRetry
      <4> QED
        BY <1>0, <3>2, <4>1, Updated, TypeParts
    <3>3. CASE iter' = iter
      BY <1>0, <3>3, TypeParts
    <3> QED
      BY <1>8, <3>2, <3>3 DEF ServerExited
  <2>2. \E v \in {"next", "gone"} : sup' = [sup EXCEPT ![k] = v]
    BY <1>8 DEF ServerExited
  <2>3. sup' \in [Services -> Sups] /\ \A m \in Services : m # k => sup'[m] = sup[m]
    BY <1>0, <2>2, TypeParts, Updated DEF Sups
  <2>4. /\ proc' \in [Services -> Procs] /\ proc'[k] = "none"
        /\ \A m \in Services : m # k => proc'[m] = proc[m]
    BY <1>0, <1>8, TypeParts, Updated DEF ServerExited, Procs
  <2>5. \A m \in Services : proc'[m] # "none" => sup'[m] = "running"
    BY <1>0, <2>3, <2>4, TypeParts
  <2>6. emails' \subseteq Services
    <3>1. emails' = emails \/ emails' = emails \cup {k}
      BY <1>8 DEF ServerExited
    <3> QED
      BY <1>0, <3>1, TypeParts
  <2>7. UNCHANGED <<script, run, waited, code, lines, polled>>
    BY <1>8 DEF ServerExited, scriptVars
  <2> QED
    BY <1>0, <2>1, <2>3, <2>4, <2>5, <2>6, <2>7 DEF TypeOK, Sups, Procs
<1>9. ASSUME NEW k \in Services, Load(k) PROVE TypeOK'
  <2>1. lines' \in [Servers -> Nat]
    <3>1. k[2] \in Servers
      BY ServicePair
    <3>2. lines[k[2]] + 1 \in Nat
      BY <1>0, <3>1, TypeParts
    <3> QED
      BY <1>0, <1>9, <3>1, <3>2, Updated, TypeParts DEF Load, AppendedBy
  <2>2. ProcMoves(k)
    BY <1>9 DEF Load, supVars, ProcMoves, Procs
  <2>3. UNCHANGED <<script, run, waited, sup, iter, emails, code, polled>>
    BY <1>9 DEF Load, scriptVars, supVars
  <2> QED
    BY <1>0, <2>1, <2>2, <2>3, ProcessMoved DEF TypeOK, Procs
<1>10. ASSUME NEW k \in Services, Bind(k) PROVE TypeOK'
  <2>1. code' = code \/ \E c \in Codes : code' = [code EXCEPT ![k] = c]
    BY <1>10 DEF Bind, Codes
  <2>2. code' \in [Services -> Codes]
    BY <1>0, <2>1, TypeParts, Updated
  <2>3. ProcMoves(k)
    BY <1>10 DEF Bind, supVars, ProcMoves, Procs
  <2>4. UNCHANGED <<script, run, waited, sup, iter, emails, lines, polled>>
    BY <1>10 DEF Bind, scriptVars, supVars
  <2> QED
    BY <1>0, <2>2, <2>3, <2>4, ProcessMoved DEF TypeOK, Procs, Codes
<1>11. ASSUME NEW k \in Services, Fail(k) PROVE TypeOK'
  <2>1. \E c \in Codes : code' = [code EXCEPT ![k] = c]
    BY <1>11 DEF Fail, Codes
  <2>2. code' \in [Services -> Codes]
    BY <1>0, <2>1, TypeParts, Updated
  <2>3. ProcMoves(k)
    BY <1>11 DEF Fail, Alive, supVars, ProcMoves, Procs
  <2>4. UNCHANGED <<script, run, waited, sup, iter, emails, lines, polled>>
    BY <1>11 DEF Fail, scriptVars, supVars
  <2> QED
    BY <1>0, <2>2, <2>3, <2>4, ProcessMoved DEF TypeOK, Procs, Codes
<1>12. CASE UNCHANGED vars
  BY <1>0, <1>12 DEF vars, scriptVars, supVars, procVars, TypeOK
<1> QED
  BY <1>1, <1>2, <1>3, <1>4, <1>5, <1>6, <1>7, <1>8, <1>9, <1>10, <1>11, <1>12 DEF Next

-----------------------------------------------------------------------------
(* What becomes of a supervisor: only Start makes one where there is none, *)
(* and one that is gone, or was never started, stays so.                   *)
LEMMA SupervisorSteps ==
  ASSUME IInv, [Next]_vars, NEW k \in Services
  PROVE  \/ sup'[k] = sup[k]
         \/ sup[k] \in {"next", "running"}
         \/ k[1] = run /\ Start(k[2])
         \/ KillRouter /\ sup[k] # "none" /\ sup'[k] = "gone"
<1> USE DEF IInv, TypeOK
<1>1. CASE KillRouter
  BY <1>1 DEF KillRouter
<1>2. CASE SetUp \/ KillWebServer \/ WaitOver \/ Poll \/ UNCHANGED vars
  BY <1>2 DEF SetUp, KillWebServer, WaitOver, Poll, supVars, vars
<1>3. ASSUME NEW s \in Servers, Start(s)
      PROVE  sup'[k] = sup[k] \/ (k[1] = run /\ Start(k[2]))
  <2>1. CASE k = <<run, s>>
    BY <1>3, <2>1
  <2>2. CASE k # <<run, s>>
    BY <1>3, <2>2 DEF Start
  <2> QED
    BY <2>1, <2>2
<1>4. ASSUME NEW m \in Services, RunServer(m) \/ ServerExited(m)
      PROVE  sup'[k] = sup[k] \/ sup[k] \in {"next", "running"}
  BY <1>4 DEF RunServer, ServerExited
<1>5. ASSUME NEW m \in Services, Load(m) \/ Bind(m) \/ Fail(m)
      PROVE  sup'[k] = sup[k]
  BY <1>5 DEF Load, Bind, Fail, supVars
<1> QED
  BY <1>1, <1>2, <1>3, <1>4, <1>5 DEF Next

(* A service that was started is never one that was not.                   *)
LEMMA StartedStays ==
  ASSUME IInv, [Next]_vars, NEW k \in Services, sup[k] # "none"
  PROVE  sup'[k] # "none"
<1>1. sup \in [Services -> Sups]
  BY TypeParts DEF IInv
<1>2. CASE KillRouter
  BY <1>1, <1>2 DEF KillRouter
<1>3. CASE sup' = sup
  BY <1>3
<1>4. CASE \E m \in Services : \E v \in Sups \ {"none"} : sup' = [sup EXCEPT ![m] = v]
  BY <1>1, <1>4
<1>5. ASSUME NEW s \in Servers, Start(s) PROVE sup'[k] # "none"
  BY <1>1, <1>5 DEF Start
<1>6. \A m \in Services : RunServer(m) \/ ServerExited(m) =>
          \E v \in Sups \ {"none"} : sup' = [sup EXCEPT ![m] = v]
  BY DEF RunServer, ServerExited, Sups
<1> QED
  BY <1>2, <1>3, <1>4, <1>5, <1>6 DEF Next, SetUp, KillWebServer, WaitOver, Poll,
     Load, Bind, Fail, supVars, vars

(* Where the script is, and which run it is, in a step.                    *)
LEMMA ScriptSteps ==
  ASSUME IInv, [Next]_vars
  PROVE  \/ SetUp /\ script = "idle" /\ script' = "kill router" /\ run' = run + 1 /\ run' \in Runs
         \/ KillRouter /\ script = "kill router" /\ script' = "kill web-server" /\ run' = run
         \/ KillWebServer /\ script = "kill web-server" /\ script' = "start router" /\ run' = run
         \/ Start("router") /\ script = "start router" /\ script' = "start web-server" /\ run' = run
         \/ /\ Start("web-server") /\ script = "start web-server" /\ run' = run
            /\ script' \in {"wait", "idle"} /\ (Wait => script' = "wait")
         \/ WaitOver /\ script = "wait" /\ script' = "idle" /\ run' = run
         \/ script' = script /\ run' = run
<1>1. CASE SetUp \/ KillRouter \/ KillWebServer \/ WaitOver \/ Poll \/ UNCHANGED vars
  BY <1>1 DEF SetUp, KillRouter, KillWebServer, WaitOver, Poll, Goto, scriptVars, vars
<1>2. ASSUME NEW s \in Servers, Start(s)
      PROVE  \/ Start("router") /\ script = "start router" /\ script' = "start web-server" /\ run' = run
             \/ /\ Start("web-server") /\ script = "start web-server" /\ run' = run
                /\ script' \in {"wait", "idle"} /\ (Wait => script' = "wait")
  BY <1>2 DEF Start, Goto, Servers
<1>3. ASSUME NEW k \in Services,
             RunServer(k) \/ ServerExited(k) \/ Load(k) \/ Bind(k) \/ Fail(k)
      PROVE  script' = script /\ run' = run
  BY <1>3 DEF RunServer, ServerExited, Load, Bind, Fail, scriptVars
<1> QED
  BY <1>1, <1>2, <1>3 DEF Next

-----------------------------------------------------------------------------
(* What is to be started is not started before, and a run is one of Runs.  *)
LEMMA UnstartedKept == IInv /\ [Next]_vars => Unstarted'
<1> SUFFICES ASSUME IInv, [Next]_vars PROVE Unstarted'
  OBVIOUS
<1>1. TypeOK /\ Unstarted
  BY DEF IInv
<1>2. run \in Nat /\ run' \in Nat
  <2>1. run \in Runs \cup {0} /\ run' \in Runs \cup {0}
    BY TypesKept DEF TypeOK, IInv
  <2> QED
    BY <2>1, RunsAreNumbers
<1>3. run' = run \/ run' = run + 1
  BY ScriptSteps
<1>4. ASSUME NEW k \in Services, k[1] > run' PROVE sup'[k] = "none"
  <2>1. k[1] \in Nat
    BY ServicePair, RunsAreNumbers
  <2>2. k[1] > run /\ k[1] # run
    BY <1>2, <1>3, <1>4, <2>1
  <2>3. sup[k] = "none"
    BY <1>1, <2>2 DEF Unstarted
  <2> QED
    BY <2>2, <2>3, SupervisorSteps
<1>5. script' # "idle" => run' \in Runs
  BY <1>1, ScriptSteps DEF Unstarted
(* What is to be started had no supervisor before the step... *)
<1>6. ASSUME NEW s \in Servers, run' \in Runs,
             script' \in {"kill router", "kill web-server", "start router", "start web-server"},
             s = "router" => script' # "start web-server"
      PROVE  sup'[<<run', s>>] = "none"
  <2> DEFINE k == <<run', s>>
  <2>1. k \in Services /\ k[1] = run' /\ k[2] = s
    BY <1>6 DEF Services
  <2>2. CASE SetUp /\ run' = run + 1
    <3>1. k[1] > run
      BY <1>2, <2>1, <2>2
    <3>2. sup[k] = "none"
      BY <1>1, <2>1, <3>1 DEF Unstarted
    <3> QED
      BY <2>2, <3>2 DEF SetUp, supVars
  <2>3. CASE run' = run
    <3>1. /\ script \in {"kill router", "kill web-server", "start router", "start web-server"}
          /\ s = "router" => script # "start web-server"
      <4>1. run' # run + 1
        BY <1>2, <2>3
      <4>2. script \in {"kill router", "kill web-server", "start router"} \/ script' = script
        BY <1>6, <4>1, ScriptSteps
      <4> QED
        BY <1>6, <4>2
    <3>2. sup[k] = "none"
      BY <1>1, <2>3, <3>1 DEF Unstarted, Servers
    (* ...and it is not what the step starts. *)
    <3>3. ~ Start(s)
      BY <1>6, <3>1 DEF Start, Goto, Servers
    <3> QED
      BY <2>1, <3>2, <3>3, SupervisorSteps
  <2> QED
    BY <2>2, <2>3, <1>2, ScriptSteps
<1> QED
  BY <1>4, <1>5, <1>6 DEF Unstarted, Servers

(* KillRouter leaves no router's supervisor, and none of an earlier run    *)
(* comes back.                                                             *)
LEMMA ReplacedKept == IInv /\ [Next]_vars => Replaced'
<1> SUFFICES ASSUME IInv, [Next]_vars PROVE Replaced'
  OBVIOUS
<1>1. TypeOK /\ Replaced
  BY DEF IInv
<1>2. run \in Nat
  <2>1. run \in Runs \cup {0}
    BY <1>1, TypeParts
  <2> QED
    BY <2>1, RunsAreNumbers
<1>3. ASSUME script' # "kill router", NEW r \in Runs, r < run'
      PROVE  sup'[<<r, "router">>] \in {"none", "gone"}
  <2> DEFINE k == <<r, "router">>
  <2>1. k \in Services /\ k[1] = r
    BY DEF Services, Servers
  <2>2. run' = run
    BY <1>3, ScriptSteps
  <2>3. r < run /\ r \in Nat
    BY <1>3, <2>2, RunsAreNumbers
  <2>4. r # run
    BY <1>2, <2>3
  <2>5. CASE KillRouter
    BY <1>1, <2>1, <2>5, TypeParts DEF KillRouter, Sups
  <2>6. CASE ~ KillRouter
    <3>1. script # "kill router"
      BY <1>3, <2>6, ScriptSteps
    <3>2. sup[k] \in {"none", "gone"}
      BY <1>1, <2>3, <3>1 DEF Replaced
    <3> QED
      BY <2>1, <2>4, <2>6, <3>2, SupervisorSteps
  <2> QED
    BY <2>5, <2>6
<1> QED
  BY <1>3 DEF Replaced

(* Types, and the routers of earlier runs.                                 *)
LEMMA InitIInv == Init => IInv
<1> SUFFICES ASSUME Init PROVE IInv
  OBVIOUS
<1>1. TypeOK
  <2>1. 1 \in 1 .. MaxRetry + 1
    BY ServingAssumption
  <2> QED
    BY <2>1 DEF Init, TypeOK
<1>2. Unstarted
  BY DEF Init, Unstarted
<1>3. Replaced
  BY RunsAreNumbers DEF Init, Replaced
<1> QED
  BY <1>1, <1>2, <1>3 DEF IInv

(* IInv is inductive, and RouterReplaced follows from it.                  *)
LEMMA IInvKept == IInv /\ [Next]_vars => IInv'
  BY TypesKept, UnstartedKept, ReplacedKept DEF IInv

(* A run that has its router has done KillRouter.                          *)
LEMMA IInvReplaces == IInv => RouterReplaced
  BY ServicePair DEF IInv, Unstarted, Replaced, RouterReplaced

-----------------------------------------------------------------------------
(* No restart is ever taken back.                                          *)
LEMMA RestartsStay == IInv /\ [Next]_vars /\ NoRestart' => NoRestart
<1> SUFFICES ASSUME IInv, [Next]_vars, NoRestart', NEW m \in Services PROVE iter[m] = 1
  BY DEF NoRestart
<1>1. iter \in [Services -> 1 .. MaxRetry + 1] /\ iter[m] \in Nat /\ iter[m] >= 1
  BY TypeParts, ServingAssumption DEF IInv
<1>2. iter' = iter \/ \E k \in Services : iter' = [iter EXCEPT ![k] = @ + 1]
  BY DEF Next, SetUp, KillRouter, KillWebServer, WaitOver, Poll, Start, RunServer,
         ServerExited, Load, Bind, Fail, supVars, vars
<1>3. iter'[m] = 1
  BY DEF NoRestart
<1> QED
  BY <1>1, <1>2, <1>3

(* A step that restarts nothing, and writes no line: who is quiet stays    *)
(* so, unless the script starts him or he starts his server.               *)
LEMMA QuietKept ==
  ASSUME IInv, [Next]_vars, NoRestart', NEW m \in Services, Quiet(m)
  PROVE  Quiet(m)' \/ (m[1] = run /\ Start(m[2]) /\ sup[m] = "none")
<1> USE DEF Quiet
<1>1. TypeOK
  BY DEF IInv
<1>2. CASE SetUp \/ WaitOver \/ Poll \/ UNCHANGED vars
  BY <1>2 DEF SetUp, WaitOver, Poll, supVars, procVars, vars
<1>3. CASE KillRouter
  BY <1>1, <1>3, TypeParts DEF KillRouter
<1>4. CASE KillWebServer
  BY <1>1, <1>4, TypeParts DEF KillWebServer, supVars
<1>5. ASSUME NEW s \in Servers, Start(s)
      PROVE  Quiet(m)' \/ (m[1] = run /\ Start(m[2]) /\ sup[m] = "none")
  <2>1. CASE m = <<run, s>>
    BY <1>5, <2>1 DEF Start, Goto, IInv, Unstarted, Servers
  <2>2. CASE m # <<run, s>>
    BY <1>5, <2>2, <1>1, TypeParts DEF Start, procVars
  <2> QED
    BY <2>1, <2>2
<1>6. ASSUME NEW k \in Services, RunServer(k) PROVE Quiet(m)'
  <2>1. k # m
    BY <1>6 DEF RunServer
  <2> QED
    BY <1>1, <1>6, <2>1, TypeParts DEF RunServer
<1>7. ASSUME NEW k \in Services, ServerExited(k) PROVE Quiet(m)'
  <2>1. sup' = [sup EXCEPT ![k] = "gone"]
    <3>1. iter[k] \in 1 .. MaxRetry + 1 /\ iter'[k] = 1
      BY <1>1, TypeParts DEF NoRestart
    <3>2. iter' # [iter EXCEPT ![k] = @ + 1]
      BY <1>1, <3>1, TypeParts, ServingAssumption
    <3> QED
      BY <1>7, <3>2 DEF ServerExited
  <2>2. proc' = [proc EXCEPT ![k] = "none"]
    BY <1>7 DEF ServerExited
  <2> QED
    BY <1>1, <2>1, <2>2, TypeParts
<1>8. ASSUME NEW k \in Services, Load(k) \/ Bind(k) \/ Fail(k) PROVE Quiet(m)'
  <2>1. sup' = sup
    BY <1>8 DEF Load, Bind, Fail, supVars
  <2>2. \E v \in {"loaded", "serving", "failed"} : proc' = [proc EXCEPT ![k] = v]
    BY <1>8 DEF Load, Bind, Fail
  <2> QED
    BY <1>1, <2>1, <2>2, TypeParts
<1> QED
  BY <1>2, <1>3, <1>4, <1>5, <1>6, <1>7, <1>8 DEF Next

(* What becomes of the lines.                                              *)
LEMMA LineSteps ==
  ASSUME IInv, [Next]_vars
  PROVE  \/ lines' = lines /\ ~ SetUp
         \/ SetUp /\ lines' = [s \in Servers |-> 0] /\ waited' = FALSE /\ polled' = FALSE
         \/ \E k \in Services : Load(k) /\ lines' = [lines EXCEPT ![k[2]] = @ + 1]
                                /\ UNCHANGED <<run, script, waited, polled>>
<1>1. CASE SetUp
  BY <1>1 DEF SetUp
<1>2. ASSUME NEW k \in Services, Load(k)
      PROVE  lines' = [lines EXCEPT ![k[2]] = @ + 1] /\ UNCHANGED <<run, script, waited, polled>>
  BY <1>2 DEF Load, AppendedBy, scriptVars
<1>3. CASE lines' = lines
  BY <1>1, <1>3
<1>4. SetUp \/ lines' = lines \/ \E k \in Services : Load(k)
  BY DEF Next, KillRouter, KillWebServer, WaitOver, Poll, Start,
     RunServer, ServerExited, Bind, Fail, vars
<1> QED
  BY <1>1, <1>2, <1>3, <1>4

(* What was started before this run, or by this run when the script is     *)
(* done, stays quiet: the script is not done before both servers are.      *)
LEMMA EarlierQuiet ==
  ASSUME Wait = TRUE, IInv, OneLineEach, [Next]_vars, NoRestart',
         NEW k \in Services, (k[1] < run \/ (k[1] = run /\ script = "idle"))'
  PROVE  Quiet(k)'
<1>1. NoRestart
  BY RestartsStay
<1>2. run \in Nat /\ k[1] \in Nat
  <2>1. run \in Runs \cup {0}
    BY TypeParts DEF IInv
  <2> QED
    BY <2>1, RunsAreNumbers, ServicePair
<1>3. k[1] < run' \/ (k[1] = run' /\ script' = "idle")
  OBVIOUS
<1>4. (k[1] < run \/ (k[1] = run /\ script = "idle") \/ (k[1] = run /\ WaitOver))
      /\ (k[1] = run => ~ Start(k[2]))
  <2>1. CASE SetUp /\ run' = run + 1 /\ script = "idle" /\ script' = "kill router"
    <3>1. k[1] < run \/ k[1] = run
      <4>1. k[1] < run + 1
        <5>1. k[1] < run'
          BY <1>3, <2>1
        <5> QED
          BY <2>1, <5>1
      <4> QED
        BY <1>2, <4>1
    <3> QED
      BY <2>1, <3>1 DEF Start, Goto
  <2>2. CASE run' = run
    <3>1. CASE k[1] < run
      BY <1>2, <3>1
    <3>2. CASE k[1] = run
      <4>1. script' = "idle"
        BY <1>2, <1>3, <2>2, <3>2
      <4>2. script = "idle" \/ WaitOver
        BY <4>1, <1>2, <2>2, ScriptSteps
      <4> QED
        BY <3>2, <4>1, <4>2 DEF Start, Goto, WaitOver
    <3> QED
      BY <1>2, <1>3, <2>2, <3>1, <3>2
  <2> QED
    BY <1>2, <2>1, <2>2, ScriptSteps
<1>5. Quiet(k)
  <2>1. CASE k[1] = run /\ WaitOver
    <3>1. lines["router"] \in {0, 1} /\ lines["web-server"] \in {0, 1} /\ LineCount = 2
      BY <1>1, <2>1 DEF OneLineEach, Servers, WaitOver
    <3>2. lines["router"] = 1 /\ lines["web-server"] = 1
      BY <3>1 DEF LineCount
    <3>3. lines[k[2]] = 1 /\ k = <<run, k[2]>> /\ k[2] \in Servers
      BY <2>1, <3>2, ServicePair DEF Servers
    <3> QED
      BY <1>1, <3>3 DEF OneLineEach
  <2>2. CASE k[1] < run \/ (k[1] = run /\ script = "idle")
    BY <1>1, <2>2 DEF OneLineEach
  <2> QED
    BY <1>4, <2>1, <2>2
<1> QED
  BY <1>4, <1>5, QuietKept

(* A server of this run writes its line once.                              *)
LEMMA OneLineKept ==
  ASSUME IInv, IInv', OneLineEach, [Next]_vars, NoRestart', NEW s \in Servers
  PROVE  /\ lines'[s] \in {0, 1}
         /\ lines'[s] = 1 => /\ <<run', s>> \in Services
                             /\ sup'[<<run', s>>] # "none" /\ Quiet(<<run, s>>)'
<1> DEFINE k == <<run, s>>
<1>1. NoRestart
  BY RestartsStay
<1>2. /\ lines[s] \in {0, 1}
      /\ lines[s] = 1 => k \in Services /\ sup[k] # "none" /\ Quiet(k)
  BY <1>1 DEF OneLineEach
<1>3. CASE SetUp /\ lines' = [x \in Servers |-> 0]
  BY <1>3
<1>4. ASSUME lines'[s] = lines[s], lines[s] = 1, run' = run
      PROVE  k \in Services /\ sup'[k] # "none" /\ Quiet(k)'
  <2>1. k \in Services /\ sup[k] # "none" /\ Quiet(k)
    BY <1>2, <1>4
  <2>2. Quiet(k)'
    BY <2>1, <1>4, QuietKept
  <2>3. sup'[k] # "none"
    <3>1. \/ sup'[k] = sup[k] \/ sup[k] \in {"next", "running"}
          \/ Start(s) \/ sup'[k] = "gone"
      BY <2>1, SupervisorSteps
    <3>2. CASE Start(s)
      BY <2>1, <3>2, TypeParts DEF Start, IInv
    <3>3. CASE sup[k] \in {"next", "running"}
      BY <2>1, <3>3, StartedStays
    <3> QED
      BY <2>1, <3>1, <3>2, <3>3
  <2> QED
    BY <2>1, <2>2, <2>3
<1>5. CASE lines' = lines /\ ~ SetUp
  <2>1. run' = run
    BY <1>5, ScriptSteps
  <2> QED
    BY <1>2, <1>4, <1>5, <2>1
<1>6. ASSUME NEW m \in Services, Load(m), lines' = [lines EXCEPT ![m[2]] = @ + 1],
             UNCHANGED <<run, script, waited, polled>>
      PROVE  /\ lines'[s] \in {0, 1}
             /\ lines'[s] = 1 => k \in Services /\ sup'[k] # "none" /\ Quiet(k)'
  <2>1. lines \in [Servers -> Nat] /\ m[1] \in Runs /\ m[2] \in Servers /\ m = <<m[1], m[2]>>
    BY TypeParts, ServicePair DEF IInv
  <2>2. CASE m[2] # s
    <3>1. lines'[s] = lines[s]
      BY <1>6, <2>1, <2>2
    <3> QED
      BY <1>2, <1>4, <1>6, <3>1
  <2>3. CASE m[2] = s
    <3>1. ~ Quiet(m) /\ sup[m] = "running"
      BY <1>6, TypeParts DEF Load, Quiet, IInv
    <3>2. m[1] = run
      <4>1. ~ (m[1] < run) /\ ~ (m[1] > run)
        BY <1>1, <3>1 DEF OneLineEach, IInv, Unstarted
      <4>2. run \in Runs \cup {0}
        BY TypeParts DEF IInv
      <4>3. run \in Nat /\ m[1] \in Nat
        BY <2>1, <4>2, RunsAreNumbers
      <4> QED
        BY <4>1, <4>3
    <3>3. m = k
      BY <2>1, <2>3, <3>2
    <3>4. lines[s] = 0
      BY <1>2, <3>1, <3>3
    <3>5. lines'[s] = 1
      BY <1>6, <2>1, <2>3, <3>4
    <3>6. sup'[k] = "running" /\ proc'[k] = "loaded"
      BY <1>6, <3>1, <3>3, TypeParts DEF Load, supVars, IInv
    <3> QED
      BY <1>6, <3>3, <3>5, <3>6 DEF Quiet
  <2> QED
    BY <2>2, <2>3
<1> QED
  BY <1>3, <1>5, <1>6, LineSteps

(* Whoever finds the machine ready finds two lines, one of each server.    *)
LEMMA ReadyKept ==
  ASSUME IInv, OneLineEach, ReadyMeansBoth, [Next]_vars
  PROVE  ReadyMeansBoth'
<1> SUFFICES ASSUME NoRestart', waited' \/ polled', NEW s \in Servers PROVE lines'[s] >= 1
  BY DEF ReadyMeansBoth
<1>1. NoRestart /\ lines \in [Servers -> Nat]
  BY RestartsStay, TypeParts DEF IInv
<1>2. \A x \in Servers : lines[x] \in {0, 1}
  BY <1>1 DEF OneLineEach
<1>3. CASE SetUp
  BY <1>3 DEF SetUp
<1>4. CASE LineCount >= 2 /\ lines' = lines
  BY <1>2, <1>4 DEF LineCount, Servers
<1>5. CASE (waited \/ polled) /\ lines' = lines
  BY <1>1, <1>5 DEF ReadyMeansBoth
<1>6. ASSUME NEW m \in Services, lines' = [lines EXCEPT ![m[2]] = @ + 1], waited \/ polled
      PROVE  lines'[s] >= 1
  <2>1. lines[s] >= 1 /\ lines[s] \in Nat /\ m[2] \in Servers
    BY <1>1, <1>6, ServicePair DEF ReadyMeansBoth
  <2> QED
    BY <1>1, <1>6, <2>1
<1>7. CASE WaitOver \/ Poll
  BY <1>4, <1>7 DEF WaitOver, Poll, EnoughLines, LineCount
<1>8. CASE ~ SetUp /\ ~ WaitOver /\ ~ Poll
  <2>1. UNCHANGED <<waited, polled>>
    BY <1>8 DEF Next, KillRouter, KillWebServer, Start, RunServer, ServerExited,
       Load, Bind, Fail, scriptVars, vars
  <2> QED
    BY <1>5, <1>6, <1>8, <2>1, LineSteps
<1> QED
  BY <1>3, <1>7, <1>8

(* The start and the steps of the invariant about lines.                   *)
LEMMA InitReady == Init => OneLineEach /\ ReadyMeansBoth
  BY RunsAreNumbers, ServicePair DEF Init, OneLineEach, ReadyMeansBoth, Quiet

(* The two parts of OneLineEach together.                                  *)
LEMMA OneLineEachKept ==
  ASSUME Wait = TRUE, IInv, IInv', OneLineEach, [Next]_vars
  PROVE  OneLineEach'
  BY EarlierQuiet, OneLineKept DEF OneLineEach

(* However often the script is run: once it has started a router, no       *)
(* supervisor of an earlier one is left.                                   *)
THEOREM EarlierRoutersGone == Spec => [](TypeOK /\ RouterReplaced)
<1>1. IInv => TypeOK /\ RouterReplaced
  BY IInvReplaces DEF IInv
<1> QED
  BY InitIInv, IInvKept, <1>1, PTL DEF Spec

(* However often a script that is told to WAIT is run, and servers fail:   *)
(* whoever takes the machine for ready, both servers have reported, and    *)
(* no router of an earlier run is left.                                    *)
THEOREM ServersStartCleanly ==
  ASSUME Wait = TRUE
  PROVE  Spec => []StartedCleanly
<1> DEFINE Inv == IInv /\ OneLineEach /\ ReadyMeansBoth
<1>1. Init => Inv
  BY InitIInv, InitReady
<1>2. Inv /\ [Next]_vars => Inv'
  BY IInvKept, OneLineEachKept, ReadyKept
<1>3. Inv => StartedCleanly
  BY IInvReplaces DEF IInv, StartedCleanly
<1> QED
  BY <1>1, <1>2, <1>3, PTL DEF Spec
=============================================================================
