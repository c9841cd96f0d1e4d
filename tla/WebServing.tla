----------------------------- MODULE WebServing -----------------------------
(***************************************************************************)
(* The servers of one machine: web-server-run.sh kills the servers of an   *)
(* earlier run and starts the router and the web server, each under a      *)
(* with-auto-restart.sh; a server appends a line to the status file when   *)
(* it has loaded, then binds its port.  Two readers take two lines for     *)
(* both servers being up: the script itself when it is told to WAIT, and   *)
(* trigger-web-server.py, which polls the file over HTTP.                  *)
(*                                                                         *)
(* A service is a pair of a run of the script and a server.                *)
(***************************************************************************)
EXTENDS Naturals

CONSTANTS MaxRuns,   \* bound: how often the script may be run
          MaxRetry,  \* MAX_RETRY
          Wait,      \* is the script told to WAIT?
          Exits      \* exit codes with which a server may fail, of 1, 101, 137

ASSUME ServingAssumption ==
    /\ MaxRuns \in Nat /\ MaxRetry \in Nat
    /\ Wait \in BOOLEAN
    /\ Exits \subseteq {1, 101, 137}

Runs     == 1 .. MaxRuns
Servers  == {"router", "web-server"}
Services == Runs \X Servers
SIGTERM  == 143

VARIABLES script,    \* where web-server-run.sh (and the set-up before it) is
          run,       \* how often it was started
          sup,       \* each service's with-auto-restart.sh
          iter,      \* its ITER
          proc,      \* each service's server process
          code,      \* the exit code of a failed one
          lines,     \* the "loaded" lines in the status file, per server
          waited,    \* has the script reported that the servers are ready?
          polled,    \* has trigger-web-server.py found the machine ready?
          emails     \* services whose failure was mailed

scriptVars == <<script, run, waited>>
supVars    == <<sup, iter, emails>>
procVars   == <<proc, code>>
vars == <<scriptVars, supVars, procVars, lines, polled>>

Alive(k) == proc[k] \in {"loading", "loaded", "serving"}

Init == /\ script = "idle" /\ run = 0
        /\ sup = [k \in Services |-> "none"]
        /\ iter = [k \in Services |-> 1]
        /\ proc = [k \in Services |-> "none"]
        /\ code = [k \in Services |-> 0]
        /\ lines = [s \in Servers |-> 0]
        /\ waited = FALSE /\ polled = FALSE
        /\ emails = {}

LineCount == lines["router"] + lines["web-server"]

-----------------------------------------------------------------------------
(* The script.                                                             *)

Goto(from, to) == script = from /\ script' = to

(* web-server-setup.sh removes the docroot with the status file; whoever   *)
(* looks at the machine starts afresh.                                     *)
SetUp ==
    /\ Goto("idle", "kill router")
    /\ run + 1 \in Runs /\ run' = run + 1
    /\ lines' = [s \in Servers |-> 0]
    /\ waited' = FALSE /\ polled' = FALSE
    /\ UNCHANGED <<supVars, procVars>>

(* Mutant: pkill -x, which does not match the router's supervisor.         *)
KillProcessesOnly ==
    /\ Goto("kill router", "kill web-server")
    /\ proc' = [k \in Services |-> IF k[2] = "router" /\ Alive(k) THEN "failed" ELSE proc[k]]
    /\ code' = [k \in Services |-> IF k[2] = "router" /\ Alive(k) THEN SIGTERM ELSE code[k]]
    /\ UNCHANGED <<run, supVars, lines, waited, polled>>

(* pkill -f router/router.py: the supervisor's command line matches, too.  *)
KillRouter ==
    /\ Goto("kill router", "kill web-server")
    /\ sup' = [k \in Services |-> IF k[2] = "router" /\ sup[k] # "none" THEN "gone" ELSE sup[k]]
    /\ proc' = [k \in Services |-> IF k[2] = "router" THEN "none" ELSE proc[k]]
    /\ UNCHANGED <<run, iter, code, lines, waited, polled, emails>>

(* pkill -x web-server: only a process of that name gets the signal.       *)
KillWebServer ==
    /\ Goto("kill web-server", "start router")
    /\ proc' = [k \in Services |-> IF k[2] = "web-server" /\ Alive(k) THEN "failed" ELSE proc[k]]
    /\ code' = [k \in Services |-> IF k[2] = "web-server" /\ Alive(k) THEN SIGTERM ELSE code[k]]
    /\ UNCHANGED <<run, supVars, lines, waited, polled>>

Start(s) ==
    /\ IF s = "router" THEN Goto("start router", "start web-server")
                       ELSE Goto("start web-server", IF Wait THEN "wait" ELSE "idle")
    /\ sup' = [sup EXCEPT ![<<run, s>>] = "next"]
    /\ UNCHANGED <<run, iter, procVars, lines, waited, polled, emails>>

(* until [[ $(grep -c loaded ${STATUS_FILE}) -eq 2 ]]                      *)
WaitOver ==
    /\ Goto("wait", "idle")
    /\ LineCount = 2
    /\ waited' = TRUE
    /\ UNCHANGED <<run, supVars, procVars, lines, polled>>

(* trigger-web-server.py: len(status.splitlines()) < 2 means not yet.      *)
EnoughLines(n) == n >= 2
Poll ==
    /\ ~ polled /\ EnoughLines(LineCount)
    /\ polled' = TRUE
    /\ UNCHANGED <<scriptVars, supVars, procVars, lines>>

-----------------------------------------------------------------------------
(* with-auto-restart.sh.                                                   *)

RunServer(k) ==
    /\ sup[k] = "next"
    /\ sup' = [sup EXCEPT ![k] = "running"]
    /\ proc' = [proc EXCEPT ![k] = "loading"]
    /\ UNCHANGED <<scriptVars, iter, emails, code, lines, polled>>

Terminated(k) == code[k] \in {0, SIGTERM}
MayRetry(k)   == iter[k] <= MaxRetry

(* SIGTERM and success (which no server ends with) end the supervisor,     *)
(* too; anything else is retried.                                          *)
ServerExited(k) ==
    /\ sup[k] = "running" /\ proc[k] = "failed"
    /\ proc' = [proc EXCEPT ![k] = "none"]
    /\ \/ /\ Terminated(k)
          /\ sup' = [sup EXCEPT ![k] = "gone"]
          /\ UNCHANGED <<iter, emails>>
       \/ /\ ~ Terminated(k) /\ MayRetry(k)
          /\ sup' = [sup EXCEPT ![k] = "next"]
          /\ iter' = [iter EXCEPT ![k] = @ + 1]
          /\ UNCHANGED emails
       \/ /\ ~ Terminated(k) /\ ~ MayRetry(k)
          /\ sup' = [sup EXCEPT ![k] = "gone"]
          /\ emails' = emails \cup {k}
          /\ UNCHANGED iter
    /\ UNCHANGED <<scriptVars, code, lines, polled>>

-----------------------------------------------------------------------------
(* The servers.                                                            *)

(* Mutant: the status file is opened for writing, not for appending.       *)
Overwritten(s) == [x \in Servers |-> IF x = s THEN 1 ELSE 0]
AppendedBy(s)  == [lines EXCEPT ![s] = @ + 1]

Load(k) ==
    /\ proc[k] = "loading"
    /\ proc' = [proc EXCEPT ![k] = "loaded"]
    /\ lines' = AppendedBy(k[2])
    /\ UNCHANGED <<scriptVars, supVars, code, polled>>

PortTaken(k) == \E r \in Runs : proc[<<r, k[2]>>] = "serving"

Bind(k) ==
    /\ proc[k] = "loaded"
    /\ \/ /\ ~ PortTaken(k)
          /\ proc' = [proc EXCEPT ![k] = "serving"]
          /\ UNCHANGED code
       \/ /\ PortTaken(k)
          /\ proc' = [proc EXCEPT ![k] = "failed"]
          /\ code' = [code EXCEPT ![k] = IF k[2] = "router" THEN 1 ELSE 101]
    /\ UNCHANGED <<scriptVars, supVars, lines, polled>>

(* An exception or a panic, or the OOM killer.                             *)
Fail(k) ==
    /\ Alive(k)
    /\ \E c \in Exits : code' = [code EXCEPT ![k] = c]
    /\ proc' = [proc EXCEPT ![k] = "failed"]
    /\ UNCHANGED <<scriptVars, supVars, lines, polled>>

-----------------------------------------------------------------------------
ScriptStep == KillRouter \/ KillWebServer \/ (\E s \in Servers : Start(s)) \/ WaitOver
ServiceStep(k) == RunServer(k) \/ ServerExited(k) \/ Load(k) \/ Bind(k)

Next == \/ SetUp \/ KillRouter \/ KillWebServer \/ WaitOver \/ Poll
        \/ \E s \in Servers : Start(s)
        \/ \E k \in Services : \/ RunServer(k) \/ ServerExited(k)
                               \/ Load(k) \/ Bind(k) \/ Fail(k)

Spec == Init /\ [][Next]_vars

(* The system runs every process; the two readers look again and again.    *)
(* Nobody owes the script another run, or a server a failure.              *)
FairSpec == /\ Spec
            /\ WF_vars(ScriptStep) /\ WF_vars(Poll)
            /\ \A k \in Services : WF_vars(ServiceStep(k))

-----------------------------------------------------------------------------
TypeOK ==
    /\ script \in {"idle", "kill router", "kill web-server", "start router",
                   "start web-server", "wait"}
    /\ run \in Runs \cup {0}
    /\ sup \in [Services -> {"none", "next", "running", "gone"}]
    /\ iter \in [Services -> 1 .. MaxRetry + 1]
    /\ proc \in [Services -> {"none", "loading", "loaded", "serving", "failed"}]
    /\ code \in [Services -> Exits \cup {0, 1, 101, SIGTERM}]
    /\ lines \in [Servers -> Nat]
    /\ waited \in BOOLEAN /\ polled \in BOOLEAN
    /\ emails \subseteq Services
    /\ \A k \in Services : proc[k] # "none" => sup[k] = "running"

(* Until some supervisor has to start its server again, each server has    *)
(* one line in the status file at most.                                    *)
NoRestart == \A k \in Services : iter[k] = 1

(* "Wait until the web server is ready to serve requests" / "wait until    *)
(* the servers report they loaded": whoever takes the machine for ready,   *)
(* both servers have reported, as long as none had to be restarted.        *)
ReadyMeansBoth ==
    NoRestart /\ (waited \/ polled) => \A s \in Servers : lines[s] >= 1

(* A script that is told to WAIT ends once the servers are up: it does not *)
(* wait for ever on servers that all serve.  (This alone does NOT hold: a  *)
(* restart makes a third line, and LineCount = 2 is never true again.)     *)
AllServe == \A s \in Servers : \E r \in Runs : proc[<<r, s>>] = "serving"
WaitEnds == <>[]AllServe => []<>(script # "wait")

(* ...if none of them had to be restarted.                                 *)
WaitEndsWithoutRestarts == []NoRestart => WaitEnds

(* "used by web-server-run.sh before starting a new one": when the script  *)
(* has started a router, no supervisor of an earlier run is left that      *)
(* could start another one.                                                *)
RouterReplaced ==
    \A r \in Runs : r < run /\ sup[<<run, "router">>] # "none" =>
        sup[<<r, "router">>] \in {"none", "gone"}

(* No server stays down in silence: a supervisor that has a server to run  *)
(* gets it to serve, mails its failure, or is replaced by a later run.     *)
UpOrReported ==
    \A k \in Services : sup[k] \in {"next", "running"} ~>
        \/ proc[k] = "serving" \/ k \in emails
        \/ k[1] < run

(* The start of the servers: nobody takes them for ready too early, and    *)
(* nothing of an earlier run is left to compete with them.                 *)
StartedCleanly == TypeOK /\ ReadyMeansBoth /\ RouterReplaced

(* The supervision of the servers: the script and the servers get on.      *)
ServersComeUp == WaitEndsWithoutRestarts /\ UpOrReported
=============================================================================
