------------------------------- MODULE Deploy -------------------------------
(***************************************************************************)
(* A channel's deployments.  Each trigger_indexer.py terminates the        *)
(* channel's earlier indexer machines and launches one of its own, whose   *)
(* index.sh builds an index on a volume, detaches it, and runs             *)
(* trigger-web-server.py: it starts a web server machine, gives it the     *)
(* volume, waits until it serves, puts it into the load balancer's target  *)
(* group in place of the others, and terminates those.  An operator may    *)
(* run that script by hand, with a volume that is already there.           *)
(*                                                                         *)
(* A deployer is an indexer machine or an operator's shell; the volume an  *)
(* indexer creates and the web server machine a deployer starts have its   *)
(* name.  EC2 and the load balancer are external: calls on a machine or a  *)
(* volume in the wrong state raise, which ends the script that makes them. *)
(* So does any other error: main.sh mails and shuts its machine down.      *)
(***************************************************************************)
EXTENDS Naturals, FiniteSets, Functions

CONSTANTS Schedule,   \* the indexers, in the order in which they are triggered
          Operators,  \* hand-started scripts
          Together,   \* bound: the sets of scripts that may deploy at one time
          Release1    \* is this the channel that keeps a replaced machine?

Indexers  == Range(Schedule)
Deployers == Indexers \cup Operators

(* Where a volume is when no machine has it.                               *)
Nowhere == {"none", "indexer", "available", "deleted"}

ASSUME DeployAssumption ==
    /\ IsInjective(Schedule)
    /\ Indexers \cap Operators = {} /\ Deployers # {}
    /\ Deployers \cap Nowhere = {}
    /\ Together \subseteq SUBSET Deployers
    /\ Release1 \in BOOLEAN

VARIABLES
    pc,        \* where each deployer's script is, or was when its machine stopped
    host,      \* the indexer machines (the shell, for an operator)
    uses,      \* the volume each script deploys
    vol,       \* what each volume is attached to, "available" if nothing
    web,       \* the web server machines
    tagged,    \* those that carry the channel's tags
    marked,    \* those whose volume is deleted with them
    ready,     \* those whose status.txt has two lines
    targets,   \* the target group
    old,       \* describe_target_health's answer, per script
    kill,      \* the machines each script terminates
    latest,    \* history: the latest script to start deploying
    orderly    \* history: has no script deployed beside another, nor taken a
               \* target's volume?

hostVars   == <<host, uses>>
webVars    == <<web, marked, ready>>
answers    == <<old, kill>>
history    == <<latest, orderly>>
vars == <<pc, hostVars, vol, webVars, tagged, targets, answers, history>>

Live == {"pending", "running", "shutting-down"}

(* A machine that shuts down runs its script until it is gone.             *)
Alive(d) == host[d] \in {"running", "shutting-down"}

Deploying == {"look", "tag", "attach", "mark", "poll", "health",
              "register", "deregister", "describe", "terminate", "gone"}

Serves(m) == web[m] = "running" /\ m \in ready /\ vol[uses[m]] = m
Served    == \E m \in targets : Serves(m)

Init == /\ pc = [d \in Deployers |-> "new"]
        /\ host = [d \in Deployers |-> "none"]
        /\ uses = [d \in Deployers |-> d]
        /\ vol = [d \in Deployers |-> "none"]
        /\ web = [d \in Deployers |-> "none"]
        /\ tagged = {} /\ marked = {} /\ ready = {}
        /\ targets = {}
        /\ old = [d \in Deployers |-> {}]
        /\ kill = [d \in Deployers |-> {}]
        /\ latest = CHOOSE d \in Deployers : TRUE
        /\ orderly = TRUE

-----------------------------------------------------------------------------
(* TriggerCommandBase.trigger: machines that run, stop or are stopped are  *)
(* terminated; one that is pending is not found.                           *)

VolumesWithout(stopped) ==
    [v \in Deployers |-> IF vol[v] = "indexer" /\ v \in stopped THEN "deleted" ELSE vol[v]]

TerminateOldIndexers(i) ==
    LET n == CHOOSE k \in DOMAIN Schedule : Schedule[k] = i
        stopped == {j \in Indexers : host[j] = "stopped"}
    IN  /\ pc[i] = "new"
        /\ \A k \in 1 .. n - 1 : pc[Schedule[k]] # "new"
        /\ pc' = [pc EXCEPT ![i] = "launch"]
        /\ host' = [d \in Deployers |->
                       CASE d \in stopped                               -> "terminated"
                         [] d \in Indexers /\ host[d] = "running"       -> "shutting-down"
                         [] OTHER                                       -> host[d]]
        /\ vol' = VolumesWithout(stopped)
        /\ UNCHANGED <<uses, webVars, tagged, targets, answers, history>>

Launch(i) ==
    /\ pc[i] = "launch"
    /\ pc' = [pc EXCEPT ![i] = "index"]
    /\ host' = [host EXCEPT ![i] = "pending"]
    /\ UNCHANGED <<uses, vol, webVars, tagged, targets, answers, history>>

-----------------------------------------------------------------------------
(* index.sh up to the deployment.                                          *)

Step(d, from, to) == Alive(d) /\ pc[d] = from /\ pc' = [pc EXCEPT ![d] = to]

(* attach-index-volume.py (the volume goes with the indexer), and indexing.*)
Index(i) ==
    /\ Step(i, "index", "detach")
    /\ vol' = [vol EXCEPT ![i] = "indexer"]
    /\ UNCHANGED <<hostVars, webVars, tagged, targets, answers, history>>

Begin(d, apart) ==
    LET beside == {e \in Deployers : Alive(e) /\ pc[e] \in Deploying}
    IN  /\ beside \cup {d} \in Together
        /\ latest' = d
        /\ orderly' = (orderly /\ apart /\ beside = {})

DetachVolume(i) ==
    /\ Step(i, "detach", "look")
    /\ vol' = [vol EXCEPT ![i] = "available"]
    /\ Begin(i, TRUE)
    /\ UNCHANGED <<hostVars, webVars, tagged, targets, answers>>

(* An operator deploys a volume left behind, or that of another machine.   *)
StartByHand(o, v) ==
    /\ pc[o] = "new"
    /\ vol[v] \in Deployers \cup {"available"}
    /\ pc' = [pc EXCEPT ![o] = "look"]
    /\ host' = [host EXCEPT ![o] = "running"]
    /\ uses' = [uses EXCEPT ![o] = v]
    /\ Begin(o, vol[v] \notin targets)
    /\ UNCHANGED <<vol, webVars, tagged, targets, answers>>

-----------------------------------------------------------------------------
(* trigger-web-server.py.                                                  *)

Detach(d) ==
    /\ Step(d, "look", "look")
    /\ vol[uses[d]] \in Deployers
    /\ vol' = [vol EXCEPT ![uses[d]] = "available"]
    /\ UNCHANGED <<hostVars, webVars, tagged, targets, answers, history>>

(* The machine is awaited before the script goes on.                       *)
RunInstance(d) ==
    /\ Step(d, "look", "tag")
    /\ vol[uses[d]] = "available"
    /\ web' = [web EXCEPT ![d] = "running"]
    /\ UNCHANGED <<hostVars, vol, marked, ready, tagged, targets, answers, history>>

Tag(d) ==
    /\ Step(d, "tag", "attach")
    /\ web[d] = "running"
    /\ tagged' = tagged \cup {d}
    /\ UNCHANGED <<hostVars, vol, webVars, targets, answers, history>>

AttachVolume(d) ==
    /\ Step(d, "attach", "mark")
    /\ web[d] = "running" /\ vol[uses[d]] = "available"
    /\ vol' = [vol EXCEPT ![uses[d]] = d]
    /\ UNCHANGED <<hostVars, webVars, tagged, targets, answers, history>>

NothingMarked(d) == marked      \* Mutant: without modify_attribute
MarkedWith(d)    == marked \cup {d}
DeleteOnTermination(d) ==
    /\ Step(d, "mark", "poll")
    /\ web[d] = "running" /\ vol[uses[d]] = d
    /\ marked' = MarkedWith(d)
    /\ UNCHANGED <<hostVars, vol, web, ready, tagged, targets, answers, history>>

(* Polls status.txt, then runs web-server-check.sh.                        *)
Poll(d) ==
    /\ Step(d, "poll", "health")
    /\ Serves(d)
    /\ UNCHANGED <<hostVars, vol, webVars, tagged, targets, answers, history>>

DescribeTargetHealth(d) ==
    /\ Step(d, "health", "register")
    /\ old' = [old EXCEPT ![d] = targets]
    /\ UNCHANGED <<hostVars, vol, webVars, tagged, targets, kill, history>>

(* The load balancer takes running machines only.                          *)
RegisterTargets(d) ==
    /\ Step(d, "register", "deregister")
    /\ web[d] = "running"
    /\ targets' = targets \cup {d}
    /\ UNCHANGED <<hostVars, vol, webVars, tagged, answers, history>>

DeregisterTargets(d) ==
    /\ Step(d, "deregister", "describe")
    /\ targets' = targets \ old[d]
    /\ old' = [old EXCEPT ![d] = {}]
    /\ UNCHANGED <<hostVars, vol, webVars, tagged, kill, history>>

(* Mutants: the script's own machine is not left out; machines that their  *)
(* scripts did not get into the target group are.                          *)
AllTagged(d)   == tagged
ReadyTagged(d) == (tagged \cap ready) \ {d}

OtherTagged(d) == tagged \ {d}

(* describe_instances names terminated machines for a while.  On release1  *)
(* one machine that is younger than a day and a half is kept, live or not; *)
(* here any may be.                                                        *)
DescribeInstances(d) ==
    \E gone \in SUBSET {m \in OtherTagged(d) : web[m] = "terminated"} :
      LET found == gone \cup {m \in OtherTagged(d) : web[m] \in Live}
      IN  \E kept \in {{}} \cup (IF Release1 THEN {{m} : m \in found} ELSE {}) :
            /\ Step(d, "describe", "terminate")
            /\ kill' = [kill EXCEPT ![d] = found \ kept]
            /\ UNCHANGED <<hostVars, vol, webVars, tagged, targets, old, history>>

TerminateInstances(d) ==
    /\ Step(d, "terminate", "gone")
    /\ web' = [m \in Deployers |-> IF m \in kill[d] /\ web[m] \in Live
                                   THEN "shutting-down" ELSE web[m]]
    /\ UNCHANGED <<hostVars, vol, marked, ready, tagged, targets, answers, history>>

(* await_instance for each; index.sh ends with terminate-indexer.py.       *)
Finish(d) ==
    /\ Step(d, "gone", "done")
    /\ \A m \in kill[d] : web[m] = "terminated"
    /\ host' = [host EXCEPT ![d] = IF d \in Indexers THEN "shutting-down" ELSE "terminated"]
    /\ kill' = [kill EXCEPT ![d] = {}]
    /\ UNCHANGED <<uses, vol, webVars, tagged, targets, old, history>>

Deployment(d) ==
    \/ Detach(d) \/ RunInstance(d) \/ Tag(d) \/ AttachVolume(d)
    \/ DeleteOnTermination(d) \/ Poll(d) \/ DescribeTargetHealth(d)
    \/ RegisterTargets(d) \/ DeregisterTargets(d) \/ DescribeInstances(d)
    \/ TerminateInstances(d) \/ Finish(d)

-----------------------------------------------------------------------------
(* The machines.                                                           *)

BootIndexer(i) ==
    /\ host[i] = "pending"
    /\ host' = [host EXCEPT ![i] = "running"]
    /\ UNCHANGED <<pc, uses, vol, webVars, tagged, targets, answers, history>>

Forget(d) == /\ old'  = [old  EXCEPT ![d] = {}]
             /\ kill' = [kill EXCEPT ![d] = {}]

(* Even while it polls: there, the poll catches every exception, but the   *)
(* crontab entry comes in time.                                            *)
MayStop(d) == TRUE

(* A call fails, or main.sh's crontab entry finds that the time is up: the *)
(* machine shuts itself down.  An operator gives up.                       *)
Stop(d) ==
    /\ host[d] = "running" /\ MayStop(d)
    /\ host' = [host EXCEPT ![d] = "stopped"]
    /\ Forget(d)
    /\ UNCHANGED <<pc, uses, vol, webVars, tagged, targets, history>>

IndexerGone(i) ==
    /\ i \in Indexers /\ host[i] = "shutting-down"
    /\ host' = [host EXCEPT ![i] = "terminated"]
    /\ vol' = VolumesWithout({i})
    /\ Forget(i)
    /\ UNCHANGED <<pc, uses, webVars, tagged, targets, history>>

(* web-serve.sh mounts the volume and starts the servers (WebServing).     *)
Serve(m) ==
    /\ web[m] = "running" /\ vol[uses[m]] = m /\ m \notin ready
    /\ ready' = ready \cup {m}
    /\ UNCHANGED <<pc, hostVars, vol, web, marked, tagged, targets, answers, history>>

WebServerGone(m) ==
    /\ web[m] = "shutting-down"
    /\ web' = [web EXCEPT ![m] = "terminated"]
    /\ ready' = ready \ {m} /\ marked' = marked \ {m}
    /\ vol' = [v \in Deployers |-> IF vol[v] # m THEN vol[v]
                                   ELSE IF m \in marked THEN "deleted" ELSE "available"]
    /\ UNCHANGED <<pc, hostVars, tagged, targets, answers, history>>

Next == \/ \E i \in Indexers : \/ TerminateOldIndexers(i) \/ Launch(i)
                               \/ Index(i) \/ DetachVolume(i)
                               \/ BootIndexer(i) \/ IndexerGone(i)
        \/ \E o \in Operators, v \in Deployers : StartByHand(o, v)
        \/ \E d \in Deployers : Deployment(d) \/ Stop(d)
        \/ \E m \in Deployers : Serve(m) \/ WebServerGone(m)

Spec == Init /\ [][Next]_vars

(* EC2 boots and ends machines, and the crontab entry's time comes; no     *)
(* script needs to get anywhere.                                           *)
FairSpec ==
    /\ Spec
    /\ \A i \in Indexers : /\ WF_vars(BootIndexer(i))
                           /\ WF_vars(Stop(i))
                           /\ WF_vars(IndexerGone(i))

-----------------------------------------------------------------------------
(* The variables have their types: only machines that were tagged have a   *)
(* marked volume, serve or are targets.                                    *)
TypeOK ==
    /\ orderly \in BOOLEAN /\ latest \in Deployers
    /\ pc \in [Deployers -> Deploying \cup {"new", "launch", "index", "detach", "done"}]
    /\ host \in [Deployers -> Live \cup {"none", "stopped", "terminated"}]
    /\ uses \in [Deployers -> Deployers]
    /\ vol \in [Deployers -> Deployers \cup Nowhere]
    /\ web \in [Deployers -> Live \cup {"none", "terminated"}]
    /\ tagged \subseteq {m \in Deployers : web[m] # "none"}
    /\ marked \subseteq tagged /\ ready \subseteq tagged /\ targets \subseteq tagged
    /\ old \in [Deployers -> SUBSET Deployers] /\ kill \in [Deployers -> SUBSET Deployers]

(* A deployment never takes the channel down: once the target group has a  *)
(* machine that serves, it has one after every step, whatever scripts died *)
(* where, provided that they do not deploy beside each other and nobody    *)
(* takes the volume of a target (trigger-web-server.py:218, :223, :234).   *)
ServiceKept == [][Served /\ orderly' => Served']_vars

(* Once the latest deployment is over, its machine is the only target, and *)
(* whatever earlier ones left behind when they died is gone: all that live *)
(* besides it are machines that were never tagged, and one spare of        *)
(* release1 (trigger-web-server.py:234-276).                               *)
ReplacedCleanly ==
    orderly /\ pc[latest] = "done" =>
        /\ targets = {latest}
        /\ LET rest == {m \in Deployers \ {latest} : web[m] \in Live}
           IN  /\ \A m \in rest \ tagged : pc[m] = "tag"
               /\ Cardinality(rest \cap tagged) <= (IF Release1 THEN 1 ELSE 0)

(* A volume lies about only while a script has it in hand, or because that *)
(* script died: what the replaced machines had is deleted with them        *)
(* (trigger-web-server.py:278-284), however deployments overlap.           *)
NoStrayVolume ==
    \A v \in Deployers : vol[v] = "available" =>
        \E d \in Deployers : uses[d] = v /\ pc[d] \in {"look", "tag", "attach", "mark"}

(* An indexer machine does not run, and cost, for ever: it terminates      *)
(* itself or is shut down by main.sh's crontab entry, even if its script   *)
(* waits for a web server that never comes up (make-crontab.py).           *)
IndexersStop ==
    \A i \in Indexers : host[i] = "pending" ~> host[i] \in {"stopped", "terminated"}

(* How it all ends: deployments clean up, and indexers stop.               *)
DeploymentsEnd == [](TypeOK /\ ReplacedCleanly) /\ IndexersStop
=============================================================================
