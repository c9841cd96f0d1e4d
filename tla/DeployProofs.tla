---------------------------- MODULE DeployProofs ----------------------------
(***************************************************************************)
(* For every schedule of triggers and every operator, however the scripts  *)
(* overlap and wherever they die: what a volume without a machine says     *)
(* about the scripts, that the service is kept, and what is left over.     *)
(***************************************************************************)
EXTENDS Deploy, FiniteSetTheorems, TLAPS

PastMark == {"poll", "health", "register", "deregister", "describe", "terminate", "gone", "done"}
PastTag  == {"attach", "mark"} \cup PastMark
InHand   == {"look", "tag", "attach", "mark"}

(* A script that got past create_tags has a tagged machine.                *)
TagsDone == \A d \in Deployers : pc[d] \in PastTag => d \in tagged

(* Only a script past modify_attribute has a machine with a marked volume. *)
MarksDone == \A m \in marked : pc[m] \in PastMark

(* An indexer deploys its own volume.                                      *)
OwnVolume == \A i \in Indexers : uses[i] = i

(* A machine has no volume but its script's, marked or about to be: the    *)
(* strengthening without which a machine's end might strand a volume that  *)
(* no script had in hand.                                                  *)
Attached == \A v, m \in Deployers :
                vol[v] = m => uses[m] = v /\ (m \in marked \/ pc[m] = "mark")

IInv == TypeOK /\ TagsDone /\ MarksDone /\ OwnVolume /\ Attached /\ NoStrayVolume

(* Every step of every script and machine keeps what volumes say.         *)
LEMMA Inductive == IInv /\ [Next]_vars => IInv'
<1> SUFFICES ASSUME IInv, [Next]_vars PROVE IInv'
  OBVIOUS
<1>1. Indexers \subseteq Deployers /\ Operators \subseteq Deployers
      /\ Indexers \cap Operators = {} /\ Deployers \cap Nowhere = {}
  BY DeployAssumption DEF Deployers
<1> USE DEF IInv, TypeOK, TagsDone, MarksDone, OwnVolume, Attached, NoStrayVolume,
            PastTag, PastMark, Deploying, Live, Nowhere, Step, Alive,
            vars, hostVars, webVars, answers, history
<1>2. CASE UNCHANGED vars
  BY <1>2
<1>3. CASE Next
  <2>1. ASSUME NEW i \in Indexers, TerminateOldIndexers(i) PROVE IInv'
    BY <1>1, <2>1 DEF TerminateOldIndexers, VolumesWithout
  <2>2. ASSUME NEW i \in Indexers, Launch(i) PROVE IInv'
    BY <1>1, <2>2 DEF Launch
  <2>3. ASSUME NEW i \in Indexers, Index(i) PROVE IInv'
    BY <1>1, <2>3 DEF Index
  (* The volume is in the hand of the script that detached it. *)
  <2>4. ASSUME NEW i \in Indexers, DetachVolume(i) PROVE IInv'
    BY <1>1, <2>4 DEF DetachVolume, Begin
  <2>5. ASSUME NEW i \in Indexers, BootIndexer(i) PROVE IInv'
    BY <1>1, <2>5 DEF BootIndexer
  <2>6. ASSUME NEW i \in Indexers, IndexerGone(i) PROVE IInv'
    BY <1>1, <2>6 DEF IndexerGone, VolumesWithout, Forget
  (* The operator's script had nothing, so nothing was attached to its machine. *)
  <2>7. ASSUME NEW o \in Operators, NEW v \in Deployers, StartByHand(o, v) PROVE IInv'
    BY <1>1, <2>7 DEF StartByHand, Begin
  <2>8. ASSUME NEW d \in Deployers, Detach(d) PROVE IInv'
    BY <1>1, <2>8 DEF Detach
  <2>9. ASSUME NEW d \in Deployers, RunInstance(d) PROVE IInv'
    BY <1>1, <2>9 DEF RunInstance
  <2>10. ASSUME NEW d \in Deployers, Tag(d) PROVE IInv'
    BY <1>1, <2>10 DEF Tag
  <2>11. ASSUME NEW d \in Deployers, AttachVolume(d) PROVE IInv'
    BY <1>1, <2>11 DEF AttachVolume
  (* The volume leaves the script's hand, but it is attached, not available. *)
  <2>12. ASSUME NEW d \in Deployers, DeleteOnTermination(d) PROVE IInv'
    BY <1>1, <2>12 DEF DeleteOnTermination, MarkedWith
  <2>13. ASSUME NEW d \in Deployers, Poll(d) PROVE IInv'
    BY <1>1, <2>13 DEF Poll, Serves
  <2>14. ASSUME NEW d \in Deployers, DescribeTargetHealth(d) PROVE IInv'
    BY <1>1, <2>14 DEF DescribeTargetHealth
  <2>15. ASSUME NEW d \in Deployers, RegisterTargets(d) PROVE IInv'
    BY <1>1, <2>15 DEF RegisterTargets
  <2>16. ASSUME NEW d \in Deployers, DeregisterTargets(d) PROVE IInv'
    BY <1>1, <2>16 DEF DeregisterTargets
  <2>17. ASSUME NEW d \in Deployers, DescribeInstances(d) PROVE IInv'
    BY <1>1, <2>17 DEF DescribeInstances, OtherTagged
  <2>18. ASSUME NEW d \in Deployers, TerminateInstances(d) PROVE IInv'
    BY <1>1, <2>18 DEF TerminateInstances
  <2>19. ASSUME NEW d \in Deployers, Finish(d) PROVE IInv'
    BY <1>1, <2>19 DEF Finish
  <2>20. ASSUME NEW d \in Deployers, Stop(d) PROVE IInv'
    BY <1>1, <2>20 DEF Stop, Forget, MayStop
  <2>21. ASSUME NEW m \in Deployers, Serve(m) PROVE IInv'
    BY <1>1, <2>21 DEF Serve
  (* By Attached, an unmarked volume becomes available in its script's hand. *)
  <2>22. ASSUME NEW m \in Deployers, WebServerGone(m) PROVE IInv'
    BY <1>1, <2>22 DEF WebServerGone
  <2> QED
    BY <1>3, <2>1, <2>2, <2>3, <2>4, <2>5, <2>6, <2>7, <2>8, <2>9, <2>10, <2>11, <2>12, <2>13, <2>14, <2>15, <2>16, <2>17, <2>18, <2>19, <2>20, <2>21, <2>22 DEF Next, Deployment
<1> QED
  BY <1>2, <1>3

LEMMA Initially == Init => IInv
<1> SUFFICES ASSUME Init PROVE IInv
  OBVIOUS
<1>1. latest \in Deployers
  BY DeployAssumption DEF Init
<1>2. TypeOK
  BY <1>1 DEF Init, TypeOK, Nowhere
<1>3. Attached
  BY DeployAssumption DEF Init, Attached, Nowhere
<1>4. TagsDone /\ MarksDone /\ OwnVolume /\ NoStrayVolume
  BY DEF Init, TagsDone, MarksDone, OwnVolume, NoStrayVolume, PastTag, PastMark, Deployers
<1> QED
  BY <1>2, <1>3, <1>4 DEF IInv

LEMMA Always == Spec => []IInv
<1> QED
  BY Initially, Inductive, PTL DEF Spec

(* The deployment's variables have their types; a marked volume, a server  *)
(* that serves and a target belong to tagged machines only, which is what  *)
(* lets a later deployment find and terminate them.                        *)
THEOREM DeployTypes == Spec => []TypeOK
<1> QED
  BY Always, PTL DEF IInv

(* However many deployments overlap, take volumes from each other and die: *)
(* an available volume is one that some script has, or died with, in hand  *)
(* (trigger-web-server.py:278-284).                                        *)
THEOREM VolumesAccountedFor == Spec => []NoStrayVolume
<1> QED
  BY Always, PTL DEF IInv

-----------------------------------------------------------------------------
(* What the service rests on.                                              *)

Running(d) == Alive(d) /\ pc[d] \in Deploying

(* Without overlaps, only the latest script deploys.                       *)
Alone == orderly => \A d \in Deployers : Running(d) => d = latest

(* Nothing runs and nothing is attached under the name of a script that    *)
(* has not got that far.                                                   *)
NotStarted ==
    /\ \A d \in Deployers : host[d] = "pending" => pc[d] = "index"
    /\ \A m \in Deployers :
          pc[m] \in {"new", "launch", "index", "detach", "look"} => web[m] = "none"
    /\ \A i \in Indexers : /\ pc[i] \in {"new", "launch", "index"} => vol[i] = "none"
                           /\ pc[i] = "detach" => vol[i] \in {"indexer", "deleted"}

Registered ==
    \A m \in targets : pc[m] \in {"deregister", "describe", "terminate", "gone", "done"}

(* What a script that deploys alone knows, place by place.                 *)
Knows(d) ==
    /\ pc[d] = "look" => vol[uses[d]] \notin targets
    /\ pc[d] \in PastMark \ {"poll", "done"} => Serves(d)
    /\ pc[d] = "register" => old[d] = targets
    /\ pc[d] = "deregister" => targets = old[d] \cup {d} /\ d \notin old[d]
    /\ pc[d] \in {"describe", "terminate", "gone"} => targets = {d}
    /\ pc[d] = "terminate" => d \notin kill[d]

Knowledge == orderly => \A d \in Deployers : Running(d) => Knows(d)

SafeRest == Alone /\ NotStarted /\ Registered /\ Knowledge
SInv == IInv /\ SafeRest

LEMMA SafeInductive == SInv /\ [Next]_vars => SafeRest'
<1> SUFFICES ASSUME SInv, [Next]_vars PROVE SafeRest'
  OBVIOUS
<1>1. /\ Indexers \subseteq Deployers /\ Operators \subseteq Deployers
      /\ Indexers \cap Operators = {} /\ Deployers \cap Nowhere = {}
      /\ Indexers \cup Operators = Deployers
  BY DeployAssumption DEF Deployers
<1> USE DEF SInv, SafeRest, IInv, TypeOK, OwnVolume, Attached,
            Alone, NotStarted, Registered, Knowledge, Knows, Running, Serves,
            PastTag, PastMark, Deploying, Live, Nowhere, Step, Alive,
            vars, hostVars, webVars, answers, history
<1>2. CASE UNCHANGED vars
  BY <1>2
<1>3. CASE Next
  <2>1. ASSUME NEW i \in Indexers, TerminateOldIndexers(i) PROVE SafeRest'
    <3>1. (Alone /\ NotStarted /\ Registered)'
      BY <1>1, <2>1 DEF TerminateOldIndexers, VolumesWithout
    <3>2. Knowledge'
      BY <1>1, <2>1, <3>1 DEF TerminateOldIndexers, VolumesWithout
    <3> QED
      BY <3>1, <3>2
  <2>2. ASSUME NEW i \in Indexers, Launch(i) PROVE SafeRest'
    <3>1. (Alone /\ NotStarted /\ Registered)'
      BY <1>1, <2>2 DEF Launch
    <3>2. Knowledge'
      BY <1>1, <2>2, <3>1 DEF Launch
    <3> QED
      BY <3>1, <3>2
  <2>3. ASSUME NEW i \in Indexers, Index(i) PROVE SafeRest'
    <3>1. (Alone /\ NotStarted /\ Registered)'
      BY <1>1, <2>3 DEF Index
    <3>2. Knowledge'
      BY <1>1, <2>3, <3>1 DEF Index
    <3> QED
      BY <3>1, <3>2
  <2>4. ASSUME NEW i \in Indexers, DetachVolume(i) PROVE SafeRest'
    <3>1. /\ pc' = [pc EXCEPT ![i] = "look"] /\ vol' = [vol EXCEPT ![i] = "available"]
          /\ pc[i] = "detach" /\ i \in Deployers /\ Alive(i)
          /\ UNCHANGED <<host, uses, web, marked, ready, tagged, targets, old, kill>>
      BY <1>1, <2>4 DEF DetachVolume
    <3>2. orderly' => orderly /\ \A e \in Deployers : ~ Running(e)
      BY <2>4 DEF DetachVolume, Begin
    <3>3. latest' = i
      BY <2>4 DEF DetachVolume, Begin
    <3>4. Alone'
      BY <3>1, <3>2, <3>3
    <3>5. NotStarted' /\ Registered'
      BY <1>1, <3>1
    <3>6. Knowledge'
      BY <1>1, <3>1, <3>2, <3>4
    <3> QED
      BY <3>4, <3>5, <3>6
  <2>5. ASSUME NEW i \in Indexers, BootIndexer(i) PROVE SafeRest'
    <3>1. /\ pc[i] = "index" /\ host' = [host EXCEPT ![i] = "running"] /\ i \in Deployers
          /\ UNCHANGED <<pc, vol, web, targets, latest, orderly>>
      BY <1>1, <2>5 DEF BootIndexer
    <3>2. Alone'
      BY <3>1
    <3>3. NotStarted' /\ Registered'
      BY <3>1
    <3>4. Knowledge'
      BY <1>1, <2>5, <3>1, <3>2 DEF BootIndexer
    <3> QED
      BY <3>2, <3>3, <3>4
  <2>6. ASSUME NEW i \in Indexers, IndexerGone(i) PROVE SafeRest'
    <3>1. (Alone /\ NotStarted /\ Registered)'
      BY <1>1, <2>6 DEF IndexerGone, VolumesWithout, Forget
    <3>2. Knowledge'
      BY <1>1, <2>6, <3>1 DEF IndexerGone, VolumesWithout, Forget
    <3> QED
      BY <3>1, <3>2
  <2>7. ASSUME NEW o \in Operators, NEW v \in Deployers, StartByHand(o, v) PROVE SafeRest'
    <3>1. /\ pc' = [pc EXCEPT ![o] = "look"] /\ host' = [host EXCEPT ![o] = "running"]
          /\ uses' = [uses EXCEPT ![o] = v]
          /\ pc[o] = "new" /\ o \in Deployers /\ o \notin targets /\ o \notin Indexers
          /\ web[o] = "none"
      BY <1>1, <2>7 DEF StartByHand
    <3>2. UNCHANGED <<vol, web, marked, ready, tagged, targets, old, kill>>
      BY <2>7 DEF StartByHand
    <3>3. orderly' => /\ orderly /\ vol[v] \notin targets
                      /\ \A e \in Deployers : ~ Running(e)
      BY <2>7 DEF StartByHand, Begin
    <3>4. latest' = o
      BY <2>7 DEF StartByHand, Begin
    <3>5. Alone'
      BY <3>1, <3>3, <3>4
    <3>6. NotStarted' /\ Registered'
      BY <1>1, <3>1, <3>2
    <3>7. Knowledge'
      BY <3>1, <3>2, <3>3, <3>5
    <3> QED
      BY <3>5, <3>6, <3>7
  <2>8. ASSUME NEW d \in Deployers, Detach(d) PROVE SafeRest'
    <3>1. (Alone /\ NotStarted /\ Registered)'
      BY <1>1, <2>8 DEF Detach
    <3>2. Knowledge'
      BY <1>1, <2>8, <3>1 DEF Detach
    <3> QED
      BY <3>1, <3>2
  <2>9. ASSUME NEW d \in Deployers, RunInstance(d) PROVE SafeRest'
    <3>1. (Alone /\ NotStarted /\ Registered)'
      BY <1>1, <2>9 DEF RunInstance
    <3>2. Knowledge'
      BY <1>1, <2>9, <3>1 DEF RunInstance
    <3> QED
      BY <3>1, <3>2
  <2>10. ASSUME NEW d \in Deployers, Tag(d) PROVE SafeRest'
    <3>1. (Alone /\ NotStarted /\ Registered)'
      BY <1>1, <2>10 DEF Tag
    <3>2. Knowledge'
      BY <1>1, <2>10, <3>1 DEF Tag
    <3> QED
      BY <3>1, <3>2
  <2>11. ASSUME NEW d \in Deployers, AttachVolume(d) PROVE SafeRest'
    <3>1. (Alone /\ NotStarted /\ Registered)'
      BY <1>1, <2>11 DEF AttachVolume
    <3>2. Knowledge'
      BY <1>1, <2>11, <3>1 DEF AttachVolume
    <3> QED
      BY <3>1, <3>2
  <2>12. ASSUME NEW d \in Deployers, DeleteOnTermination(d) PROVE SafeRest'
    <3>1. (Alone /\ NotStarted /\ Registered)'
      BY <1>1, <2>12 DEF DeleteOnTermination, MarkedWith
    <3>2. Knowledge'
      BY <1>1, <2>12, <3>1 DEF DeleteOnTermination, MarkedWith
    <3> QED
      BY <3>1, <3>2
  <2>13. ASSUME NEW d \in Deployers, Poll(d) PROVE SafeRest'
    <3>1. (Alone /\ NotStarted /\ Registered)'
      BY <1>1, <2>13 DEF Poll
    <3>2. Knowledge'
      BY <1>1, <2>13, <3>1 DEF Poll
    <3> QED
      BY <3>1, <3>2
  <2>14. ASSUME NEW d \in Deployers, DescribeTargetHealth(d) PROVE SafeRest'
    <3>1. (Alone /\ NotStarted /\ Registered)'
      BY <1>1, <2>14 DEF DescribeTargetHealth
    <3>2. Knowledge'
      BY <1>1, <2>14, <3>1 DEF DescribeTargetHealth
    <3> QED
      BY <3>1, <3>2
  <2>15. ASSUME NEW d \in Deployers, RegisterTargets(d) PROVE SafeRest'
    <3>1. (Alone /\ NotStarted /\ Registered)'
      BY <1>1, <2>15 DEF RegisterTargets
    <3>2. Knowledge'
      BY <1>1, <2>15, <3>1 DEF RegisterTargets
    <3> QED
      BY <3>1, <3>2
  <2>16. ASSUME NEW d \in Deployers, DeregisterTargets(d) PROVE SafeRest'
    <3>1. (Alone /\ NotStarted /\ Registered)'
      BY <1>1, <2>16 DEF DeregisterTargets
    <3>2. Knowledge'
      BY <1>1, <2>16, <3>1 DEF DeregisterTargets
    <3> QED
      BY <3>1, <3>2
  <2>17. ASSUME NEW d \in Deployers, DescribeInstances(d) PROVE SafeRest'
    <3>1. (Alone /\ NotStarted /\ Registered)'
      BY <1>1, <2>17 DEF DescribeInstances, OtherTagged
    <3>2. Knowledge'
      BY <1>1, <2>17, <3>1 DEF DescribeInstances, OtherTagged
    <3> QED
      BY <3>1, <3>2
  <2>18. ASSUME NEW d \in Deployers, TerminateInstances(d) PROVE SafeRest'
    <3>1. (Alone /\ NotStarted /\ Registered)'
      BY <1>1, <2>18 DEF TerminateInstances
    <3>2. Knowledge'
      BY <1>1, <2>18, <3>1 DEF TerminateInstances
    <3> QED
      BY <3>1, <3>2
  <2>19. ASSUME NEW d \in Deployers, Finish(d) PROVE SafeRest'
    <3>1. (Alone /\ NotStarted /\ Registered)'
      BY <1>1, <2>19 DEF Finish
    <3>2. Knowledge'
      BY <1>1, <2>19, <3>1 DEF Finish
    <3> QED
      BY <3>1, <3>2
  <2>20. ASSUME NEW d \in Deployers, Stop(d) PROVE SafeRest'
    <3>1. (Alone /\ NotStarted /\ Registered)'
      BY <1>1, <2>20 DEF Stop, Forget, MayStop
    <3>2. Knowledge'
      BY <1>1, <2>20, <3>1 DEF Stop, Forget, MayStop
    <3> QED
      BY <3>1, <3>2
  <2>21. ASSUME NEW m \in Deployers, Serve(m) PROVE SafeRest'
    <3>1. (Alone /\ NotStarted /\ Registered)'
      BY <1>1, <2>21 DEF Serve
    <3>2. Knowledge'
      BY <1>1, <2>21, <3>1 DEF Serve
    <3> QED
      BY <3>1, <3>2
  <2>22. ASSUME NEW m \in Deployers, WebServerGone(m) PROVE SafeRest'
    <3>1. (Alone /\ NotStarted /\ Registered)'
      BY <1>1, <2>22 DEF WebServerGone
    <3>2. Knowledge'
      BY <1>1, <2>22, <3>1 DEF WebServerGone
    <3> QED
      BY <3>1, <3>2
  <2> QED
    BY <1>3, <2>1, <2>2, <2>3, <2>4, <2>5, <2>6, <2>7, <2>8, <2>9, <2>10, <2>11, <2>12, <2>13, <2>14, <2>15, <2>16, <2>17, <2>18, <2>19, <2>20, <2>21, <2>22 DEF Next, Deployment
<1> QED
  BY <1>2, <1>3

LEMMA SafeInitially == Init => SInv
<1> SUFFICES ASSUME Init PROVE SInv
  OBVIOUS
<1>1. IInv
  BY Initially
<1>2. Alone /\ NotStarted /\ Registered /\ Knowledge
  BY DEF Init, Alone, NotStarted, Registered, Knowledge, Running, Alive, Deployers
<1> QED
  BY <1>1, <1>2 DEF SInv, SafeRest

(* The step that matters: a machine that serves is still a target and      *)
(* serves, or the script that displaced it knows that its own machine does.*)
LEMMA ServiceStep == SInv /\ [Next]_vars /\ Served /\ orderly' => Served'
<1> SUFFICES ASSUME SInv, [Next]_vars, orderly',
                    NEW m \in targets, Serves(m)
             PROVE  Served'
  BY DEF Served
<1>1. /\ m \in Deployers /\ m \notin Nowhere /\ pc[m] # "new"
      /\ web[m] = "running" /\ m \in ready /\ vol[uses[m]] = m /\ uses[m] \in Deployers
      /\ Indexers \subseteq Deployers /\ Operators \subseteq Deployers
  BY DeployAssumption DEF SInv, SafeRest, Registered, IInv, TypeOK, Serves, Deployers
<1> USE DEF Served, Serves, SInv, IInv, TypeOK, Step, hostVars, webVars, answers, history
<1>2. CASE UNCHANGED vars
  BY <1>2 DEF vars
<1>3. ASSUME NEW i \in Indexers,
             \/ TerminateOldIndexers(i) \/ Launch(i) \/ BootIndexer(i)
      PROVE  Served'
  <2>1. CASE TerminateOldIndexers(i)
    <3>1. vol[uses[m]] # "indexer"
      BY <1>1 DEF Nowhere
    <3>2. vol'[uses[m]] = m
      BY <1>1, <2>1, <3>1 DEF TerminateOldIndexers, VolumesWithout
    <3>3. UNCHANGED <<uses, web, ready, targets>>
      BY <2>1 DEF TerminateOldIndexers
    <3> QED
      BY <1>1, <3>2, <3>3
  <2>2. CASE Launch(i) \/ BootIndexer(i)
    BY <1>1, <2>2 DEF Launch, BootIndexer
  <2> QED
    BY <1>3, <2>1, <2>2
(* These touch an indexer's own volume before any machine has it. *)
<1>4. ASSUME NEW i \in Indexers, Index(i) \/ DetachVolume(i) \/ IndexerGone(i)
      PROVE  Served'
  <2>1. CASE Index(i)
    <3>1. uses[m] # i
      BY <1>1, <2>1 DEF Index, SafeRest, NotStarted, Nowhere
    <3> QED
      BY <1>1, <2>1, <3>1 DEF Index
  <2>2. CASE DetachVolume(i)
    <3>1. uses[m] # i
      BY <1>1, <2>2 DEF DetachVolume, SafeRest, NotStarted, Nowhere
    <3> QED
      BY <1>1, <2>2, <3>1 DEF DetachVolume
  <2>3. CASE IndexerGone(i)
    <3>1. vol[uses[m]] # "indexer"
      BY <1>1 DEF Nowhere
    <3> QED
      BY <1>1, <2>3, <3>1 DEF IndexerGone, VolumesWithout
  <2> QED
    BY <1>4, <2>1, <2>2, <2>3
(* Nothing runs yet under the name of an operator who has not begun. *)
<1>5. ASSUME NEW o \in Operators, NEW v \in Deployers, StartByHand(o, v) PROVE Served'
  <2>1. m # o /\ uses'[m] = uses[m]
    BY <1>1, <1>5 DEF StartByHand
  <2> QED
    BY <1>1, <1>5, <2>1 DEF StartByHand
(* Only an operator's script detaches a volume from a machine; orderly, it *)
(* is not a target's.                                                      *)
<1>6. ASSUME NEW d \in Deployers, Detach(d) PROVE Served'
  <2>1. vol[uses[d]] \notin targets
    BY <1>6 DEF Detach, SafeRest, Knowledge, Knows, Running, Deploying
  <2> QED
    BY <1>1, <1>6, <2>1 DEF Detach
<1>7. ASSUME NEW d \in Deployers,
             \/ RunInstance(d) \/ Tag(d) \/ AttachVolume(d) \/ DeleteOnTermination(d)
             \/ Poll(d) \/ DescribeTargetHealth(d) \/ RegisterTargets(d)
             \/ DescribeInstances(d) \/ Finish(d) \/ Stop(d)
      PROVE  Served'
  <2>1. CASE RunInstance(d)
    <3>1. m # d
      BY <1>1, <2>1 DEF RunInstance, SafeRest, NotStarted
    <3> QED
      BY <1>1, <2>1, <3>1 DEF RunInstance
  <2>2. CASE AttachVolume(d)
    <3>1. uses[m] # uses[d]
      BY <1>1, <2>2 DEF AttachVolume, Nowhere
    <3> QED
      BY <1>1, <2>2, <3>1 DEF AttachVolume
  <2>3. CASE RegisterTargets(d)
    BY <1>1, <2>3 DEF RegisterTargets
  <2>4. CASE Tag(d) \/ DeleteOnTermination(d) \/ Poll(d) \/ DescribeTargetHealth(d)
    BY <1>1, <2>4 DEF Tag, DeleteOnTermination, Poll, DescribeTargetHealth
  <2>5. CASE DescribeInstances(d)
    BY <1>1, <2>5 DEF DescribeInstances
  <2>6. CASE Finish(d) \/ Stop(d)
    BY <1>1, <2>6 DEF Finish, Stop
  <2> QED
    BY <1>7, <2>1, <2>2, <2>3, <2>4, <2>5, <2>6
(* The script's own machine is a target, and is not taken out. *)
<1>8. ASSUME NEW d \in Deployers, DeregisterTargets(d) PROVE Served'
  <2>1. Serves(d) /\ targets = old[d] \cup {d} /\ d \notin old[d]
    BY <1>8 DEF DeregisterTargets, SafeRest, Knowledge, Knows, Running, Deploying, PastMark
  <2> QED
    BY <1>8, <2>1 DEF DeregisterTargets
(* It is the only target by now, and not among those terminated. *)
<1>9. ASSUME NEW d \in Deployers, TerminateInstances(d) PROVE Served'
  <2>1. targets = {d} /\ d \notin kill[d]
    BY <1>9 DEF TerminateInstances, SafeRest, Knowledge, Knows, Running, Deploying
  <2> QED
    BY <1>1, <1>9, <2>1 DEF TerminateInstances
<1>10. ASSUME NEW x \in Deployers, Serve(x) \/ WebServerGone(x) PROVE Served'
  <2>1. CASE Serve(x)
    BY <1>1, <2>1 DEF Serve
  <2>2. CASE WebServerGone(x)
    <3>1. m # x
      BY <1>1, <2>2 DEF WebServerGone
    <3>2. vol'[uses[m]] = m
      BY <1>1, <2>2, <3>1 DEF WebServerGone
    <3>3. m \in ready' /\ web'[m] = "running" /\ uses' = uses /\ targets' = targets
      BY <1>1, <2>2, <3>1 DEF WebServerGone
    <3> QED
      BY <1>1, <3>2, <3>3
  <2> QED
    BY <1>10, <2>1, <2>2
<1> QED
  BY <1>2, <1>3, <1>4, <1>5, <1>6, <1>7, <1>8, <1>9, <1>10 DEF Next, Deployment

(* For every schedule and every operator: as long as deployments do not    *)
(* overlap and nobody takes a target's volume, a channel that is served    *)
(* stays served, whichever of its scripts die, and wherever they do        *)
(* (trigger-web-server.py:218-234).                                        *)
THEOREM ServiceIsKept == Spec => ServiceKept
<1>1. SInv /\ [Next]_vars => SInv'
  BY Inductive, SafeInductive DEF SInv
<1>2. SInv /\ [Next]_vars => [Served /\ orderly' => Served']_vars
  BY ServiceStep
<1> QED
  BY SafeInitially, <1>1, <1>2, PTL DEF Spec, ServiceKept

-----------------------------------------------------------------------------
(* What a deployment that is over leaves.                                  *)

(* A machine without tags is one whose script died before it gave them.    *)
Untagged == \A m \in Deployers : web[m] # "none" /\ m \notin tagged => pc[m] = "tag"

(* Tagged machines that live besides d's, and that d will not terminate.   *)
Others(d) == {m \in tagged \ {d} : web[m] \in Live}
Few(S)    == \A a, b \in S : Release1 /\ a = b

(* From describe_instances on, all other machines that live are among      *)
(* those that the script terminates; afterwards they are gone.             *)
Replacing ==
    orderly => /\ pc[latest] = "done" => targets = {latest} /\ Few(Others(latest))
               /\ pc[latest] \in {"terminate", "gone"} /\ Alive(latest) =>
                      Few(Others(latest) \ kill[latest])

RInv == SInv /\ Untagged /\ Replacing

LEMMA UntaggedInductive == SInv /\ Untagged /\ [Next]_vars => Untagged'
<1> SUFFICES ASSUME SInv, Untagged, [Next]_vars PROVE Untagged'
  OBVIOUS
<1> USE DEF Untagged, SInv, IInv, TypeOK, Step, vars, hostVars, webVars, answers, history
<1>0. Indexers \subseteq Deployers /\ Operators \subseteq Deployers
  BY DEF Deployers
<1>1. CASE UNCHANGED vars
  BY <1>1
<1>2. ASSUME NEW i \in Indexers, \/ TerminateOldIndexers(i) \/ Launch(i) \/ Index(i)
                                 \/ DetachVolume(i) \/ BootIndexer(i) \/ IndexerGone(i)
      PROVE  Untagged'
  BY <1>0, <1>2 DEF TerminateOldIndexers, Launch, Index, DetachVolume, BootIndexer, IndexerGone
<1>3. ASSUME NEW o \in Operators, NEW v \in Deployers, StartByHand(o, v) PROVE Untagged'
  BY <1>0, <1>3 DEF StartByHand
<1>4. ASSUME NEW d \in Deployers, Deployment(d) PROVE Untagged'
  <2>1. CASE RunInstance(d) \/ Tag(d)
    BY <2>1 DEF RunInstance, Tag
  <2>2. CASE TerminateInstances(d)
    BY <2>2 DEF TerminateInstances, Live
  <2>3. CASE \/ Detach(d) \/ AttachVolume(d) \/ DeleteOnTermination(d) \/ Poll(d)
             \/ DescribeTargetHealth(d) \/ RegisterTargets(d) \/ DeregisterTargets(d)
             \/ DescribeInstances(d) \/ Finish(d)
    BY <2>3 DEF Detach, AttachVolume, DeleteOnTermination, Poll, DescribeTargetHealth,
                RegisterTargets, DeregisterTargets, DescribeInstances, Finish
  <2> QED BY <1>4, <2>1, <2>2, <2>3 DEF Deployment
<1>5. ASSUME NEW m \in Deployers, Stop(m) \/ Serve(m) \/ WebServerGone(m) PROVE Untagged'
  BY <1>5 DEF Stop, Serve, WebServerGone
<1> QED BY <1>1, <1>2, <1>3, <1>4, <1>5 DEF Next

LEMMA ReplacingInductive == SInv /\ Replacing /\ [Next]_vars => Replacing'
<1> SUFFICES ASSUME SInv, Replacing, [Next]_vars, orderly' PROVE Replacing'
  BY DEF Replacing
<1>0. Indexers \subseteq Deployers /\ Operators \subseteq Deployers
  BY DEF Deployers
<1> USE DEF SInv, IInv, TypeOK, Step, hostVars, webVars, answers, history
(* A step of neither the script nor describe_instances: nothing comes to   *)
(* life.                                                                   *)
<1>1. ASSUME orderly, latest' = latest,
             pc'[latest] \in {"terminate", "gone", "done"} =>
                 /\ pc'[latest] = pc[latest] /\ targets' = targets
                 /\ Others(latest)' \subseteq Others(latest)
                 /\ Alive(latest)' => Alive(latest) /\ kill'[latest] = kill[latest]
      PROVE  Replacing'
  <2>1. ASSUME pc'[latest] = "done" PROVE targets' = {latest} /\ Few(Others(latest)')
    BY <1>1, <2>1 DEF Replacing, Few
  <2>2. ASSUME pc'[latest] \in {"terminate", "gone"}, Alive(latest)'
        PROVE  Few(Others(latest)' \ kill'[latest])
    BY <1>1, <2>2 DEF Replacing, Few
  <2>3. Others(latest)' = {m \in tagged' \ {latest} : web'[m] \in Live}
    BY <1>1 DEF Others
  <2>4. Others(latest') = Others(latest)
    BY <1>1
  <2> QED BY <1>1, <2>1, <2>2, <2>3 DEF Replacing, Few, Others
<1>2. CASE UNCHANGED vars
  <2>1. /\ orderly /\ latest' = latest /\ pc' = pc /\ targets' = targets
        /\ kill' = kill /\ host' = host /\ tagged' = tagged /\ web' = web
    BY <1>2 DEF vars
  <2> QED BY <1>1, <2>1 DEF Others, Alive
<1>3. ASSUME NEW i \in Indexers, \/ TerminateOldIndexers(i) \/ Launch(i) \/ Index(i)
                                 \/ BootIndexer(i) \/ IndexerGone(i)
      PROVE  Replacing'
  <2>1. /\ orderly /\ latest' = latest /\ targets' = targets /\ tagged' = tagged /\ web' = web
        /\ i \in Deployers /\ latest \in Deployers
    BY <1>0, <1>3 DEF TerminateOldIndexers, Launch, Index, BootIndexer, IndexerGone
  <2>2. pc'[latest] \in {"terminate", "gone", "done"} => pc'[latest] = pc[latest]
    BY <1>3, <2>1 DEF TerminateOldIndexers, Launch, Index, BootIndexer, IndexerGone
  <2>3. ASSUME pc'[latest] \in {"terminate", "gone", "done"}, Alive(latest)'
        PROVE  Alive(latest) /\ kill'[latest] = kill[latest]
    <3>1. CASE TerminateOldIndexers(i)
      BY <2>1, <2>3, <3>1 DEF TerminateOldIndexers, Alive
    <3>2. CASE Launch(i) \/ Index(i)
      BY <2>1, <2>3, <3>2 DEF Launch, Index, Alive
    <3>3. CASE BootIndexer(i)
      <4>1. pc[i] = "index" /\ pc' = pc
        BY <2>1, <3>3 DEF BootIndexer, SafeRest, NotStarted
      <4> QED BY <2>1, <2>3, <3>3, <4>1 DEF BootIndexer, Alive
    <3>4. CASE IndexerGone(i)
      BY <2>1, <2>3, <3>4 DEF IndexerGone, Forget, Alive
    <3> QED BY <1>3, <3>1, <3>2, <3>3, <3>4
  <2>4. Others(latest)' = Others(latest)
    BY <2>1 DEF Others
  <2> QED BY <1>1, <2>1, <2>2, <2>3, <2>4
<1>4. ASSUME NEW d \in Deployers, pc'[d] = "look", latest' = d PROVE Replacing'
  BY <1>4 DEF Replacing
<1>5. ASSUME NEW i \in Indexers, DetachVolume(i) PROVE Replacing'
  BY <1>0, <1>4, <1>5 DEF DetachVolume, Begin
<1>6. ASSUME NEW o \in Operators, NEW v \in Deployers, StartByHand(o, v) PROVE Replacing'
  BY <1>0, <1>4, <1>6 DEF StartByHand, Begin
<1>7. ASSUME NEW d \in Deployers, Deployment(d) PROVE Replacing'
  <2>1. /\ orderly /\ latest' = latest /\ Alive(d) /\ pc[d] \in Deploying
        /\ latest \in Deployers
    BY <1>7 DEF Deployment, Detach, RunInstance, Tag, AttachVolume, DeleteOnTermination, Poll,
                DescribeTargetHealth, RegisterTargets, DeregisterTargets, DescribeInstances,
                TerminateInstances, Finish, Deploying
  <2>2. d = latest
    BY <2>1 DEF SafeRest, Alone, Running
  <2>3. CASE \/ Detach(d) \/ RunInstance(d) \/ Tag(d) \/ AttachVolume(d) \/ DeleteOnTermination(d)
             \/ Poll(d) \/ DescribeTargetHealth(d) \/ RegisterTargets(d) \/ DeregisterTargets(d)
    <3>1. pc'[d] \notin {"terminate", "gone", "done"}
      BY <2>3 DEF Detach, RunInstance, Tag, AttachVolume, DeleteOnTermination, Poll,
                  DescribeTargetHealth, RegisterTargets, DeregisterTargets
    <3> QED BY <2>1, <2>2, <3>1 DEF Replacing
  <2>4. CASE DescribeInstances(d)
    <3>1. PICK gone \in SUBSET {m \in OtherTagged(d) : web[m] = "terminated"} :
            LET found == gone \cup {m \in OtherTagged(d) : web[m] \in Live}
            IN  \E kept \in {{}} \cup (IF Release1 THEN {{m} : m \in found} ELSE {}) :
                  /\ Step(d, "describe", "terminate")
                  /\ kill' = [kill EXCEPT ![d] = found \ kept]
                  /\ UNCHANGED <<hostVars, vol, webVars, tagged, targets, old, history>>
      BY <2>4 DEF DescribeInstances
    <3> DEFINE found == gone \cup {m \in OtherTagged(d) : web[m] \in Live}
    <3>2. PICK kept \in {{}} \cup (IF Release1 THEN {{m} : m \in found} ELSE {}) :
                  /\ Step(d, "describe", "terminate")
                  /\ kill' = [kill EXCEPT ![d] = found \ kept]
                  /\ UNCHANGED <<hostVars, vol, webVars, tagged, targets, old, history>>
      BY <3>1
    <3> HIDE DEF found
    <3>3. pc'[d] = "terminate" /\ tagged' = tagged /\ web' = web /\ kill'[d] = found \ kept
      BY <3>2
    <3>4. Others(d) \subseteq found
      BY DEF Others, OtherTagged, found
    <3>5. Few(kept)
      BY DEF Few
    <3>6. Others(d) \ kill'[d] \subseteq kept
      BY <3>3, <3>4
    <3>7. Few(Others(d) \ kill'[d])
      BY <3>5, <3>6 DEF Few
    <3>8. Others(d)' = Others(d)
      BY <3>3 DEF Others
    <3> QED BY <2>1, <2>2, <3>3, <3>7, <3>8 DEF Replacing, Others
  <2>5. CASE TerminateInstances(d)
    <3>1. /\ pc[d] = "terminate" /\ pc'[d] = "gone" /\ kill' = kill /\ tagged' = tagged
          /\ \A m \in Deployers : web'[m] \in Live => web[m] \in Live
      BY <2>5 DEF TerminateInstances, Live
    <3>2. Few(Others(d) \ kill[d])
      BY <2>1, <2>2, <3>1 DEF Replacing
    <3>3. {m \in tagged' \ {d} : web'[m] \in Live} \subseteq Others(d)
      BY <3>1 DEF Others
    <3>4. Few({m \in tagged' \ {d} : web'[m] \in Live} \ kill'[d])
      BY <3>1, <3>2, <3>3 DEF Few
    <3> QED BY <2>1, <2>2, <3>1, <3>4 DEF Replacing, Others
  <2>6. CASE Finish(d)
    <3>1. /\ pc[d] = "gone" /\ pc'[d] = "done" /\ web' = web /\ tagged' = tagged /\ targets' = targets
          /\ \A m \in kill[d] : web[m] = "terminated"
      BY <2>6 DEF Finish
    <3>2. Few(Others(d) \ kill[d]) /\ targets = {d}
      BY <2>1, <2>2, <3>1 DEF Replacing, SafeRest, Knowledge, Knows, Running
    <3>3. Others(d) \ kill[d] = Others(d)
      BY <3>1 DEF Others, Live
    <3>4. {m \in tagged' \ {d} : web'[m] \in Live} = Others(d)
      BY <3>1 DEF Others
    <3> QED BY <2>1, <2>2, <3>1, <3>2, <3>3, <3>4 DEF Replacing, Others
  <2> QED BY <1>7, <2>3, <2>4, <2>5, <2>6 DEF Deployment
<1>8. ASSUME NEW m \in Deployers, Stop(m) \/ Serve(m) \/ WebServerGone(m) PROVE Replacing'
  <2>1. /\ orderly /\ latest' = latest /\ pc' = pc /\ targets' = targets /\ tagged' = tagged
        /\ latest \in Deployers
        /\ \A x \in Deployers : web'[x] \in Live => web[x] \in Live
    BY <1>8 DEF Stop, Serve, WebServerGone, Live
  <2>2. Others(latest)' \subseteq Others(latest)
    BY <2>1 DEF Others
  <2>3. Alive(latest)' => Alive(latest) /\ kill'[latest] = kill[latest]
    BY <1>8, <2>1 DEF Stop, Serve, WebServerGone, Forget, Alive
  <2> QED BY <1>1, <2>1, <2>2, <2>3
<1> QED BY <1>2, <1>3, <1>5, <1>6, <1>7, <1>8 DEF Next

LEMMA ReplacingSays == RInv => ReplacedCleanly
<1> SUFFICES ASSUME RInv, orderly, pc[latest] = "done"
             PROVE  /\ targets = {latest}
                    /\ LET rest == {m \in Deployers \ {latest} : web[m] \in Live}
                       IN  /\ \A m \in rest \ tagged : pc[m] = "tag"
                           /\ Cardinality(rest \cap tagged) <= (IF Release1 THEN 1 ELSE 0)
  BY DEF ReplacedCleanly
<1> DEFINE rest == {m \in Deployers \ {latest} : web[m] \in Live}
           S == rest \cap tagged
<1>1. targets = {latest} /\ Few(Others(latest))
  BY DEF RInv, Replacing
<1>2. \A m \in rest \ tagged : pc[m] = "tag"
  BY DEF RInv, Untagged, Live
<1>3. Few(S)
  <2>1. S \subseteq Others(latest)
    BY DEF Others
  <2> HIDE DEF S
  <2> QED BY <1>1, <2>1 DEF Few
<1> HIDE DEF S
<1>4. Cardinality(S) <= (IF Release1 THEN 1 ELSE 0)
  <2>1. CASE S = {}
    BY <2>1, FS_EmptySet
  <2>2. CASE S # {}
    <3>1. PICK x : x \in S
      BY <2>2
    <3>2. S = {x} /\ Release1
      BY <1>3, <3>1 DEF Few
    <3>3. Cardinality({x}) = 1
      BY FS_Singleton
    <3> QED BY <3>2, <3>3
  <2> QED BY <2>1, <2>2
<1> QED BY <1>1, <1>2, <1>4 DEF S

(* For every schedule and every operator: when the latest deployment is    *)
(* over and none overlapped another, its machine is the only target, and   *)
(* of the others only machines never tagged, and one spare of release1,    *)
(* live (trigger-web-server.py:234-276).                                   *)
THEOREM OldMachinesGo == Spec => []ReplacedCleanly
<1>1. Init => RInv
  <2>1. Init => Untagged /\ Replacing
    <3> SUFFICES ASSUME Init PROVE Untagged /\ Replacing
      OBVIOUS
    <3>1. latest \in Deployers
      BY Initially DEF IInv, TypeOK
    <3>2. pc[latest] = "new" /\ \A m \in Deployers : web[m] = "none"
      BY <3>1 DEF Init
    <3> QED BY <3>2 DEF Untagged, Replacing
  <2> QED BY <2>1, SafeInitially DEF RInv
<1>2. RInv /\ [Next]_vars => RInv'
  <2>1. SInv /\ [Next]_vars => SInv'
    BY Inductive, SafeInductive DEF SInv
  <2> QED BY <2>1, UntaggedInductive, ReplacingInductive DEF RInv
<1> QED BY <1>1, <1>2, ReplacingSays, PTL DEF Spec
=============================================================================
