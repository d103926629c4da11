------------------------------ MODULE MCServices ------------------------------
(* Small instances, side by side, of components that share no state: the part chosen at the
   start is the one that runs, and the others stay where they began.  The elements of a set
   stand for several things, so that one symmetry serves every part. *)
EXTENDS OneTimeDispatch, Deployment, PortAllocation, SiteGates, PasswordResets, TLC

CONSTANTS one, two, a, b, s1, s2, v2, v3, only

VARIABLE part

Part == {"retried", "started", "deployed", "allocated", "reused", "rotated", "crowded",
         "reset"}

MCChainOf == v2 :> 2 @@ v3 :> 3
MCSchedules == {<<1, 2>>}

\* The two settings of a dispatch are alike, so that it may begin with either.
ServicesInit ==
  /\ part \in Part
  /\ DispatchInit /\ DeployInit /\ PortsInit /\ GatesInit /\ ResetsInit
  /\ sources.setting = s1 /\ (part \notin {"retried", "started"} => sources.people = {})
  /\ part # "deployed" => (production.applied = 1 /\ ~maintenance)

\* Two preparations of one dispatch at one instant, or one beside the staff.
DispatchPart ==
  /\ DispatchNext
  /\ \/ part = "retried" /\ UNCHANGED <<dispatchClock, starter>>
     \/ part = "started" /\ Cardinality({c \in Preparation : prepare'[c].pc # "idle"}) <= 1
  /\ UNCHANGED <<deployVars, portVars, gateVars, resetVars>>

\* Two processes and a person who removes locks, or three, two of which have one number, and nobody does.
PortsPart ==
  /\ PortsNext
  /\ \/ part = "allocated" /\ starts'[one] + starts'[two] <= 2
     \/ part = "reused" /\ starts'[one] + starts'[two] <= 3 /\ process' # process
  /\ UNCHANGED <<dispatchVars, deployVars, gateVars, resetVars>>

\* Two changes of the settings and one visitor at one instant, or one change and two visitors.
GatesPart ==
  /\ GatesNext
  /\ \/ /\ part = "rotated" /\ UNCHANGED gateClock
        /\ Cardinality({v \in Visitor : visit'[v] # NoVisit \/ sessions'[v] # NoRecord}) <= 1
     \/ part = "crowded" /\ changes' <= 1 /\ (changes' = 1 => editor'[only] = NoEdit)
  /\ UNCHANGED <<dispatchVars, deployVars, portVars, resetVars>>

ServicesNext ==
  /\ \/ DispatchPart
     \/ part = "deployed" /\ DeployNext /\ UNCHANGED <<dispatchVars, portVars, gateVars, resetVars>>
     \/ PortsPart
     \/ GatesPart
     \/ part = "reset" /\ ResetsNext /\ UNCHANGED <<dispatchVars, deployVars, portVars, gateVars>>
  /\ UNCHANGED part

ServicesSpec == ServicesInit /\ [][ServicesNext]_<<dispatchVars, deployVars, portVars, gateVars, resetVars, part>>

\* Every component's state has its type.
ServicesTypeOK == DispatchTypeOK /\ DeployTypeOK /\ PortsTypeOK /\ GatesTypeOK /\ ResetsTypeOK

Symmetric == Permutations({one, two}) \cup Permutations({a, b})
=============================================================================
