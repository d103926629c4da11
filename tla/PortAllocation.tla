---------------------------- MODULE PortAllocation ----------------------------
(***************************************************************************)
(* Which ports a checkout of the repository may use                        *)
(* (scripts/development-port-allocation.mjs): leases in files every        *)
(* process of the machine reads and writes, under a lock that is a         *)
(* directory with its owner's name in it.  Processes end anywhere and      *)
(* their numbers are used again; the lock of one that has ended stays      *)
(* until a person removes it.  The processes are artifact servers, which   *)
(* allocate, register and serve, and the tools that release and reclaim.   *)
(***************************************************************************)
EXTENDS Naturals, FiniteSetsExt

CONSTANTS
  Checkout,
  Slot,           \* the slots of worktrees; ports 3000 and 4000 on from them
  Process,        \* process numbers
  MaxStarts,      \* bound on the processes that use a number
  MaxAllocations, \* bound on the allocations
  Nobody

ASSUME PortsAssumption ==
  /\ Slot \subseteq Nat \ {0}
  /\ MaxStarts \in Nat /\ MaxAllocations \in Nat
  /\ Nobody \notin Checkout \cup (Process \X Nat)

VARIABLES
  leases,  \* the files slot-<n>.json
  lock,    \* the directory allocation.lock and the name in its owner.json
  starts,  \* processes each number was given to
  process, \* what each running process holds
  allocations

portVars == <<leases, lock, starts, process, allocations>>

\* A number and the time its process was started, as processStart compares them.
Identity == Process \X (1..MaxStarts)
Lease == [owner : Checkout \cup {Nobody}, id : 0..MaxAllocations, artifact : Identity \cup {Nobody}]
NoLease == [owner |-> Nobody, id |-> 0, artifact |-> Nobody]
Held == [slot : Slot \cup {0}, lease : Lease]
Job == {"allocate", "register", "clear", "rollback", "status", "reclaim", "release"}
Stage == {"new", "held", "registered", "cleared", "seen", "over"}
ProcessState ==
  [pc : {"ended", "ready", "name", "inside", "write", "leave", "rmdir"},
   checkout : Checkout \cup {Nobody}, stage : Stage, job : Job \cup {"none"},
   held : Held,        \* the lease that allocate or status returned
   created : BOOLEAN,
   listening : BOOLEAN,
   slot : Slot \cup {0}, to : Lease, \* the file about to be written, 0 for none
   then : Stage]       \* where the job leads once the lock is given back

PortsTypeOK ==
  /\ leases \in [Slot -> Lease]
  /\ lock \in [made : BOOLEAN, name : Identity \cup {Nobody}]
  /\ starts \in [Process -> 0..MaxStarts]
  /\ process \in [Process -> ProcessState]
  /\ allocations \in 0..MaxAllocations

-----------------------------------------------------------------------------
Holding(s, lease) == [slot |-> s, lease |-> lease]
NothingHeld == Holding(0, NoLease)
Ended == [pc |-> "ended", checkout |-> Nobody, stage |-> "over", job |-> "none", held |-> NothingHeld,
          created |-> FALSE, listening |-> FALSE, slot |-> 0, to |-> NoLease, then |-> "over"]

PortsInit ==
  /\ leases = [s \in Slot |-> NoLease]
  /\ lock = [made |-> FALSE, name |-> Nobody]
  /\ starts = [p \in Process |-> 0]
  /\ process = [p \in Process |-> Ended]
  /\ allocations = 0

Become(p, state) == process' = [process EXCEPT ![p] = state]
Running(p) == process[p].pc # "ended"
Me(p) == <<p, starts[p]>>
Lives(artifact) == Running(artifact[1]) /\ starts[artifact[1]] = artifact[2]
\* A number in use: whether by the registered process or by a later one is not asked.
Occupied(lease) == lease.artifact # Nobody /\ Running(lease.artifact[1])
SlotsOf(c) == {s \in Slot : leases[s].owner = c}

StartProcess(p, c) ==
  /\ ~Running(p) /\ starts[p] < MaxStarts
  /\ starts' = [starts EXCEPT ![p] = @ + 1]
  /\ Become(p, [Ended EXCEPT !.pc = "ready", !.checkout = c, !.stage = "new"])
  /\ UNCHANGED <<leases, lock, allocations>>

\* A process that ends, of its own or not, gives up its ports and nothing else.
EndProcess(p) == Running(p) /\ Become(p, Ended) /\ UNCHANGED <<leases, lock, starts, allocations>>

Listen(p) ==
  /\ process[p].pc = "ready" /\ process[p].stage = "registered"
  /\ Become(p, [process[p] EXCEPT !.listening = TRUE])
  /\ UNCHANGED <<leases, lock, starts, allocations>>

-----------------------------------------------------------------------------
(* The lock. *)
NextJobs(state) ==
  CASE state.stage = "new" -> {"allocate", "status", "release"}
    [] state.stage = "held" -> {"register"} \cup (IF state.created THEN {"rollback"} ELSE {})
    [] state.stage = "registered" -> {"clear"}
    [] state.stage = "cleared" -> IF state.created THEN {"rollback"} ELSE {}
    [] state.stage = "seen" -> {"reclaim", "release"}
    [] OTHER -> {}

\* A server that cannot register gives its allocation back; any other process ends.
Failed(job) == IF job = "register" THEN "cleared" ELSE "over"

\* A process that finds the directory tries again, for five seconds, and then gives up.
MakeLock(p, job) ==
  /\ process[p].pc = "ready" /\ job \in NextJobs(process[p])
  /\ ~lock.made
  /\ lock' = [made |-> TRUE, name |-> Nobody]
  /\ \E closed \in BOOLEAN : \* a server that is stopped closes its port first
       Become(p, [process[p] EXCEPT !.pc = "name", !.job = job,
                                    !.listening = @ /\ ~(job = "clear" /\ closed)])
  /\ UNCHANGED <<leases, starts, allocations>>

\* A mutant: the name is written over another.
NameLockOverwrites(p) ==
  /\ process[p].pc = "name"
  /\ \/ /\ lock.made
        /\ lock' = [lock EXCEPT !.name = Me(p)]
        /\ Become(p, [process[p] EXCEPT !.pc = "inside"])
     \/ /\ ~lock.made
        /\ Become(p, [process[p] EXCEPT !.pc = "ready", !.stage = Failed(process[p].job)])
        /\ UNCHANGED lock
  /\ UNCHANGED <<leases, starts, allocations>>

\* The name is written into whichever directory is there, and only where there is none; a
\* process that cannot write it finds another's name, or none, and leaves all as it is.
NameLock(p) ==
  /\ process[p].pc = "name"
  /\ \/ /\ lock.made /\ lock.name = Nobody
        /\ lock' = [lock EXCEPT !.name = Me(p)]
        /\ Become(p, [process[p] EXCEPT !.pc = "inside"])
     \/ /\ ~lock.made \/ lock.name # Nobody
        /\ Become(p, [process[p] EXCEPT !.pc = "ready", !.stage = Failed(process[p].job)])
        /\ UNCHANGED lock
  /\ UNCHANGED <<leases, starts, allocations>>

\* A name that is one's own is removed, then the directory, which may be another's by now: one
\* that is not there, or not empty, makes the job fail although its file is written.
RemoveName(p) ==
  /\ process[p].pc = "leave"
  /\ IF lock.made /\ lock.name = Me(p)
     THEN /\ lock' = [lock EXCEPT !.name = Nobody]
          /\ Become(p, [process[p] EXCEPT !.pc = "rmdir"])
     ELSE Become(p, [process[p] EXCEPT !.pc = "ready", !.stage = process[p].then]) /\ UNCHANGED lock
  /\ UNCHANGED <<leases, starts, allocations>>

RemoveDirectory(p) ==
  /\ process[p].pc = "rmdir"
  /\ \/ /\ lock.made /\ lock.name = Nobody
        /\ lock' = [lock EXCEPT !.made = FALSE]
        /\ Become(p, [process[p] EXCEPT !.pc = "ready", !.stage = process[p].then])
     \/ /\ ~lock.made \/ lock.name # Nobody
        /\ Become(p, [process[p] EXCEPT !.pc = "ready", !.stage = Failed(process[p].job)])
        /\ UNCHANGED lock
  /\ UNCHANGED <<leases, starts, allocations>>

\* Nothing reclaims a lock by its age: a person removes one whose process is gone, or that has
\* no name in it, which is also how it looks before a living process has written its own.
PersonRemovesLock ==
  /\ lock.made /\ (lock.name # Nobody => ~Lives(lock.name))
  /\ lock' = [made |-> FALSE, name |-> Nobody]
  /\ UNCHANGED <<leases, starts, process, allocations>>

-----------------------------------------------------------------------------
(* The jobs, each a reading of the files and of the ports and then one file written.  What
   listens besides the artifact servers is the checkout's own, or foreign, or nothing. *)
Listener == {"none", "own", "foreign"}
Servers(s) == {p \in Process : process[p].listening /\ process[p].held.slot = s}
Free(s, others) == others[s] = "none" /\ Servers(s) = {}
Owned(s, c, others) ==
  /\ ~Free(s, others) /\ others[s] # "foreign"
  /\ \A p \in Servers(s) : process[p].checkout = c

WritesFile(p, s, lease, then) ==
  Become(p, [process[p] EXCEPT !.pc = "write", !.slot = s, !.to = lease, !.then = then])
Returns(p, then) == Become(p, [process[p] EXCEPT !.pc = "leave", !.then = then])
Refuses(p) == Returns(p, Failed(process[p].job))

\* A mutant: the checkout's own lease is not looked for.
AllocateAnother(p, others) ==
  LET c == process[p].checkout
      open == {s \in Slot : leases[s] = NoLease /\ (Free(s, others) \/ Owned(s, c, others))}
      lease == [owner |-> c, id |-> allocations + 1, artifact |-> Nobody]
  IN
  /\ process[p].pc = "inside" /\ process[p].job = "allocate"
  /\ open # {} /\ allocations < MaxAllocations /\ allocations' = allocations + 1
  /\ Become(p, [process[p] EXCEPT !.pc = "write", !.slot = Min(open), !.to = lease, !.then = "held",
                                  !.held = Holding(Min(open), lease), !.created = TRUE])
  /\ UNCHANGED <<leases, lock, starts>>

\* The checkout's own lease where its ports are not in another's use, or the first slot that no
\* lease has and nothing foreign listens on.
Allocate(p, others) ==
  LET c == process[p].checkout
      open == {s \in Slot : leases[s] = NoLease /\ (Free(s, others) \/ Owned(s, c, others))}
  IN
  /\ process[p].pc = "inside" /\ process[p].job = "allocate"
  /\ \/ \E s \in SlotsOf(c) :
          /\ IF Free(s, others) \/ Owned(s, c, others)
             THEN Become(p, [process[p] EXCEPT !.pc = "leave", !.then = "held", !.held = Holding(s, leases[s])])
             ELSE Refuses(p)
          /\ UNCHANGED allocations
     \/ /\ SlotsOf(c) = {} /\ open = {} /\ Refuses(p) /\ UNCHANGED allocations
     \/ /\ SlotsOf(c) = {} /\ open # {} /\ allocations < MaxAllocations
        /\ allocations' = allocations + 1
        /\ LET lease == [owner |-> c, id |-> allocations', artifact |-> Nobody] IN
             Become(p, [process[p] EXCEPT !.pc = "write", !.slot = Min(open), !.to = lease, !.then = "held",
                                          !.held = Holding(Min(open), lease), !.created = TRUE])
  /\ UNCHANGED <<leases, lock, starts>>

\* A server writes itself into its checkout's lease where no living process is in it.
Register(p) ==
  /\ process[p].pc = "inside" /\ process[p].job = "register"
  /\ \/ \E s \in SlotsOf(process[p].checkout) :
          /\ leases[s].id = process[p].held.lease.id /\ ~Occupied(leases[s])
          /\ WritesFile(p, s, [leases[s] EXCEPT !.artifact = Me(p)], "registered")
     \/ /\ \A s \in SlotsOf(process[p].checkout) :
              leases[s].id # process[p].held.lease.id \/ Occupied(leases[s])
        /\ Refuses(p)
  /\ UNCHANGED <<leases, lock, starts, allocations>>

Clear(p) ==
  LET mine == {s \in SlotsOf(process[p].checkout) :
                 leases[s].id = process[p].held.lease.id /\ leases[s].artifact = Me(p)}
  IN
  /\ process[p].pc = "inside" /\ process[p].job = "clear"
  /\ \/ mine = {} /\ Returns(p, "cleared")
     \/ \E s \in mine : WritesFile(p, s, [leases[s] EXCEPT !.artifact = Nobody], "cleared")
  /\ UNCHANGED <<leases, lock, starts, allocations>>

\* A lease goes when its ports are free and the process in it is gone; a server that could not
\* start gives its new one back though another's process took the port.
Release(p, others) ==
  LET c == process[p].checkout
      known == process[p].held.lease.id
      Idle(s) == \/ Free(s, others)
                 \/ process[p].job = "rollback" /\ ~Owned(s, c, others)
      Agrees(s) == (known # 0 => leases[s].id = known) /\ Idle(s) /\ ~Occupied(leases[s])
  IN
  /\ process[p].pc = "inside" /\ process[p].job \in {"release", "rollback"}
  /\ \/ \E s \in SlotsOf(c) : Agrees(s) /\ WritesFile(p, s, NoLease, "over")
     \/ (\A s \in SlotsOf(c) : ~Agrees(s)) /\ Returns(p, "over")
  /\ UNCHANGED <<leases, lock, starts, allocations>>

ShowLease(p) ==
  /\ process[p].pc = "inside" /\ process[p].job = "status"
  /\ \/ \E s \in SlotsOf(process[p].checkout) :
          Become(p, [process[p] EXCEPT !.pc = "leave", !.then = "seen", !.held = Holding(s, leases[s])])
     \/ SlotsOf(process[p].checkout) = {} /\ Returns(p, "over")
  /\ UNCHANGED <<leases, lock, starts, allocations>>

\* The process that status showed in the lease is taken out once its number is free or another's
\* and nothing listens on its port.
Reclaim(p, others) ==
  LET stale == {s \in SlotsOf(process[p].checkout) :
                  /\ leases[s].artifact # Nobody
                  /\ leases[s].id = process[p].held.lease.id
                  /\ leases[s].artifact = process[p].held.lease.artifact
                  /\ ~Lives(leases[s].artifact) /\ Free(s, others)}
  IN
  /\ process[p].pc = "inside" /\ process[p].job = "reclaim"
  /\ \/ stale = {} /\ Returns(p, "over")
     \/ \E s \in stale : WritesFile(p, s, [leases[s] EXCEPT !.artifact = Nobody], "over")
  /\ UNCHANGED <<leases, lock, starts, allocations>>

\* A file is replaced, or removed, at one instant.
WriteLease(p) ==
  /\ process[p].pc = "write"
  /\ leases' = [leases EXCEPT ![process[p].slot] = process[p].to]
  /\ Become(p, [process[p] EXCEPT !.pc = "leave", !.slot = 0, !.to = NoLease])
  /\ UNCHANGED <<lock, starts, allocations>>

PortsNext ==
  \/ PersonRemovesLock
  \/ \E p \in Process :
       \/ \E c \in Checkout : StartProcess(p, c)
       \/ \E job \in Job : MakeLock(p, job)
       \/ \E others \in [Slot -> Listener] : Allocate(p, others) \/ Release(p, others) \/ Reclaim(p, others)
       \/ Register(p) \/ Clear(p) \/ ShowLease(p) \/ Listen(p)
       \/ NameLock(p) \/ WriteLease(p) \/ RemoveName(p) \/ RemoveDirectory(p) \/ EndProcess(p)

PortsSpec == PortsInit /\ [][PortsNext]_portVars

-----------------------------------------------------------------------------
\* A checkout has one slot at most, and a server that has registered and lives is the one its
\* checkout's lease names until it clears itself: so no two checkouts serve on one slot, and no checkout has two
\* servers, whoever dies where and whenever a lock is removed by hand.
LeasesHold ==
  /\ \A s, t \in Slot : leases[s].owner = leases[t].owner /\ leases[s] # NoLease => s = t
  /\ \A p \in Process : process[p].stage = "registered" /\ process[p].job # "clear" =>
       leases[process[p].held.slot] = [process[p].held.lease EXCEPT !.artifact = Me(p)]

-----------------------------------------------------------------------------
(* What the checkouts and their servers see of all this. *)
holder == [s \in Slot |-> leases[s].owner]
server == [s \in Slot |-> leases[s].artifact]
home == [i \in Identity |-> IF Lives(i) THEN process[i[1]].checkout ELSE Nobody]

\* A server that has registered, or is about to see that it has.
Registered(me) ==
  \/ me.stage = "registered" /\ me.job # "clear"
  \/ me.then = "registered" /\ me.pc \in {"leave", "rmdir"}
serving == {i \in Identity : Lives(i) /\ Registered(process[i[1]])}

\* The jobs, with their lock, their files and whoever dies over them, are entries in one register,
\* each made at the instant its file is replaced; what was read before is still so then.
Ledger == INSTANCE LeaseLedger WITH Server <- Identity
LeasesSpec == Ledger!RegisterSpec
=============================================================================
