------------------------------ MODULE LeaseLedger ------------------------------
(***************************************************************************)
(* What the leases of the ports promise the checkouts and their servers:   *)
(* as if there were one register, every entry of which is made, signed,    *)
(* left and withdrawn at one instant, and no file, lock or number used     *)
(* again.  A slot is one checkout's and a checkout has one slot; a server  *)
(* enters its own checkout's slot, where no living server is, and from     *)
(* then on, until it begins to leave, nobody removes it.                   *)
(* PortAllocation.tla implements this.                                     *)
(***************************************************************************)
CONSTANTS Checkout, Slot, Server, Nobody

VARIABLES
  holder,  \* the checkout a slot is leased to
  server,  \* the server named in a slot's lease
  home,    \* the checkout a living server was started in, Nobody for the others
  serving  \* the servers that have entered and not begun to leave

register == <<holder, server, home, serving>>

RegisterInit ==
  /\ holder = [s \in Slot |-> Nobody]
  /\ server = [s \in Slot |-> Nobody]
  /\ home = [i \in Server |-> Nobody]
  /\ serving = {}

Living == {i \in Server : home[i] # Nobody}

\* Whoever starts is new: no lease names it.
Start(i, c) ==
  /\ i \notin Living /\ \A s \in Slot : server[s] # i
  /\ home' = [home EXCEPT ![i] = c]
  /\ UNCHANGED <<holder, server, serving>>

End(i) ==
  /\ home' = [home EXCEPT ![i] = Nobody]
  /\ serving' = serving \ {i}
  /\ UNCHANGED <<holder, server>>

Grant(s, c) ==
  /\ holder[s] = Nobody /\ \A t \in Slot : holder[t] # c
  /\ holder' = [holder EXCEPT ![s] = c]
  /\ UNCHANGED <<server, home, serving>>

Enter(s, i) ==
  /\ i \in Living /\ holder[s] = home[i]
  /\ server[s] \notin Living
  /\ server' = [server EXCEPT ![s] = i]
  /\ serving' = serving \cup {i}
  /\ UNCHANGED <<holder, home>>

Retire(i) == serving' = serving \ {i} /\ UNCHANGED <<holder, server, home>>

\* A name goes when its server does not serve; before that server has ended, it goes by itself.
Leave(s) ==
  /\ server[s] \notin serving
  /\ server' = [server EXCEPT ![s] = Nobody]
  /\ UNCHANGED <<holder, home, serving>>

\* A lease with a living server in it, serving or not, stays.
Withdraw(s) ==
  /\ server[s] \notin Living
  /\ holder' = [holder EXCEPT ![s] = Nobody]
  /\ server' = [server EXCEPT ![s] = Nobody]
  /\ UNCHANGED <<home, serving>>

RegisterNext ==
  \/ \E i \in Server : End(i) \/ Retire(i) \/ \E c \in Checkout : Start(i, c)
  \/ \E s \in Slot :
       \/ Leave(s) \/ Withdraw(s)
       \/ \E c \in Checkout : Grant(s, c)
       \/ \E i \in Server : Enter(s, i)

RegisterSpec == RegisterInit /\ [][RegisterNext]_register

\* Who serves is named in a slot of its checkout, and no other server of that checkout serves.
OneServerEach ==
  /\ \A i \in serving : home[i] # Nobody /\ \E s \in Slot : holder[s] = home[i] /\ server[s] = i
  /\ \A i, j \in serving : home[i] = home[j] => i = j
=============================================================================
