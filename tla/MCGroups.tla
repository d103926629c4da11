------------------------------- MODULE MCGroups -------------------------------
(* Both kinds of groups side by side, as they share no row: the part chosen at the start is
   the one that runs, and the other stays where it began.  The same
   values are calls of both, and the contacts that are made and the operations, so that one
   symmetry serves both.  The
   two data of a registration are alike, so that it may begin with either. *)
EXTENDS MCRegistrationGroupSync, RegularGroupSync

CONSTANT m2 \* another member of the regular group

VARIABLE part

Part == {"registration", "rivals", "slow", "several"}
StillLinked(m) == member[m].state = "LINKED"

GroupsInit ==
  /\ part \in Part /\ Init /\ SyncInit
  /\ source[m1].data = d1
  /\ Here = CASE part = "registration" -> {} [] part = "several" -> {m1, m2} [] OTHER -> {m1}
  /\ part # "slow" => \A m \in Here : StillLinked(m)

OneOperation == Cardinality(DOMAIN operation') <= 1
Busy == {c \in SyncCall : syncCall'[c].pc # "idle"}
Serving == {k \in Clerk : clerk'[k].pc # "idle"}

\* Two operations about one member at one instant, each with its call, beside changes of the
\* person and a link; one operation whose calls outlive its claims, beside the staff's calls
\* about its member; one operation about two members.
RegularPart ==
  /\ SyncNext /\ Cardinality(Busy) <= 2
  /\ \/ /\ part = "rivals" /\ UNCHANGED syncClock
        /\ \A o \in SyncOperation : Cardinality({c \in Busy : syncCall'[c].operation = o}) <= 1
        /\ \A k \in Serving : clerk'[k].kind = "link"
     \/ part = "slow" /\ OneOperation /\ UNCHANGED <<person, list>>
     \/ part = "several" /\ OneOperation /\ UNCHANGED <<syncClock, deeds>>
  /\ UNCHANGED vars

GroupsNext ==
  /\ \/ part = "registration" /\ Next /\ UNCHANGED syncVars
     \/ RegularPart
  /\ UNCHANGED part

GroupsSpec == GroupsInit /\ [][GroupsNext]_<<vars, syncVars, part>>
=============================================================================
