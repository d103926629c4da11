---------------------------- MODULE PasswordResets ----------------------------
(***************************************************************************)
(* The public form that asks for a password reset                          *)
(* (lib/server/password-reset-requests.ts): what is stored is limited by   *)
(* counts that are taken before the row is created, in no transaction.     *)
(* What an administrator then makes of a request is in AdminAccess; no row *)
(* goes away but by its age.                                               *)
(***************************************************************************)
EXTENDS Naturals, FiniteSets

CONSTANTS
  Email,
  ResetCall,    \* requests the server works on at one time
  DuplicateWindow, GlobalWindow, ResetRetention, \* the three durations
  WindowLimit, TotalLimit, \* PASSWORD_RESET_GLOBAL_WINDOW_LIMIT, PASSWORD_RESET_TOTAL_LIMIT
  MaxResetTime, \* bound on the clock
  NoEmail

ASSUME ResetLimitsAssumption ==
  /\ {DuplicateWindow, GlobalWindow, ResetRetention, MaxResetTime} \subseteq Nat
  /\ {WindowLimit, TotalLimit} \subseteq Nat \ {0}
  /\ NoEmail \notin Email /\ IsFiniteSet(ResetCall)

VARIABLES
  resetClock,
  resets,   \* the rows
  resetCall \* what each request holds

resetVars == <<resetClock, resets, resetCall>>

Question == {"duplicate", "window", "total"}
ResetRow == [email : Email, at : Nat,
             number : Nat] \* tells the rows of one address and one instant apart
ResetCallState ==
  [pc : {"idle", "purge", "count", "create"}, email : Email \cup {NoEmail}, now : Nat,
   open : SUBSET Question, \* queries without an answer
   admitted : BOOLEAN]     \* no answer so far has refused the request

ResetsTypeOK ==
  /\ resetClock \in 0..MaxResetTime
  /\ resets \subseteq ResetRow /\ IsFiniteSet(resets)
  /\ resetCall \in [ResetCall -> ResetCallState]

-----------------------------------------------------------------------------
NoReset == [pc |-> "idle", email |-> NoEmail, now |-> 0, open |-> {}, admitted |-> TRUE]

ResetsInit ==
  /\ resetClock = 0 /\ resets = {}
  /\ resetCall = [c \in ResetCall |-> NoReset]

BecomeReset(c, state) == resetCall' = [resetCall EXCEPT ![c] = state]
Since(t) == {r \in resets : r.at >= t}
Twins(email, t) == {r \in resets : r.email = email /\ r.at = t}
Ago(t, duration) == IF t > duration THEN t - duration ELSE 0

\* The clock is read once, as the request comes in.
AskReset(c, email) ==
  /\ resetCall[c].pc = "idle"
  /\ BecomeReset(c, [NoReset EXCEPT !.pc = "purge", !.email = email, !.now = resetClock])
  /\ UNCHANGED <<resetClock, resets>>

Purge(c) ==
  /\ resetCall[c].pc = "purge"
  /\ resets' = Since(Ago(resetCall[c].now, ResetRetention))
  /\ BecomeReset(c, [resetCall[c] EXCEPT !.pc = "count", !.open = Question])
  /\ UNCHANGED resetClock

\* Mutant of Admitted: the limits are one too high.
AdmittedAtLimit(c, question) ==
  LET call == resetCall[c] IN
  CASE question = "duplicate" ->
         \A r \in Since(Ago(call.now, DuplicateWindow)) : r.email # call.email
    [] question = "window" -> Cardinality(Since(Ago(call.now, GlobalWindow))) <= WindowLimit
    [] question = "total" -> Cardinality(resets) <= TotalLimit

Admitted(c, question) ==
  LET call == resetCall[c] IN
  CASE question = "duplicate" ->
         \A r \in Since(Ago(call.now, DuplicateWindow)) : r.email # call.email
    [] question = "window" -> Cardinality(Since(Ago(call.now, GlobalWindow))) < WindowLimit
    [] question = "total" -> Cardinality(resets) < TotalLimit

\* The three queries run side by side; the last answer decides.
Answer(c, question) ==
  LET call == resetCall[c]
      admitted == call.admitted /\ Admitted(c, question)
  IN
  /\ call.pc = "count" /\ question \in call.open
  /\ BecomeReset(c,
       IF call.open # {question}
       THEN [call EXCEPT !.open = @ \ {question}, !.admitted = admitted]
       ELSE IF admitted THEN [call EXCEPT !.pc = "create", !.open = {}] ELSE NoReset)
  /\ UNCHANGED <<resetClock, resets>>

\* The row takes the clock of the database.
CreateReset(c) ==
  /\ resetCall[c].pc = "create"
  /\ resets' = resets \cup {[email |-> resetCall[c].email, at |-> resetClock,
                              number |-> Cardinality(Twins(resetCall[c].email, resetClock))]}
  /\ BecomeReset(c, NoReset)
  /\ UNCHANGED resetClock

ResetFails(c) ==
  /\ resetCall[c].pc # "idle"
  /\ BecomeReset(c, NoReset)
  /\ UNCHANGED <<resetClock, resets>>

ResetTick ==
  /\ resetClock < MaxResetTime /\ resetClock' = resetClock + 1
  /\ UNCHANGED <<resets, resetCall>>

ResetsNext ==
  \/ \E c \in ResetCall :
       \/ \E email \in Email : AskReset(c, email)
       \/ Purge(c)
       \/ \E question \in Question : Answer(c, question)
       \/ CreateReset(c) \/ ResetFails(c)
  \/ ResetTick

ResetsSpec == ResetsInit /\ [][ResetsNext]_resetVars

-----------------------------------------------------------------------------
\* What the public form stores stays bounded, whatever requests pass the counts together:
\* the rows that are kept, and those of any recent window, exceed the limit by less than the
\* number of requests the server works on at one time.
Extra == Cardinality(ResetCall)
ResetsBounded ==
  /\ Cardinality(resets) < TotalLimit + Extra
  /\ Cardinality(Since(Ago(resetClock, GlobalWindow))) < WindowLimit + Extra
=============================================================================
