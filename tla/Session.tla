------------------------------- MODULE Session -------------------------------
(***************************************************************************)
(* What the driver promises about its connection, without locks, program    *)
(* counters, failures or buffers: one session after another, record         *)
(* handlers one at a time, none of which sees a session begin, and data     *)
(* published to records that never go back to an earlier session.           *)
(* AdsDriver implements this.                                               *)
(***************************************************************************)
EXTENDS Integers

CONSTANTS
  Vars,     \* the ADS variables
  Clients   \* the threads that process records

VARIABLES
  session,  \* the open session, or 0
  opened,   \* sessions opened so far
  running,  \* the threads inside a handler
  pub,      \* per variable: session of the data last published, or 0
  gone      \* the driver has been destroyed

vars == <<session, opened, running, pub, gone>>

Init ==
  /\ session = 0 /\ opened = 0
  /\ running = {} /\ pub = [v \in Vars |-> 0]
  /\ gone = FALSE

\* A session begins when the one before has ended and no handler runs.
Open ==
  /\ ~gone /\ session = 0 /\ running = {}
  /\ opened' = opened + 1 /\ session' = opened'
  /\ UNCHANGED <<running, pub, gone>>

\* A session may end while a handler runs.
Close ==
  /\ session # 0
  /\ session' = 0
  /\ UNCHANGED <<opened, running, pub, gone>>

Enter(c) ==
  /\ running = {}
  /\ running' = {c}
  /\ UNCHANGED <<session, opened, pub, gone>>

Leave(c) ==
  /\ c \in running
  /\ running' = running \ {c}
  /\ UNCHANGED <<session, opened, pub, gone>>

\* In a session and while no handler runs.  A record gets an alarm or data that
\* are not of an earlier session than what it shows.
Publish ==
  /\ session # 0 /\ running = {}
  /\ pub' \in [Vars -> 0 .. opened]
  /\ \A v \in Vars : pub'[v] = 0 \/ pub'[v] >= pub[v]
  /\ UNCHANGED <<session, opened, running, gone>>

\* The driver does not go away with a session open.
Terminate ==
  /\ ~gone /\ session = 0
  /\ gone' = TRUE
  /\ UNCHANGED <<session, opened, running, pub>>

Next == \/ Open \/ Close \/ Publish \/ Terminate
        \/ \E c \in Clients : Enter(c) \/ Leave(c)

Spec == Init /\ [][Next]_vars

=============================================================================
