----------------------------- MODULE Admission -----------------------------
(***************************************************************************)
(* What the subscription services promise about who may dial in, however   *)
(* their handlers interleave.  The right to dial in, the customer's status *)
(* and the live subscriptions change together: the right is given along    *)
(* with a live subscription to a customer who is then ACTIVE, and a        *)
(* subscription ends, or the customer stops being ACTIVE, only in a step   *)
(* that takes the right away or gives it for another subscription.  A      *)
(* session begins by the right alone and at its rate; what happens to the  *)
(* right later reaches it by a request of its own, or not at all.          *)
(***************************************************************************)
EXTENDS Naturals

CONSTANTS
  Subs,   \* subscriptions of one customer
  Plans,  \* internet plans, each with its rate
  None    \* no plan

VARIABLES
  live,    \* the subscriptions in ACTIVE or GRACE
  active,  \* the customer is ACTIVE
  grant,   \* the rate at which FreeRADIUS lets the customer in, or None
  speed    \* the rate of the PPPoE session, or None

vars == <<live, active, grant, speed>>

Init ==
  /\ \/ live = {} /\ ~active /\ grant = None
     \/ \E s \in Subs, p \in Plans : live = {s} /\ active /\ grant = p
  /\ speed = None

\* Other subscriptions may be superseded.
Admit(s, p) ==
  /\ s \in live' /\ live' \subseteq live \cup {s}
  /\ active'
  /\ grant' = p
  /\ UNCHANGED speed

\* A subscription ends or is suspended.  Whether the customer keeps its status
\* depends on what a handler takes the others for.
TurnAway(s) ==
  /\ live' = live \ {s}
  /\ active' => active
  /\ grant' = None
  /\ UNCHANGED speed

\* The scan puts in GRACE what it has read as ACTIVE, whatever it is by now.
Linger(s) == live' = live \cup {s} /\ UNCHANGED <<active, grant, speed>>

Retune(p) == grant # None /\ grant' = p /\ UNCHANGED <<live, active, speed>>

Dial == speed = None /\ grant # None /\ speed' = grant /\ UNCHANGED <<live, active, grant>>

Regulate(p) == speed # None /\ speed' = p /\ UNCHANGED <<live, active, grant>>

HangUp == speed # None /\ speed' = None /\ UNCHANGED <<live, active, grant>>

Next ==
  \/ \E s \in Subs : TurnAway(s) \/ Linger(s)
  \/ \E p \in Plans : Retune(p) \/ Regulate(p) \/ \E s \in Subs : Admit(s, p)
  \/ Dial \/ HangUp

Spec == Init /\ [][Next]_vars

\* A customer who may dial in is ACTIVE, has a live subscription and a plan's rate.
AdmittedIsEntitled == grant # None => active /\ live # {} /\ grant \in Plans
=============================================================================
