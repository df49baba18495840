----------------------------- MODULE MCDelivery -----------------------------
(***************************************************************************)
(* The two ways the platform talks to a router, checked in one run: the    *)
(* CoA datagrams of the worker and the API connections of the client.      *)
(* They share nothing, so a behaviour keeps to one of them (focus) and the *)
(* other stays where it began: their state spaces add up.                  *)
(***************************************************************************)
EXTENDS CoaDelivery, RouterSession

VARIABLE focus

OnCoa == focus = "coa"

OnClient == focus = "client" /\ ~access /\ radacct = {}

MCInit == Init /\ SessionInit /\ (OnCoa \/ OnClient)

MCNext ==
  \/ focus = "coa" /\ Next /\ UNCHANGED <<focus, sessionVars>>
  \/ focus = "client" /\ SessionNext /\ UNCHANGED <<focus, vars>>

\* Where the focus is not, nothing is enabled, and fairness asks for nothing.
MCSpec == MCInit /\ [][MCNext]_<<focus, vars, sessionVars>> /\ Fairness /\ SessionFairness
=============================================================================
