---------------------------- MODULE RouterFleet ----------------------------
(***************************************************************************)
(* The routers of an organization (MikrotikService) and what follows from  *)
(* them: the NAS rows by which FreeRADIUS knows a router, written in the   *)
(* same transaction, and the chap-secrets file with which a router dials   *)
(* in (SstpVpnService), written after it.  The API may die at any step; on *)
(* its start it writes the file anew from the table.                       *)
(*                                                                         *)
(* Requests come one after another.  They do not enter addresses of the    *)
(* tunnel, empty secrets or another connection method for a router that    *)
(* exists: the console has no field for these.                             *)
(***************************************************************************)
EXTENDS FiniteSets

CONSTANTS
  Routers,      \* ids, never used again
  PublicHosts,  \* hosts an operator may enter
  Pool,         \* addresses 10.200.0.2 and following
  Secrets       \* RADIUS secrets

NoHost == "none"
NoSecret == "none"

ASSUME FleetAssumption ==
  /\ PublicHosts \cap Pool = {} /\ NoSecret \notin Secrets
  /\ {NoHost, "deleted"} \cap (PublicHosts \cup Pool) = {}

VARIABLES
  router,    \* the table of routers
  nas,       \* nas: the secret under each nasname
  dialIn,    \* chap-secrets: <<user, address>>
  current,   \* the request that is handled
  up,        \* the API runs
  unwritten  \* history: a write of the file failed since the API started

fleetVars == <<router, nas, dialIn, current, up, unwritten>>
-----------------------------------------------------------------------------
Hosts == PublicHosts \cup Pool

\* A router of method SSTP_TUNNEL has an address, and a VPN user of its own.
Router == [host : Hosts, vpnIp : Pool \cup {NoHost}, radiusSecret : Secrets]

Unregistered == [host |-> NoHost]
Deleted == [host |-> "deleted"]

NoCall == [op |-> "none"]
Call == [op : {"register", "update", "delete", "addSecret", "removeSecret"},
         id : Routers, row : Router]

FleetTypeOK ==
  /\ router \in [Routers -> Router \cup {Unregistered, Deleted}]
  /\ nas \in [Hosts -> Secrets \cup {NoSecret}]
  /\ dialIn \subseteq Routers \X Pool
  /\ current \in Call \cup {NoCall}
  /\ up \in BOOLEAN /\ unwritten \in BOOLEAN

FleetInit ==
  /\ router = [r \in Routers |-> Unregistered]
  /\ nas = [h \in Hosts |-> NoSecret]
  /\ dialIn = {} /\ current = NoCall /\ up = TRUE /\ unwritten = FALSE
-----------------------------------------------------------------------------
Registered == {r \in Routers : router[r] \notin {Unregistered, Deleted}}

Tunnels == {r \in Registered : router[r].vpnIp # NoHost}

\* @@unique([organizationId, host])
HostTaken(host, r) == \E s \in Registered \ {r} : router[s].host = host

Asked(op, r, row) ==
  /\ up /\ current = NoCall
  /\ current' = [op |-> op, id |-> r, row |-> row]
  /\ UNCHANGED <<router, nas, dialIn, up, unwritten>>

\* allocateNextVpnIp; which of the free addresses comes first does not matter.
FreeAddresses == {a \in Pool : \A s \in Registered : router[s].vpnIp # a}

RegisterRouterRead(r) ==
  /\ router[r] = Unregistered
  /\ \E host \in PublicHosts \cup {NoHost}, address \in FreeAddresses \cup {NoHost},
        secret \in Secrets :
       LET known == IF host # NoHost THEN host ELSE address
       IN /\ known # NoHost /\ ~HostTaken(known, r)
          /\ Asked("register", r, [host |-> known, vpnIp |-> address, radiusSecret |-> secret])

UpdateRouterRead(r) ==
  /\ r \in Registered
  /\ \E host \in PublicHosts \cup {router[r].host}, secret \in Secrets :
       Asked("update", r, [host |-> host, vpnIp |-> router[r].vpnIp, radiusSecret |-> secret])

DeleteRouterRead(r) == r \in Registered /\ Asked("delete", r, router[r])

\* Variant with a fault: a row that is there is left as it is.
CreateMissing(names, secret) ==
  [h \in Hosts |-> IF h \in names /\ nas[h] = NoSecret THEN secret ELSE nas[h]]

\* nas.upsert
Upsert(names, secret) == [h \in Hosts |-> IF h \in names THEN secret ELSE nas[h]]

\* nas.deleteMany
Clear(names) == [h \in Hosts |-> IF h \in names THEN NoSecret ELSE nas[h]]

Write(row, table) ==
  /\ router' = [router EXCEPT ![current.id] = row]
  /\ nas' = table
  /\ UNCHANGED <<dialIn, up, unwritten>>

\* Variant with a fault: the file is written for every router.
ThenAlways(op) == current' = [op |-> op, id |-> current.id, row |-> current.row]

\* Only routers that dial in have a line in the file.
Then(op) ==
  current' = IF current.row.vpnIp = NoHost THEN NoCall
             ELSE [op |-> op, id |-> current.id, row |-> current.row]

RegisterRouterCommit ==
  /\ current.op = "register" /\ ~HostTaken(current.row.host, current.id)
  /\ Write(current.row, Upsert({current.row.host, current.row.vpnIp}, current.row.radiusSecret))
  /\ Then("addSecret")

\* The row of the new host; those of the old host and of the tunnel stay.  A body
\* with neither a host nor a secret leaves all this alone, like a refusal.
UpdateRouterCommit ==
  /\ current.op = "update" /\ ~HostTaken(current.row.host, current.id)
  /\ Write(current.row, Upsert({current.row.host}, current.row.radiusSecret))
  /\ current' = NoCall

DeleteRouterCommit ==
  /\ current.op = "delete"
  /\ Write(Deleted, Clear({current.row.host, current.row.vpnIp}))
  /\ Then("removeSecret")

\* The transaction is refused.
RefuseCall ==
  /\ current.op \in {"register", "update", "delete"}
  /\ current' = NoCall
  /\ UNCHANGED <<router, nas, dialIn, up, unwritten>>
-----------------------------------------------------------------------------
(* chap-secrets *)

\* The file is read, changed and written without a pause in between.
WriteFile(op, lines) ==
  /\ up /\ current.op = op
  /\ \/ dialIn' = lines /\ UNCHANGED unwritten
     \/ unwritten' = TRUE /\ UNCHANGED dialIn   \* logged, and forgotten
  /\ current' = NoCall
  /\ UNCHANGED <<router, nas, up>>

Lines(users) == {line \in dialIn : line[1] \notin users}

SyncChapSecrets ==
  WriteFile("addSecret", Lines({current.id}) \cup {<<current.id, current.row.vpnIp>>})

RemoveChapSecrets == WriteFile("removeSecret", Lines({current.id}))

\* Variant with a fault: lines are added for the routers, none is taken away.
AddAllRouters == dialIn \cup {<<r, router[r].vpnIp>> : r \in Tunnels}

SyncAllRouters == {<<r, router[r].vpnIp>> : r \in Tunnels}

Crash ==
  /\ up /\ up' = FALSE /\ current' = NoCall
  /\ UNCHANGED <<router, nas, dialIn, unwritten>>

\* onModuleInit, before a request is accepted.
Restart ==
  /\ ~up /\ up' = TRUE
  /\ \/ dialIn' = SyncAllRouters /\ unwritten' = FALSE
     \/ unwritten' = TRUE /\ UNCHANGED dialIn
  /\ UNCHANGED <<router, nas, current>>
-----------------------------------------------------------------------------
FleetNext ==
  \/ \E r \in Routers : RegisterRouterRead(r) \/ UpdateRouterRead(r) \/ DeleteRouterRead(r)
  \/ RegisterRouterCommit \/ UpdateRouterCommit \/ DeleteRouterCommit \/ RefuseCall
  \/ SyncChapSecrets \/ RemoveChapSecrets \/ Crash \/ Restart

FleetSpec == FleetInit /\ [][FleetNext]_fleetVars
-----------------------------------------------------------------------------
(* Properties *)

\* Between requests exactly the routers of the table can dial in, each at its own
\* address: whatever a crash between the transaction and the file left undone is
\* made good on the next start, and so is a write that failed.
SecretsMatchRouters ==
  up /\ current = NoCall /\ ~unwritten =>
    /\ dialIn = {<<r, router[r].vpnIp>> : r \in Tunnels}
    /\ \A k, l \in dialIn : k[2] = l[2] => k = l

\* FreeRADIUS finds every router under its host, with its own secret, although
\* rows of hosts that routers have left stay behind and hosts are given again.
NasServesRouters ==
  \A r \in Registered : nas[router[r].host] = router[r].radiusSecret
=============================================================================
