-------------------------- MODULE RouterFleetProofs --------------------------
(***************************************************************************)
(* For any routers, hosts, addresses and secrets: FreeRADIUS knows every   *)
(* router by its own secret, and the dial-in file agrees with the table    *)
(* between requests.                                                       *)
(***************************************************************************)
EXTENDS RouterFleet, TLAPS

HostsDiffer == \A r, s \in Registered : router[r].host = router[s].host => r = s

AddressesDiffer == \A r, s \in Tunnels : router[r].vpnIp = router[s].vpnIp => r = s

\* An address of the tunnel is the host of no router but the one it was given to.
HostIsOwn(row) == row.host \in Pool => row.host = row.vpnIp

\* What a request knows of the table when it commits, or writes the file.
CallSound ==
  /\ current.op = "register" =>
       /\ router[current.id] = Unregistered
       /\ HostIsOwn(current.row)
       /\ current.row.vpnIp \in FreeAddresses \cup {NoHost}
  /\ current.op = "update" =>
       /\ current.id \in Registered
       /\ HostIsOwn(current.row)
       /\ current.row.vpnIp = router[current.id].vpnIp
  /\ current.op \in {"delete", "addSecret"} =>
       /\ current.id \in Registered
       /\ current.row = router[current.id]
  /\ current.op = "addSecret" => current.id \in Tunnels
  /\ current.op = "removeSecret" => router[current.id] = Deleted

\* The lines the file should have, and those it has while it waits to be written.
FileSound ==
  up /\ ~unwritten =>
    /\ current.op \notin {"addSecret", "removeSecret"} => dialIn = SyncAllRouters
    /\ current.op = "addSecret" => Lines({current.id}) = SyncAllRouters \ {<<current.id, current.row.vpnIp>>}
    /\ current.op = "removeSecret" => Lines({current.id}) = SyncAllRouters

IInv ==
  /\ FleetTypeOK
  /\ HostsDiffer /\ AddressesDiffer
  /\ \A r \in Registered : HostIsOwn(router[r])
  /\ NasServesRouters
  /\ current # NoCall => up /\ CallSound
  /\ FileSound
-----------------------------------------------------------------------------
\* A row is neither of the two marks for rows that are not there.
LEMMA RowIsThere ==
  ASSUME NEW row \in Router
  PROVE  row.host \in Hosts /\ row.vpnIp \in Pool \cup {NoHost} /\ row # Unregistered /\ row # Deleted
<1>1. row.host \in Hosts /\ row.vpnIp \in Pool \cup {NoHost}
  BY DEF Router
<1>2. Unregistered.host = NoHost /\ Deleted.host = "deleted"
  BY DEF Unregistered, Deleted
<1>. QED  BY <1>1, <1>2, FleetAssumption DEF Hosts

LEMMA RegisteredRows ==
  ASSUME FleetTypeOK, NEW r \in Registered
  PROVE  r \in Routers /\ router[r] \in Router
BY DEF FleetTypeOK, Registered

LEMMA Initially == FleetInit => IInv
<1>. SUFFICES ASSUME FleetInit PROVE IInv
  OBVIOUS
<1>1. Registered = {} /\ Tunnels = {} /\ SyncAllRouters = {}
  BY DEF FleetInit, Registered, Tunnels, SyncAllRouters
<1>2. FleetTypeOK
  BY DEF FleetInit, FleetTypeOK
<1>3. HostsDiffer /\ AddressesDiffer /\ NasServesRouters /\ \A r \in Registered : HostIsOwn(router[r])
  BY <1>1 DEF HostsDiffer, AddressesDiffer, NasServesRouters
<1>4. FileSound
  BY <1>1 DEF FleetInit, FileSound, NoCall
<1>. QED  BY <1>2, <1>3, <1>4 DEF IInv, FleetInit

\* The calls are records of their type; no call is NoCall.
LEMMA CallRecord ==
  ASSUME NEW op \in {"register", "update", "delete", "addSecret", "removeSecret"},
         NEW id \in Routers, NEW row \in Router
  PROVE  [op |-> op, id |-> id, row |-> row] \in Call
BY DEF Call

LEMMA CallIsOne ==
  ASSUME FleetTypeOK, current # NoCall
  PROVE  current \in Call /\ current.id \in Routers /\ current.row \in Router
BY DEF FleetTypeOK, Call

LEMMA NoCallOp == NoCall.op = "none"
BY DEF NoCall
-----------------------------------------------------------------------------
\* A request that has only read.
LEMMA AskedStep ==
  ASSUME IInv, NEW op \in {"register", "update", "delete"}, NEW r \in Routers, NEW row \in Router,
         Asked(op, r, row),
         op = "register" => router[r] = Unregistered /\ HostIsOwn(row) /\ row.vpnIp \in FreeAddresses \cup {NoHost},
         op = "update" => r \in Registered /\ HostIsOwn(row) /\ row.vpnIp = router[r].vpnIp,
         op = "delete" => r \in Registered /\ row = router[r]
  PROVE  IInv'
<1>. DEFINE call == [op |-> op, id |-> r, row |-> row]
<1>1. /\ current' = call /\ UNCHANGED <<router, nas, dialIn, up, unwritten>>
      /\ up /\ current = NoCall
  BY DEF Asked
<1>2. call \in Call /\ call.op = op /\ call.id = r /\ call.row = row
  BY CallRecord
<1>. HIDE DEF call
<1>3. /\ Registered' = Registered /\ Tunnels' = Tunnels /\ SyncAllRouters' = SyncAllRouters
      /\ FreeAddresses' = FreeAddresses
  BY <1>1 DEF Registered, Tunnels, SyncAllRouters, FreeAddresses
<1>4. FleetTypeOK'
  BY <1>1, <1>2 DEF IInv, FleetTypeOK
<1>5. (HostsDiffer /\ AddressesDiffer /\ NasServesRouters /\ \A s \in Registered : HostIsOwn(router[s]))'
  BY <1>1, <1>3 DEF IInv, HostsDiffer, AddressesDiffer, NasServesRouters, HostIsOwn
<1>6. CallSound'
  BY <1>1, <1>2, <1>3 DEF CallSound, HostIsOwn
<1>7. FileSound'
  BY <1>1, <1>2, <1>3, NoCallOp DEF IInv, FileSound
<1>. QED  BY <1>1, <1>4, <1>5, <1>6, <1>7 DEF IInv
-----------------------------------------------------------------------------
\* A request that ends with nothing changed, and the writes of the file.
LEMMA RefuseStep == IInv /\ RefuseCall => IInv'
<1>. SUFFICES ASSUME IInv, RefuseCall PROVE IInv'
  OBVIOUS
<1>1. current' = NoCall /\ UNCHANGED <<router, nas, dialIn, up, unwritten>>
  BY DEF RefuseCall
<1>2. /\ Registered' = Registered /\ Tunnels' = Tunnels /\ SyncAllRouters' = SyncAllRouters
  BY <1>1 DEF Registered, Tunnels, SyncAllRouters
<1>3. FleetTypeOK'
  BY <1>1 DEF IInv, FleetTypeOK
<1>4. (HostsDiffer /\ AddressesDiffer /\ NasServesRouters /\ \A s \in Registered : HostIsOwn(router[s]))'
  BY <1>1, <1>2 DEF IInv, HostsDiffer, AddressesDiffer, NasServesRouters, HostIsOwn
<1>5. FileSound'
  BY <1>1, <1>2, NoCallOp DEF IInv, FileSound, RefuseCall
<1>. QED  BY <1>1, <1>3, <1>4, <1>5 DEF IInv

\* A line of a tunnel is a user and an address.
LEMMA LinesOfTunnels ==
  ASSUME FleetTypeOK
  PROVE  SyncAllRouters \subseteq Routers \X Pool
<1>. SUFFICES ASSUME NEW r \in Tunnels PROVE <<r, router[r].vpnIp>> \in Routers \X Pool
  BY DEF SyncAllRouters
<1>1. r \in Registered /\ router[r].vpnIp # NoHost
  BY DEF Tunnels
<1>2. r \in Routers /\ router[r] \in Router
  BY <1>1, RegisteredRows
<1>. QED  BY <1>1, <1>2, RowIsThere

\* What does not touch the tables: the file, the process and the call.
LEMMA FileStep ==
  ASSUME IInv, UNCHANGED <<router, nas>>, current' = NoCall,
         dialIn' \in SUBSET (Routers \X Pool), up' \in BOOLEAN, unwritten' \in BOOLEAN,
         up' /\ ~unwritten' => dialIn' = SyncAllRouters
  PROVE  IInv'
<1>1. /\ Registered' = Registered /\ Tunnels' = Tunnels /\ SyncAllRouters' = SyncAllRouters
  BY DEF Registered, Tunnels, SyncAllRouters
<1>2. FleetTypeOK'
  BY DEF IInv, FleetTypeOK
<1>3. (HostsDiffer /\ AddressesDiffer /\ NasServesRouters /\ \A s \in Registered : HostIsOwn(router[s]))'
  BY <1>1 DEF IInv, HostsDiffer, AddressesDiffer, NasServesRouters, HostIsOwn
<1>4. FileSound'
  BY <1>1, NoCallOp DEF FileSound
<1>. QED  BY <1>2, <1>3, <1>4 DEF IInv

LEMMA SyncStep == IInv /\ SyncChapSecrets => IInv'
<1>. SUFFICES ASSUME IInv, SyncChapSecrets PROVE IInv'
  OBVIOUS
<1>. DEFINE line == <<current.id, current.row.vpnIp>>
            lines == Lines({current.id}) \cup {line}
<1>1. /\ up /\ current.op = "addSecret" /\ current' = NoCall /\ UNCHANGED <<router, nas, up>>
      /\ \/ dialIn' = lines /\ UNCHANGED unwritten
         \/ unwritten' = TRUE /\ UNCHANGED dialIn
  BY DEF SyncChapSecrets, WriteFile
<1>2. current # NoCall
  BY <1>1, NoCallOp
<1>3. current.id \in Tunnels /\ current.row = router[current.id]
  BY <1>1, <1>2 DEF IInv, CallSound
<1>4. line \in SyncAllRouters
  BY <1>3 DEF SyncAllRouters
<1>5. FleetTypeOK /\ SyncAllRouters \subseteq Routers \X Pool
  BY LinesOfTunnels DEF IInv
<1>6. up /\ ~unwritten => Lines({current.id}) = SyncAllRouters \ {line}
  BY <1>1 DEF IInv, FileSound
<1>7. up /\ ~unwritten => lines = SyncAllRouters
  BY <1>4, <1>6
<1>8. lines \subseteq Routers \X Pool /\ dialIn \subseteq Routers \X Pool
  BY <1>4, <1>5 DEF Lines, FleetTypeOK
<1>. HIDE DEF line, lines
<1>9. dialIn' \in SUBSET (Routers \X Pool) /\ unwritten' \in BOOLEAN /\ up' \in BOOLEAN
  BY <1>1, <1>5, <1>8 DEF FleetTypeOK
<1>10. up' /\ ~unwritten' => dialIn' = SyncAllRouters
  BY <1>1, <1>7
<1>. QED  BY <1>1, <1>9, <1>10, FileStep

LEMMA RemoveStep == IInv /\ RemoveChapSecrets => IInv'
<1>. SUFFICES ASSUME IInv, RemoveChapSecrets PROVE IInv'
  OBVIOUS
<1>. DEFINE lines == Lines({current.id})
<1>1. /\ up /\ current.op = "removeSecret" /\ current' = NoCall /\ UNCHANGED <<router, nas, up>>
      /\ \/ dialIn' = lines /\ UNCHANGED unwritten
         \/ unwritten' = TRUE /\ UNCHANGED dialIn
  BY DEF RemoveChapSecrets, WriteFile
<1>2. up /\ ~unwritten => lines = SyncAllRouters
  BY <1>1 DEF IInv, FileSound
<1>3. lines \subseteq Routers \X Pool /\ dialIn \subseteq Routers \X Pool
  BY DEF Lines, FleetTypeOK, IInv
<1>. HIDE DEF lines
<1>4. dialIn' \in SUBSET (Routers \X Pool) /\ unwritten' \in BOOLEAN /\ up' \in BOOLEAN
  BY <1>1, <1>3 DEF FleetTypeOK, IInv
<1>5. up' /\ ~unwritten' => dialIn' = SyncAllRouters
  BY <1>1, <1>2
<1>. QED  BY <1>1, <1>4, <1>5, FileStep

LEMMA ProcessStep == IInv /\ (Crash \/ Restart) => IInv'
<1>1. ASSUME IInv, Crash PROVE IInv'
  <2>1. dialIn' \in SUBSET (Routers \X Pool) /\ unwritten' \in BOOLEAN /\ up' \in BOOLEAN
    BY <1>1 DEF FleetTypeOK, IInv, Crash
  <2>. QED  BY <1>1, <2>1, FileStep DEF Crash
<1>2. ASSUME IInv, Restart PROVE IInv'
  <2>1. SyncAllRouters \subseteq Routers \X Pool
    BY <1>2, LinesOfTunnels DEF IInv
  <2>2. dialIn' \in SUBSET (Routers \X Pool) /\ unwritten' \in BOOLEAN /\ up' \in BOOLEAN
    BY <1>2, <2>1 DEF FleetTypeOK, IInv, Restart
  <2>3. current = NoCall
    BY <1>2 DEF IInv, Restart
  <2>4. up' /\ ~unwritten' => dialIn' = SyncAllRouters
    BY <1>2 DEF Restart
  <2>. QED  BY <1>2, <2>2, <2>3, <2>4, FileStep DEF Restart
<1>. QED  BY <1>1, <1>2
-----------------------------------------------------------------------------
(* The transactions *)

\* What a row that is written makes of the sets derived from the table.
LEMMA Rows ==
  ASSUME FleetTypeOK, NEW id \in Routers, NEW new \in Router \cup {Deleted},
         router' = [router EXCEPT ![id] = new]
  PROVE  /\ router' \in [Routers -> Router \cup {Unregistered, Deleted}]
         /\ router'[id] = new
         /\ \A r \in Routers \ {id} : router'[r] = router[r]
         /\ new \in Router => Registered' = Registered \cup {id}
         /\ new = Deleted => Registered' = Registered \ {id}
<1>1. /\ router' \in [Routers -> Router \cup {Unregistered, Deleted}]
      /\ router'[id] = new
      /\ \A r \in Routers \ {id} : router'[r] = router[r]
  BY DEF FleetTypeOK
<1>2. new \in Router => new # Unregistered /\ new # Deleted
  BY RowIsThere
<1>. QED  BY <1>1, <1>2 DEF Registered

\* The lines of the file, by their user.
LEMMA LinesByUser ==
  ASSUME NEW line
  PROVE  line \in SyncAllRouters <=>
           \E r \in Registered : router[r].vpnIp # NoHost /\ line = <<r, router[r].vpnIp>>
BY DEF SyncAllRouters, Tunnels

LEMMA RegisterStep == IInv /\ RegisterRouterCommit => IInv'
<1>. SUFFICES ASSUME IInv, RegisterRouterCommit PROVE IInv'
  OBVIOUS
<1>1. PICK id, row : id = current.id /\ row = current.row
  OBVIOUS
<1>2. /\ current.op = "register" /\ ~HostTaken(row.host, id)
      /\ router' = [router EXCEPT ![id] = row]
      /\ nas' = Upsert({row.host, row.vpnIp}, row.radiusSecret)
      /\ UNCHANGED <<dialIn, up, unwritten>>
      /\ current' = IF row.vpnIp = NoHost THEN NoCall ELSE [op |-> "addSecret", id |-> id, row |-> row]
  BY <1>1 DEF RegisterRouterCommit, Write, Then
<1>3. current # NoCall
  BY <1>2, NoCallOp
<1>4. /\ FleetTypeOK /\ up /\ HostsDiffer /\ AddressesDiffer /\ NasServesRouters
      /\ current \in Call /\ id \in Routers /\ row \in Router
      /\ \A r \in Registered : HostIsOwn(router[r])
  BY <1>1, <1>3, CallIsOne DEF IInv
<1>5. /\ router[id] = Unregistered /\ HostIsOwn(row)
      /\ row.vpnIp # NoHost => \A s \in Registered : router[s].vpnIp # row.vpnIp
  <2>1. router[id] = Unregistered /\ HostIsOwn(row) /\ row.vpnIp \in FreeAddresses \cup {NoHost}
    BY <1>1, <1>2, <1>3 DEF IInv, CallSound
  <2>. QED  BY <2>1 DEF FreeAddresses
<1>6. id \notin Registered
  BY <1>5 DEF Registered
<1>7. /\ router' \in [Routers -> Router \cup {Unregistered, Deleted}] /\ router'[id] = row
      /\ \A r \in Registered : router'[r] = router[r]
      /\ Registered' = Registered \cup {id}
  <2>1. \A r \in Registered : r \in Routers \ {id}
    BY <1>6 DEF Registered
  <2>. QED  BY <1>2, <1>4, <2>1, Rows
<1>8. /\ row.host \in Hosts /\ row.vpnIp \in Pool \cup {NoHost} /\ row.radiusSecret \in Secrets
      /\ \A r \in Registered : router[r].host \in Hosts /\ router[r].vpnIp \in Pool \cup {NoHost}
  BY <1>4, RegisteredRows, RowIsThere DEF Router
<1>9. \A r \in Registered : router[r].host \notin {row.host, row.vpnIp}
  <2>. SUFFICES ASSUME NEW r \in Registered PROVE router[r].host \notin {row.host, row.vpnIp}
    OBVIOUS
  <2>1. router[r].host # row.host
    BY <1>2, <1>6 DEF HostTaken
  <2>2. router[r].host # row.vpnIp
    BY <1>4, <1>5, <1>8, FleetAssumption DEF HostIsOwn, Hosts
  <2>. QED  BY <2>1, <2>2
<1>10. FleetTypeOK'
  <2>1. nas' \in [Hosts -> Secrets \cup {NoSecret}]
    BY <1>2, <1>4, <1>8 DEF FleetTypeOK, Upsert
  <2>2. current' \in Call \cup {NoCall}
    BY <1>2, <1>4 DEF Call
  <2>. QED  BY <1>2, <1>4, <1>7, <2>1, <2>2 DEF FleetTypeOK
<1>11. HostsDiffer'
  BY <1>4, <1>7, <1>9 DEF HostsDiffer
<1>12. AddressesDiffer'
  BY <1>4, <1>5, <1>7 DEF AddressesDiffer, Tunnels
<1>13. (\A r \in Registered : HostIsOwn(router[r]))'
  BY <1>4, <1>5, <1>7 DEF HostIsOwn
<1>14. NasServesRouters'
  BY <1>2, <1>4, <1>7, <1>8, <1>9 DEF NasServesRouters, Upsert
<1>15. /\ row.vpnIp = NoHost => SyncAllRouters' = SyncAllRouters
       /\ row.vpnIp # NoHost => SyncAllRouters' = SyncAllRouters \cup {<<id, row.vpnIp>>}
       /\ \A line \in SyncAllRouters : line[1] # id
  <2>1. \A line : line \in SyncAllRouters' <=>
                    \E r \in Registered' : router'[r].vpnIp # NoHost /\ line = <<r, router'[r].vpnIp>>
    BY DEF SyncAllRouters, Tunnels
  <2>. QED  BY <1>6, <1>7, <2>1, LinesByUser
<1>16. up' /\ ~unwritten' => dialIn' = SyncAllRouters
  BY <1>2 DEF IInv, FileSound
<1>17. CASE row.vpnIp = NoHost
  <2>1. current' = NoCall
    BY <1>2, <1>17
  <2>2. FileSound'
    BY <1>15, <1>16, <1>17, <2>1, NoCallOp DEF FileSound
  <2>. QED  BY <1>10, <1>11, <1>12, <1>13, <1>14, <2>1, <2>2 DEF IInv
<1>18. CASE row.vpnIp # NoHost
  <2>1. current' = [op |-> "addSecret", id |-> id, row |-> row]
    BY <1>2, <1>18
  <2>2. current'.op = "addSecret" /\ current'.id = id /\ current'.row = row
    BY <1>1, <1>4, <2>1 DEF Call
  <2>3. CallSound'
    BY <1>7, <1>18, <2>2 DEF CallSound, Tunnels
  <2>4. up' /\ ~unwritten' => Lines({id})' = SyncAllRouters' \ {<<id, row.vpnIp>>}
    <3>. SUFFICES ASSUME up', ~unwritten' PROVE Lines({id})' = SyncAllRouters' \ {<<id, row.vpnIp>>}
      OBVIOUS
    <3>1. Lines({id})' = SyncAllRouters
      BY <1>15, <1>16 DEF Lines
    <3>2. <<id, row.vpnIp>> \notin SyncAllRouters
      BY <1>15
    <3>. QED  BY <1>15, <1>18, <3>1, <3>2
  <2>5. FileSound'
    <3>1. current.id' = id /\ current.row' = row /\ current.op' = "addSecret"
      BY <2>2
    <3>. QED  BY <2>4, <3>1 DEF FileSound, Lines
  <2>6. up'
    BY <1>2, <1>4
  <2>. QED  BY <1>10, <1>11, <1>12, <1>13, <1>14, <2>3, <2>5, <2>6 DEF IInv
<1>. QED  BY <1>17, <1>18

LEMMA UpdateStep == IInv /\ UpdateRouterCommit => IInv'
<1>. SUFFICES ASSUME IInv, UpdateRouterCommit PROVE IInv'
  OBVIOUS
<1>1. PICK id, row : id = current.id /\ row = current.row
  OBVIOUS
<1>2. /\ current.op = "update" /\ ~HostTaken(row.host, id)
      /\ router' = [router EXCEPT ![id] = row]
      /\ nas' = Upsert({row.host}, row.radiusSecret)
      /\ UNCHANGED <<dialIn, up, unwritten>> /\ current' = NoCall
  BY <1>1 DEF UpdateRouterCommit, Write
<1>3. current # NoCall
  BY <1>2, NoCallOp
<1>4. /\ FleetTypeOK /\ HostsDiffer /\ AddressesDiffer /\ NasServesRouters
      /\ id \in Routers /\ row \in Router
      /\ \A r \in Registered : HostIsOwn(router[r])
  BY <1>1, <1>3, CallIsOne DEF IInv
<1>5. id \in Registered /\ HostIsOwn(row) /\ row.vpnIp = router[id].vpnIp
  BY <1>1, <1>2, <1>3 DEF IInv, CallSound
<1>6. /\ router' \in [Routers -> Router \cup {Unregistered, Deleted}] /\ router'[id] = row
      /\ \A r \in Registered \ {id} : router'[r] = router[r]
      /\ Registered' = Registered
  <2>1. /\ router' \in [Routers -> Router \cup {Unregistered, Deleted}] /\ router'[id] = row
        /\ \A r \in Routers \ {id} : router'[r] = router[r]
        /\ Registered' = Registered \cup {id}
    BY <1>2, <1>4, Rows
  <2>2. Registered \subseteq Routers
    BY DEF Registered
  <2>. QED  BY <1>5, <2>1, <2>2
<1>7. \A r \in Registered : router'[r].vpnIp = router[r].vpnIp
  BY <1>5, <1>6
<1>8. Tunnels' = Tunnels /\ SyncAllRouters' = SyncAllRouters
  BY <1>6, <1>7 DEF Tunnels, SyncAllRouters
<1>9. row.host \in Hosts /\ row.radiusSecret \in Secrets /\ \A r \in Registered : router[r].host \in Hosts
  BY <1>4, RegisteredRows, RowIsThere DEF Router
<1>10. \A r \in Registered \ {id} : router[r].host # row.host
  BY <1>2 DEF HostTaken
<1>11. FleetTypeOK'
  <2>1. nas' \in [Hosts -> Secrets \cup {NoSecret}]
    BY <1>2, <1>4, <1>9 DEF FleetTypeOK, Upsert
  <2>. QED  BY <1>2, <1>4, <1>6, <2>1 DEF FleetTypeOK
<1>12. HostsDiffer'
  BY <1>4, <1>6, <1>10 DEF HostsDiffer
<1>13. AddressesDiffer'
  <2>1. Tunnels \subseteq Registered
    BY DEF Tunnels
  <2>. QED  BY <1>4, <1>7, <1>8, <2>1 DEF AddressesDiffer
<1>14. (\A r \in Registered : HostIsOwn(router[r]))'
  BY <1>4, <1>5, <1>6 DEF HostIsOwn
<1>15. NasServesRouters'
  BY <1>2, <1>4, <1>6, <1>9, <1>10 DEF NasServesRouters, Upsert
<1>16. FileSound'
  BY <1>2, <1>8, NoCallOp DEF IInv, FileSound
<1>. QED  BY <1>2, <1>11, <1>12, <1>13, <1>14, <1>15, <1>16 DEF IInv

LEMMA DeleteStep == IInv /\ DeleteRouterCommit => IInv'
<1>. SUFFICES ASSUME IInv, DeleteRouterCommit PROVE IInv'
  OBVIOUS
<1>1. PICK id, row : id = current.id /\ row = current.row
  OBVIOUS
<1>2. /\ current.op = "delete"
      /\ router' = [router EXCEPT ![id] = Deleted]
      /\ nas' = Clear({row.host, row.vpnIp})
      /\ UNCHANGED <<dialIn, up, unwritten>>
      /\ current' = IF row.vpnIp = NoHost THEN NoCall ELSE [op |-> "removeSecret", id |-> id, row |-> row]
  BY <1>1 DEF DeleteRouterCommit, Write, Then
<1>3. current # NoCall
  BY <1>2, NoCallOp
<1>4. /\ FleetTypeOK /\ up /\ HostsDiffer /\ AddressesDiffer /\ NasServesRouters
      /\ current \in Call /\ id \in Routers /\ row \in Router
      /\ \A r \in Registered : HostIsOwn(router[r])
  BY <1>1, <1>3, CallIsOne DEF IInv
<1>5. id \in Registered /\ row = router[id]
  BY <1>1, <1>2, <1>3 DEF IInv, CallSound
<1>6. /\ router' \in [Routers -> Router \cup {Unregistered, Deleted}] /\ router'[id] = Deleted
      /\ \A r \in Registered \ {id} : router'[r] = router[r]
      /\ Registered' = Registered \ {id}
  <2>1. Registered \subseteq Routers
    BY DEF Registered
  <2>. QED  BY <1>2, <1>4, <2>1, Rows
<1>7. \A r \in Registered : router[r].host \in Hosts /\ router[r].vpnIp \in Pool \cup {NoHost}
  BY <1>4, RegisteredRows, RowIsThere
<1>8. \A r \in Registered \ {id} : router[r].host \notin {row.host, row.vpnIp}
  <2>. SUFFICES ASSUME NEW r \in Registered \ {id} PROVE router[r].host \notin {row.host, row.vpnIp}
    OBVIOUS
  <2>1. router[r].host # row.host
    BY <1>4, <1>5 DEF HostsDiffer
  <2>2. router[r].host # row.vpnIp
    BY <1>4, <1>5, <1>7, FleetAssumption DEF HostIsOwn, Hosts, AddressesDiffer, Tunnels
  <2>. QED  BY <2>1, <2>2
<1>9. FleetTypeOK'
  <2>1. nas' \in [Hosts -> Secrets \cup {NoSecret}]
    BY <1>2, <1>4 DEF FleetTypeOK, Clear
  <2>2. current' \in Call \cup {NoCall}
    BY <1>2, <1>4 DEF Call
  <2>. QED  BY <1>2, <1>4, <1>6, <2>1, <2>2 DEF FleetTypeOK
<1>10. HostsDiffer' /\ AddressesDiffer' /\ (\A r \in Registered : HostIsOwn(router[r]))'
  BY <1>4, <1>6 DEF HostsDiffer, AddressesDiffer, Tunnels, HostIsOwn
<1>11. NasServesRouters'
  BY <1>2, <1>4, <1>6, <1>7, <1>8 DEF NasServesRouters, Clear
<1>12. SyncAllRouters' = {line \in SyncAllRouters : line[1] # id}
  <2>1. \A line : line \in SyncAllRouters' <=>
                    \E r \in Registered' : router'[r].vpnIp # NoHost /\ line = <<r, router'[r].vpnIp>>
    BY DEF SyncAllRouters, Tunnels
  <2>. QED  BY <1>6, <2>1, LinesByUser
<1>13. up' /\ ~unwritten' => dialIn' = SyncAllRouters
  BY <1>2 DEF IInv, FileSound
<1>14. CASE row.vpnIp = NoHost
  <2>1. current' = NoCall
    BY <1>2, <1>14
  <2>2. \A line \in SyncAllRouters : line[1] # id
    BY <1>5, <1>14, LinesByUser
  <2>3. FileSound'
    BY <1>12, <1>13, <2>1, <2>2, NoCallOp DEF FileSound
  <2>. QED  BY <1>9, <1>10, <1>11, <2>1, <2>3 DEF IInv
<1>15. CASE row.vpnIp # NoHost
  <2>1. current' = [op |-> "removeSecret", id |-> id, row |-> row]
    BY <1>2, <1>15
  <2>2. current'.op = "removeSecret" /\ current'.id = id
    BY <1>1, <1>4, <2>1 DEF Call
  <2>3. CallSound'
    BY <1>6, <2>2 DEF CallSound
  <2>4. up' /\ ~unwritten' => Lines({id})' = SyncAllRouters'
    BY <1>12, <1>13 DEF Lines
  <2>5. FileSound'
    <3>1. current.id' = id /\ current.op' = "removeSecret"
      BY <2>2
    <3>. QED  BY <2>4, <3>1 DEF FileSound, Lines
  <2>6. up'
    BY <1>2, <1>4
  <2>. QED  BY <1>9, <1>10, <1>11, <2>3, <2>5, <2>6 DEF IInv
<1>. QED  BY <1>14, <1>15
-----------------------------------------------------------------------------
LEMMA Step == IInv /\ [FleetNext]_fleetVars => IInv'
<1>. SUFFICES ASSUME IInv, [FleetNext]_fleetVars PROVE IInv'
  OBVIOUS
<1>1. ASSUME NEW r \in Routers, RegisterRouterRead(r) PROVE IInv'
  <2>1. PICK host \in PublicHosts \cup {NoHost}, address \in FreeAddresses \cup {NoHost},
             secret \in Secrets :
          LET known == IF host # NoHost THEN host ELSE address
          IN  /\ known # NoHost /\ router[r] = Unregistered
              /\ Asked("register", r, [host |-> known, vpnIp |-> address, radiusSecret |-> secret])
    BY <1>1 DEF RegisterRouterRead
  <2>. DEFINE known == IF host # NoHost THEN host ELSE address
              row == [host |-> known, vpnIp |-> address, radiusSecret |-> secret]
  <2>2. known # NoHost /\ router[r] = Unregistered /\ Asked("register", r, row)
    BY <2>1
  <2>3. address \in Pool \cup {NoHost} /\ known \in {host, address}
    BY DEF FreeAddresses
  <2>. HIDE DEF known
  <2>4. row \in Router /\ row.vpnIp = address /\ row.host = known
    BY <2>2, <2>3 DEF Router, Hosts
  <2>5. known \in Pool => known = address
    BY <2>2, <2>3, FleetAssumption
  <2>. HIDE DEF row
  <2>6. HostIsOwn(row)
    BY <2>4, <2>5 DEF HostIsOwn
  <2>. QED  BY <2>2, <2>4, <2>6, AskedStep
<1>2. ASSUME NEW r \in Routers, UpdateRouterRead(r) PROVE IInv'
  <2>1. PICK host \in PublicHosts \cup {router[r].host}, secret \in Secrets :
          /\ r \in Registered
          /\ Asked("update", r, [host |-> host, vpnIp |-> router[r].vpnIp, radiusSecret |-> secret])
    BY <1>2 DEF UpdateRouterRead
  <2>. DEFINE row == [host |-> host, vpnIp |-> router[r].vpnIp, radiusSecret |-> secret]
  <2>2. router[r] \in Router /\ HostIsOwn(router[r])
    BY <2>1, RegisteredRows DEF IInv
  <2>3. row \in Router /\ row.vpnIp = router[r].vpnIp /\ row.host = host
    BY <2>2 DEF Router, Hosts
  <2>. HIDE DEF row
  <2>4. HostIsOwn(row) /\ Asked("update", r, row)
    BY <2>1, <2>2, <2>3, FleetAssumption DEF HostIsOwn, row
  <2>. QED  BY <2>1, <2>3, <2>4, AskedStep
<1>3. ASSUME NEW r \in Routers, DeleteRouterRead(r) PROVE IInv'
  <2>1. r \in Registered /\ Asked("delete", r, router[r])
    BY <1>3 DEF DeleteRouterRead
  <2>2. router[r] \in Router
    BY <2>1, RegisteredRows DEF IInv
  <2>3. PICK row \in Router : row = router[r]
    BY <2>2
  <2>. QED  BY <2>1, <2>3, AskedStep
<1>4. CASE UNCHANGED fleetVars
  <2>1. Registered' = Registered /\ Tunnels' = Tunnels /\ SyncAllRouters' = SyncAllRouters
        /\ FreeAddresses' = FreeAddresses
    BY <1>4 DEF fleetVars, Registered, Tunnels, SyncAllRouters, FreeAddresses
  <2>. QED  BY <1>4, <2>1 DEF fleetVars, IInv, FleetTypeOK, HostsDiffer, AddressesDiffer, HostIsOwn,
              NasServesRouters, CallSound, FileSound, Lines
<1>. QED
  BY <1>1, <1>2, <1>3, <1>4, RefuseStep, SyncStep, RemoveStep, ProcessStep, RegisterStep,
     UpdateStep, DeleteStep DEF FleetNext

\* The inductive invariant holds in every reachable state.
THEOREM Invariance == FleetSpec => []IInv
BY Initially, Step, PTL DEF FleetSpec

\* registerRouter, updateRouter, deleteRouter and the start of the API keep every
\* table and the file in its type.
THEOREM TypeCorrect == FleetSpec => []FleetTypeOK
<1>1. IInv => FleetTypeOK
  BY DEF IInv
<1>. QED  BY Invariance, <1>1, PTL

\* The NAS row of every router's host carries that router's secret, however hosts
\* are left, given again and cleared.
THEOREM NasServes == FleetSpec => []NasServesRouters
<1>1. IInv => NasServesRouters
  BY DEF IInv
<1>. QED  BY Invariance, <1>1, PTL

\* Between requests the dial-in file has exactly the lines of the routers in the
\* table, one router to an address, unless a write has failed since the start.
THEOREM SecretsMatch == FleetSpec => []SecretsMatchRouters
<1>1. IInv => SecretsMatchRouters
  <2>. SUFFICES ASSUME IInv, up, current = NoCall, ~unwritten
                PROVE  /\ dialIn = {<<r, router[r].vpnIp>> : r \in Tunnels}
                       /\ \A k, l \in dialIn : k[2] = l[2] => k = l
    BY DEF SecretsMatchRouters
  <2>1. dialIn = SyncAllRouters
    BY NoCallOp DEF IInv, FileSound
  <2>. QED  BY <2>1 DEF SyncAllRouters, IInv, AddressesDiffer
<1>. QED  BY Invariance, <1>1, PTL
=============================================================================
