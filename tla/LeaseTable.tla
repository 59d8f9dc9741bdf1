----------------------------- MODULE LeaseTable -----------------------------
(***************************************************************************)
(* What the lease store of one DHCP allocator promises, apart from its     *)
(* four indexes: a pod carries MAC addresses and sits on subnets, a MAC    *)
(* address carried by somebody has exactly one lease, the last one bound,  *)
(* and a released pod takes away only what no other pod still carries.     *)
(* Several pods carry one MAC address while a virtual machine migrates.    *)
(***************************************************************************)
EXTENDS GoMaps

CONSTANTS Pods, Macs, Lease   \* every lease is a record with a field net

VARIABLES carries,   \* pairs <<p, m>>: pod p carries MAC address m
          joins,     \* pairs <<p, s>>: pod p has had a lease on subnet s
          table      \* the lease of each MAC address

tvars == <<carries, joins, table>>

TableInit == carries = {} /\ joins = {} /\ table = EmptyMap

Bind(p, m, l) ==
  /\ carries' = carries \cup {<<p, m>>}
  /\ joins' = joins \cup {<<p, l.net>>}
  /\ table' = Put(table, m, l)

Release(p) ==
  /\ carries' = {c \in carries : c[1] # p}
  /\ joins' = {j \in joins : j[1] # p}
  /\ table' = Restrict(table, {m \in DOMAIN table : \E q \in Pods : <<q, m>> \in carries'})

TableNext == \/ \E p \in Pods, m \in Macs, l \in Lease : Bind(p, m, l)
             \/ \E p \in Pods : Release(p)

TableSpec == TableInit /\ [][TableNext]_tvars
=============================================================================
