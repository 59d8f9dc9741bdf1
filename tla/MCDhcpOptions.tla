--------------------------- MODULE MCDhcpOptions ---------------------------
EXTENDS DhcpOptions

MCAddresses == ("v4" :> {"10.0.0.1", "10.0.0.2"}) @@ ("v6" :> {"fd00::1"})
MCNumbers == ("0" :> 0) @@ ("600" :> 600) @@ ("-5" :> -5)
MCResolved == "pool.ntp.org" :> <<"fd00::1", "10.0.0.2">>
MCSubnets == [gateway : {"10.0.0.1", "fd00::1"}, mask : {16, None}, mtu : {1400}]

\* The three ways of writing a list.
Entry(keys, lists) ==
  {e \in [key : keys, items : lists, braces : BOOLEAN, mark : {",", ";"}, blank : BOOLEAN] :
     IF e.mark = "," THEN e.braces /\ e.blank ELSE ~e.blank}

\* Numbers and what is none; addresses of both families and a name.
MCEntries ==
  {e \in Entry({"lease_time", "mtu"}, {<<"0">>, <<"600">>, <<"-5">>, <<"pool.ntp.org">>}) : ~e.braces}
  \cup Entry({"router", "dns_server", "ntp_server"},
         {<<"10.0.0.2">>, <<"fd00::1", "10.0.0.1">>, <<"pool.ntp.org", "10.0.0.2">>})
=============================================================================
