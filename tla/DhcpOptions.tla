---------------------------- MODULE DhcpOptions ----------------------------
(***************************************************************************)
(* pkg/util/network.go: from the DHCP options of a Subnet, a string, to    *)
(* the configuration the allocator stores.  A string is a sequence of      *)
(* words and of the characters the parser knows; a word is whatever stands *)
(* between those.                                                          *)
(***************************************************************************)
EXTENDS Integers, SequencesExt

CONSTANTS
  Addresses,   \* family -> the words that are addresses of the family
  Numbers,     \* the words that are numbers, with their values
  Resolved,    \* domain names, with the addresses the local network knows for them
  Subnets,     \* specifications: first gateway, first CIDR's mask or None, MTU
  None,
  Entries, MaxEntries   \* what users write, and how much of it

Marks == {"=", ",", ";", "{", "}", " "}
Words == UNION {Addresses[f] : f \in {"v4", "v6"}} \cup DOMAIN Numbers \cup DOMAIN Resolved

ASSUME WordsAssumption == Words \cap Marks = {}
ASSUME EntriesAssumption ==
  Entries \subseteq [key : {"lease_time", "mtu", "router", "ntp_server", "dns_server"}, items : Seq(Words),
                     braces : BOOLEAN, mark : {",", ";"}, blank : BOOLEAN]

VARIABLES subnet, written   \* what a user writes: a specification and its options

vars == <<subnet, written>>

(***************************************************************************)
(* ParseDHCPOptions.                                                       *)
(***************************************************************************)
Scan == [in |-> "gap", depth |-> 0, key |-> <<>>, value |-> <<>>, options |-> <<>>]

Store(s) ==
  [s EXCEPT !.options = [k \in DOMAIN @ \cup {s.key} |-> IF k = s.key THEN s.value ELSE @[k]],
            !.key = <<>>, !.value = <<>>, !.in = "gap"]

Deeper(s, c) == [s EXCEPT !.depth = IF c = "{" THEN @ + 1 ELSE IF c = "}" THEN @ - 1 ELSE @]

\* A character that is part of a key or a value, or begins a key.
Keep(s, c) ==
  IF s.in = "value" THEN [s EXCEPT !.value = Append(@, c)]
  ELSE [s EXCEPT !.key = Append(@, c), !.in = "key"]

\* A slip in the loop over the characters: braces do not protect what they enclose.
StepIgnoresBraces(state, c) ==
  LET s == Deeper(state, c) IN
  CASE c = "=" -> IF s.in = "key" THEN [s EXCEPT !.in = "value"] ELSE s
    [] c = "," -> IF s.in = "value" THEN Store(s) ELSE s
    [] OTHER -> Keep(s, c)

\* One character of the loop.
Step(state, c) ==
  LET s == Deeper(state, c) IN
  CASE s.depth = 0 /\ c = "=" -> IF s.in = "key" THEN [s EXCEPT !.in = "value"] ELSE s
    [] s.depth = 0 /\ c = "," -> IF s.in = "value" THEN Store(s) ELSE s
    [] OTHER -> Keep(s, c)

\* strings.Trim(v, "{}"), for a value that begins and ends with braces.
TrimBraces(v) ==
  LET inner == {i \in DOMAIN v : v[i] \notin {"{", "}"}} IN
  IF v = <<>> \/ Head(v) # "{" \/ Last(v) # "}" THEN v
  ELSE IF inner = {} THEN <<>> ELSE SubSeq(v, Min(inner), Max(inner))

ParseDHCPOptions(text) ==
  LET end == FoldLeft(Step, Scan, text)
      options == (IF end.in = "value" THEN Store(end) ELSE end).options
  IN [k \in DOMAIN options |-> ReplaceAll(TrimBraces(options[k]), ";", ",")]

\* handlerDHCPV4 and handlerDHCPV6 take the blanks out first.
Options(text) == ParseDHCPOptions(SelectSeq(text, LAMBDA c : c # " "))

(***************************************************************************)
(* BuildOVNSubnetByIPV4Options and BuildOVNSubnetByIPV6Options.            *)
(***************************************************************************)
Value(options, key) == IF <<key>> \in DOMAIN options THEN options[<<key>>] ELSE <<>>

\* strings.Split(v, ","), as far as its parts are single words.
Items(options, key) == SelectSeq(Value(options, key), LAMBDA c : c # ",")

Number(options, key) ==
  LET v == Value(options, key) IN IF Len(v) = 1 /\ v[1] \in DOMAIN Numbers THEN Numbers[v[1]] ELSE None

\* A slip: zero is taken for a lease time.
LeaseTimeOrZero(options) ==
  LET n == Number(options, "lease_time") IN IF n = None \/ n < 0 THEN 3600 ELSE n

LeaseTime(options) ==
  LET n == Number(options, "lease_time") IN IF n = None \/ n <= 0 THEN 3600 ELSE n

OfFamily(f, words) == SelectSeq(words, LAMBDA w : w \in Addresses[f])

Routers(net, options) ==
  LET given == OfFamily("v4", Items(options, "router")) IN
  IF given = <<>> THEN OfFamily("v4", <<net.gateway>>) ELSE given

\* An item that is no address is looked up as a domain name.
NTP(options) ==
  FlattenSeq([i \in DOMAIN Items(options, "ntp_server") |->
    LET w == Items(options, "ntp_server")[i] IN
    IF w \in Addresses["v4"] THEN <<w>>
    ELSE IF w \in DOMAIN Resolved THEN OfFamily("v4", Resolved[w]) ELSE <<>>])

BuildV4(net, options) ==
  [mtu |-> IF Number(options, "mtu") \in Nat THEN Number(options, "mtu") ELSE net.mtu,
   lease |-> LeaseTime(options), routers |-> Routers(net, options), ntp |-> NTP(options),
   mask |-> IF net.mask = None THEN 24 ELSE net.mask,
   dns |-> OfFamily("v4", Items(options, "dns_server"))]

\* The NTP servers are looked up and not stored.
BuildV6(options) ==
  [lease |-> LeaseTime(options), ntp |-> <<>>, dns |-> OfFamily("v6", Items(options, "dns_server"))]

(***************************************************************************)
(* What users write: key=item or key={item;item}, joined by commas.        *)
(***************************************************************************)
Join(seqs, mark) == FoldLeft(LAMBDA text, s : IF text = <<>> THEN s ELSE text \o <<mark>> \o s, <<>>, seqs)

Render(e) ==
  LET value == Join([i \in DOMAIN e.items |-> <<e.items[i]>>], e.mark)
      blank == IF e.blank THEN <<" ">> ELSE <<>>
  IN blank \o <<e.key>> \o blank \o <<"=">> \o blank
       \o (IF e.braces THEN <<"{">> \o blank \o value \o <<"}">> ELSE value)

Text == Join([i \in DOMAIN written |-> Render(written[i])], ",")

OptionsInit == subnet \in Subnets /\ written = <<>>

Write(e) ==
  /\ Len(written) < MaxEntries
  /\ \A i \in DOMAIN written : written[i].key # e.key
  /\ written' = Append(written, e)
  /\ UNCHANGED subnet

OptionsSpec == OptionsInit /\ [][\E e \in Entries : Write(e)]_vars

(***************************************************************************)
(* Properties.                                                             *)
(***************************************************************************)
Keys == {written[i].key : i \in DOMAIN written}
Given(key) == UNION {ToSet(written[i].items) : i \in {j \in DOMAIN written : written[j].key = key}}

\* What is parsed is what was written: each key once with its items in order, joined
\* by commas, wherever a user put blanks, braces and either separator, so that the
\* comma between items is never taken for the one between options.
ParsedAsWritten ==
  /\ DOMAIN Options(Text) = {<<k>> : k \in Keys}
  /\ \A i \in DOMAIN written :
       Items(Options(Text), written[i].key) = written[i].items

\* The configuration built has what was written and is of its family: the servers
\* and routers of the option and no others, a positive lease time, the written one
\* if it is positive, a router if the subnet has a gateway.
BuiltAsWritten ==
  LET v4 == BuildV4(subnet, Options(Text))
      v6 == BuildV6(Options(Text))
  IN
  /\ ToSet(v4.dns) = Given("dns_server") \cap Addresses["v4"]
  /\ ToSet(v6.dns) = Given("dns_server") \cap Addresses["v6"]
  /\ ToSet(v4.ntp) = Addresses["v4"] \cap (Given("ntp_server")
                        \cup UNION {ToSet(Resolved[n]) : n \in Given("ntp_server") \cap DOMAIN Resolved})
  /\ ToSet(v4.routers) = (IF Given("router") \cap Addresses["v4"] # {} THEN Given("router")
                         ELSE {subnet.gateway}) \cap Addresses["v4"]
  /\ v4.lease = v6.lease /\ v4.lease > 0
  /\ \A w \in Given("lease_time") \cap DOMAIN Numbers : Numbers[w] > 0 => v4.lease = Numbers[w]
=============================================================================
