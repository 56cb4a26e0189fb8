-------------------------------- MODULE Metrics --------------------------------
(***************************************************************************)
(* MetricsCollector: what the status page is told of an interface and of   *)
(* the services, a sample at a time, through the rates it derives from two *)
(* counters and the caches that spare it a process per sample.  Processor, *)
(* memory, disk, load and temperature are read afresh by each sample and   *)
(* left out.                                                               *)
(*                                                                         *)
(* A moment is a second; two samples within one are a second apart, which  *)
(* stands for the least interval a rate is divided by.                     *)
(***************************************************************************)
EXTENDS Integers, Sequences, SequencesExt

CONSTANTS
  Units,      \* services, in the order systemctl lists them
  Configs,    \* the parts of the configuration a sample depends on: see below
  SLOW_POLL_TTL,
  SVC_COUNT,  \* services the wire has room for
  MaxTime,    \* bound: the clock
  MaxChanges  \* bound: changes of units, addresses, counters, configuration, and
              \* samples with something that cannot be run or read

\* A configuration shows the interface or not, with an address of a mode, and
\* has a list of units, templates among them, or none (NoFilter).
NoFilter == <<"all">>
Template == "@"
Names == Range(Units)
Statuses == {"active", "failed", "activating", "inactive", "maintenance"}
Addrs == {"v4", "global", "local"}
NoEntry == [at |-> -1]
Known(e) == e # NoEntry

ASSUME MetricsAssumption ==
  /\ Units \in Seq(STRING) /\ IsInjective(Units) /\ Template \notin Names
  /\ \A c \in Configs : c.shown \in BOOLEAN /\ c.mode \in {"V4", "V6", "Auto"}
       /\ (c.filter = NoFilter \/ c.filter \in Seq(Names \union {Template}))
  /\ SLOW_POLL_TTL \in Nat \ {0} /\ SVC_COUNT \in Nat \ {0}
  /\ MaxTime \in Nat /\ MaxChanges \in Nat

VARIABLES
  now,
  units,     \* the state of each unit, "gone" when systemd has not loaded it
  addrs,     \* the interface's addresses
  bytes,     \* its counter
  wanted,    \* the configuration
  prevNet,   \* prev_net of the interface: [at, bytes], or NoEntry
  ifaceIps,  \* iface_ips, by mode: [at, ip], or NoEntry
  services,  \* services_cache: [at, key, list], or NoEntry
  snap,      \* the last sample: [rate, ip, services]
  moved,     \* history: bytes received since the interface was sampled
  restarted, \* history: its counter began anew since
  unread,    \* history: /proc/net/dev could not be read then
  unitsAt,   \* history: when a unit changed or systemctl failed to run
  addrsAt,   \* history: when an address changed or a failed ip told another
  changes

collector == <<prevNet, ifaceIps, services>>
hist == <<moved, restarted, unread, unitsAt, addrsAt>>
metricsVars == <<now, units, addrs, bytes, wanted, collector, snap, hist, changes>>

MetInit ==
  /\ now = 0 /\ bytes = 0 /\ moved = 0 /\ changes = 0
  /\ restarted = FALSE /\ unread = FALSE
  /\ units = [u \in Names |-> "active"] /\ addrs = {"v4", "local"}
  /\ wanted \in Configs
  /\ prevNet = NoEntry /\ services = NoEntry
  /\ ifaceIps = [m \in {"V4", "V6", "Auto"} |-> NoEntry]
  /\ snap = [rate |-> 0, ip |-> "", services |-> <<>>]
  /\ unitsAt = -SLOW_POLL_TTL /\ addrsAt = -SLOW_POLL_TTL

-----------------------------------------------------------------------------
(* The interface                                                           *)

\* read_netdev: there is no counter when /proc/net/dev cannot be read, which
\* collect_ifaces takes for one of zero.
Counter(counted) == IF counted THEN bytes ELSE 0

Rate(p, counted) ==
  (IF Counter(counted) > p.bytes THEN Counter(counted) - p.bytes ELSE 0)
    \div (IF now > p.at THEN now - p.at ELSE 1)

\* What ip tells, a query a family: one that cannot be run tells nothing.
Answers == {addrs, addrs \ {"v4"}, addrs \ {"global", "local"}, {}}

FirstOf(kinds, told) ==
  IF \E k \in 1 .. Len(kinds) : kinds[k] \in told
    THEN kinds[CHOOSE k \in 1 .. Len(kinds) :
                 kinds[k] \in told /\ \A j \in 1 .. k - 1 : kinds[j] \notin told]
    ELSE ""

\* iface_ip: the first address of the families asked for, link-local last.  In
\* Auto the second family is asked when the first has none or fails.
IfaceIp(mode, told) ==
  CASE mode = "V4" -> FirstOf(<<"v4">>, told)
    [] mode = "V6" -> FirstOf(<<"global", "local">>, told)
    [] mode = "Auto" -> FirstOf(<<"v4", "global", "local">>, told)

Fresh(e) == Known(e) /\ now - e.at < SLOW_POLL_TTL

\* Mutant of IfaceIpCached: a hit renews the entry.
IfaceIpCachedRenewed(mode, told) ==
  [at |-> now, ip |-> IF Fresh(ifaceIps[mode]) THEN ifaceIps[mode].ip ELSE IfaceIp(mode, told)]

\* iface_ip_cached: a hit leaves the entry as old as it is; what a failed query
\* told is kept as long as any answer.
IfaceIpCached(mode, told) ==
  IF Fresh(ifaceIps[mode]) THEN ifaceIps[mode] ELSE [at |-> now, ip |-> IfaceIp(mode, told)]

\* A failed query that mattered: the address is not the one to give.
Misled(mode, told) == ~Fresh(ifaceIps[mode]) /\ IfaceIp(mode, told) # IfaceIp(mode, addrs)

\* collect_ifaces: without an interface to show, nothing is touched.
CollectIfaces(counted, told) ==
  IF wanted.shown
    THEN /\ prevNet' = [at |-> now, bytes |-> Counter(counted)]
         /\ ifaceIps' = [ifaceIps EXCEPT ![wanted.mode] = IfaceIpCached(wanted.mode, told)]
         /\ moved' = 0 /\ restarted' = FALSE /\ unread' = ~counted
         /\ addrsAt' = IF Misled(wanted.mode, told) THEN now ELSE addrsAt
    ELSE UNCHANGED <<prevNet, ifaceIps, moved, restarted, unread, addrsAt>>

-----------------------------------------------------------------------------
(* The services                                                            *)

Line(u) == [name |-> u, status |-> units[u]]

RankOf(line) ==
  CASE line.status = "failed" -> 0 [] line.status = "activating" -> 1
    [] line.status = "active" -> 2 [] line.status = "inactive" -> 3 [] OTHER -> 4

AtMost(n, s) == SubSeq(s, 1, IF Len(s) < n THEN Len(s) ELSE n)

\* The elements of s at the positions in K, in their order.
Keep(s, K) ==
  [n \in 1 .. Cardinality(K) |-> s[CHOOSE p \in K : Cardinality({q \in K : q <= p}) = n]]

\* list-units, sorted by status and cut to what the wire has room for.
AllServices ==
  LET lines == [k \in DOMAIN Units |-> Line(Units[k])]
      ofRank(r) == Keep(lines, {k \in DOMAIN lines : lines[k].status # "gone" /\ RankOf(lines[k]) = r})
  IN AtMost(SVC_COUNT, ofRank(0) \o ofRank(1) \o ofRank(2) \o ofRank(3) \o ofRank(4))

\* is-active says "inactive" of a unit that is not loaded.
IsActive(u) == IF units[u] = "gone" THEN "inactive" ELSE units[u]

\* The filter is cut first, then its templates are left out.
Asked(filter) ==
  LET cut == AtMost(SVC_COUNT, filter)
  IN Keep(cut, {k \in DOMAIN cut : cut[k] # Template})

\* is-active answers with a line per unit asked for.
Filtered(filter) ==
  LET asked == Asked(filter)
  IN [k \in DOMAIN asked |-> [name |-> asked[k], status |-> IsActive(asked[k])]]

\* What is left when systemctl cannot be run.
NoAnswer(filter) ==
  LET asked == Asked(filter)
  IN IF filter = NoFilter THEN <<>>
     ELSE [k \in DOMAIN asked |-> [name |-> asked[k], status |-> "maintenance"]]

CollectServices(filter, answered) ==
  IF ~answered THEN NoAnswer(filter)
  ELSE IF filter = NoFilter THEN AllServices
  ELSE Filtered(filter)

\* Mutant of Cached: the filter is no part of the key.
CachedUnkeyed == Fresh(services)

Cached == Fresh(services) /\ services.key = wanted.filter

CollectServicesCached(answered) ==
  IF Cached THEN services
  ELSE [at |-> now, key |-> wanted.filter, list |-> CollectServices(wanted.filter, answered)]

-----------------------------------------------------------------------------
Change == changes < MaxChanges /\ changes' = changes + 1

\* Any of the processes may fail to run, and the counters to be read.
Sample ==
  \E answered, counted \in BOOLEAN, told \in Answers :
    /\ IF (answered \/ Cached) /\ counted /\ told = addrs THEN UNCHANGED changes ELSE Change
    /\ unitsAt' = IF answered \/ Cached THEN unitsAt ELSE now
    /\ services' = CollectServicesCached(answered)
    /\ CollectIfaces(counted, told)
    /\ snap' = [rate |-> IF wanted.shown /\ Known(prevNet) THEN Rate(prevNet, counted) ELSE 0,
                ip |-> IF wanted.shown THEN IfaceIpCached(wanted.mode, told).ip ELSE "",
                services |-> services'.list]
    /\ UNCHANGED <<now, units, addrs, bytes, wanted>>

\* A new session has a new collector.
NewCollector ==
  /\ Known(services)
  /\ prevNet' = NoEntry /\ services' = NoEntry /\ ifaceIps' = [m \in DOMAIN ifaceIps |-> NoEntry]
  /\ UNCHANGED <<now, units, addrs, bytes, wanted, snap, hist, changes>>

-----------------------------------------------------------------------------
(* The world                                                               *)

SetUnit ==
  /\ Change /\ unitsAt' = now
  /\ \E u \in Names : \E s \in {"active", "failed", "gone"} \ {units[u]} :
       units' = [units EXCEPT ![u] = s]
  /\ UNCHANGED <<now, addrs, bytes, wanted, collector, snap, moved, restarted, unread, addrsAt>>

SetAddrs ==
  /\ Change /\ addrsAt' = now
  /\ addrs' \in {{"v4", "local"}, {"global", "local"}, {}} \ {addrs}
  /\ UNCHANGED <<now, units, bytes, wanted, collector, snap, moved, restarted, unread, unitsAt>>

Receive ==
  /\ Change
  /\ bytes' = bytes + 3 /\ moved' = moved + 3
  /\ UNCHANGED <<now, units, addrs, wanted, collector, snap, restarted, unread, unitsAt,
                 addrsAt>>

\* The interface goes, or comes back: either way it counts from zero.
Restart ==
  /\ Change
  /\ bytes' = 0 /\ restarted' = TRUE
  /\ UNCHANGED <<now, units, addrs, wanted, collector, snap, moved, unread, unitsAt,
                 addrsAt>>

Reconfigure ==
  /\ Change
  /\ wanted' \in Configs \ {wanted}
  /\ UNCHANGED <<now, units, addrs, bytes, collector, snap, hist>>

Tick ==
  /\ now < MaxTime /\ now' = now + 1
  /\ UNCHANGED <<units, addrs, bytes, wanted, collector, snap, hist, changes>>

MetNext ==
  \/ Sample \/ NewCollector
  \/ SetUnit \/ SetAddrs \/ Receive \/ Restart \/ Reconfigure \/ Tick

MetSpec == MetInit /\ [][MetNext]_metricsVars

-----------------------------------------------------------------------------
MetTypeOK ==
  /\ now \in 0 .. MaxTime /\ bytes \in Nat /\ moved \in Nat
  /\ restarted \in BOOLEAN /\ unread \in BOOLEAN
  /\ units \in [Names -> Statuses \union {"gone"}] /\ addrs \subseteq Addrs
  /\ wanted \in Configs
  /\ prevNet = NoEntry \/ prevNet \in [at : 0 .. now, bytes : Nat]
  /\ \A m \in DOMAIN ifaceIps :
       ifaceIps[m] = NoEntry \/ ifaceIps[m] \in [at : 0 .. now, ip : Addrs \union {""}]
  /\ services = NoEntry \/ (services.at \in 0 .. now /\ Len(services.list) <= SVC_COUNT)
  /\ Len(snap.services) <= SVC_COUNT /\ snap.rate \in Nat
  /\ unitsAt <= now /\ addrsAt <= now /\ changes \in 0 .. MaxChanges

\* What a sample says of services, if no unit changed and no query failed for as
\* long as a cache entry lives: each line has its own unit's state; a filter's
\* units are there as far as there is room; without a filter a failed unit is
\* left out only for other failed ones.
ServicesTrue ==
  LET list == Range(snap.services)
      there == {l.name : l \in list}
  IN \/ now - unitsAt < SLOW_POLL_TTL
     \/ /\ \A l \in list : l.status = IsActive(l.name)
        /\ IF wanted.filter # NoFilter
             THEN there = Range(AtMost(SVC_COUNT, wanted.filter)) \ {Template}
             ELSE \A u \in Names \ there : units[u] = "failed" =>
                    Len(snap.services) = SVC_COUNT /\ \A l \in list : l.status = "failed"

\* Its address is one the interface has, in the mode that is configured now, if
\* none changed and no failed query misled for as long as a cache entry lives.
AddressTrue ==
  now - addrsAt < SLOW_POLL_TTL \/ ~wanted.shown \/ snap.ip = IfaceIp(wanted.mode, addrs)

\* Its rate is what was received since the interface was sampled before, however
\* long ago that was; and never more, if the counter began anew in between or
\* cannot be read now.  After a sample that could not read it the rate is the
\* whole counter's.
RateTrue ==
  wanted.shown /\ Known(prevNet) =>
    LET seconds == IF now > prevNet.at THEN now - prevNet.at ELSE 1
        most == IF unread /\ ~restarted THEN bytes ELSE moved
    IN /\ snap'.rate * seconds <= most
       /\ unread \/ unread' \/ restarted \/ snap'.rate = moved \div seconds

\* What a sample says of the services is at most a cache entry's life out of date,
\* through a new configuration, failed queries and templates in a filter.
ServicesShown == [][Sample => ServicesTrue']_metricsVars

\* So is what it says of the interface, through its cache by mode, queries that
\* fail, counters that restart or cannot be read, and samples that leave the
\* interface out.
InterfaceShown == [][Sample => AddressTrue' /\ RateTrue]_metricsVars
=============================================================================
