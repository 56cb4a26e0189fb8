------------------------------ MODULE HostProofs ------------------------------
(***************************************************************************)
(* What the daemon learns of the machine it runs on.  A board pinned by    *)
(* its serial is the one opened, for any boards, serials and node numbers  *)
(* and any number of them plugged and unplugged.  What a sample says of an *)
(* interface and of the services is true, for any units, configurations,   *)
(* changes, failed queries and lives of caches.  Then the five parts that  *)
(* MCParts puts side by side: each behaves as it does alone.               *)
(***************************************************************************)
EXTENDS MCParts, ConfigFileProofs, FrameRxProofs, FiniteSetTheorems, SequenceTheorems, TLAPS

-----------------------------------------------------------------------------
(* Names                                                                   *)

\* Types, and no two boards behind one node.
WorldOK ==
  /\ nodeOf \in [Boards -> Nodes \union {Gone}]
  /\ links \in [LinkNames -> Nodes \union {Gone}]
  /\ pending \subseteq Boards
  /\ \A b, c \in Plugged : nodeOf[b] = nodeOf[c] => b = c

\* The paths are natural numbers, and a link is no node.
LEMMA Paths ==
  /\ LinkNames \subseteq Nat /\ Nodes \subseteq Nat /\ LinkNames \intersect Nodes = {}
  /\ Gone \notin Nodes /\ Gone \notin LinkNames
BY DiscoverAssumption DEF LinkNames, Buddy, Serials, NoSerial, Nodes, Gone

\* A board is listed by its node or by a link that leads there.
LEMMA ListedName ==
  ASSUME WorldOK, NEW b \in Plugged
  PROVE  ListedAs(b) = nodeOf[b] \/ (ListedAs(b) \in LinkNames /\ links[ListedAs(b)] = nodeOf[b])
<1> DEFINE names == {l \in LinkNames : links[l] = nodeOf[b]} \union {nodeOf[b]}
<1>1. nodeOf[b] \in Nodes
  BY DEF WorldOK, Plugged
<1>2. names \in SUBSET Nat /\ names # {}
  BY <1>1, Paths
<1>3. \E p \in names : \A q \in names : p <= q
  BY <1>2, LeastExists
<1>4. ListedAs(b) \in names
  BY <1>3 DEF ListedAs
<1>. QED  BY <1>4

\* Such a name is a path, and the board is all there is behind it.
LEMMA ListedLeadsThere ==
  ASSUME WorldOK, NEW b \in Plugged
  PROVE  ListedAs(b) \in LinkNames \union Nodes /\ Behind(ListedAs(b)) = {b}
<1>1. nodeOf[b] \in Nodes
  BY DEF WorldOK, Plugged
<1>2. Canonical(ListedAs(b)) = nodeOf[b] /\ ListedAs(b) \in LinkNames \union Nodes
  BY <1>1, ListedName, Paths DEF Canonical
<1>. QED  BY <1>2 DEF Behind, WorldOK

\* Of any boards that are plugged in one goes before the others.
LEMMA FirstListed ==
  ASSUME WorldOK, NEW bs \in SUBSET Plugged, bs # {}
  PROVE  \E b \in bs : First(bs) = ListedAs(b)
<1> DEFINE esp == {b \in bs : Ids[b] = "esp"}
           best == IF esp = {} THEN bs ELSE esp
           paths == {ListedAs(b) : b \in best}
<1>1. \A b \in bs : ListedAs(b) \in Nat
  BY ListedLeadsThere, Paths
<1>2. paths \in SUBSET Nat /\ paths # {}
  BY <1>1
<1>3. PICK p \in paths : \A q \in paths : p <= q
  BY <1>2, LeastExists
<1>4. PICK b \in best : p = ListedAs(b)
  OBVIOUS
<1>5. \A c \in best : ListedAs(b) <= ListedAs(c)
  BY <1>3, <1>4
<1>6. b \in bs /\ \A c \in bs : Before(b, c)
  BY <1>4, <1>5 DEF Before
<1>. QED  BY <1>6 DEF First

-----------------------------------------------------------------------------
(* The world                                                               *)

\* Once udev has handled a board, the link of its serial leads to its node.
LinksTrue ==
  \A b \in Boards : Serial[b] # NoSerial =>
    /\ Ids[b] # "esp" => links[Serial[b]] = Gone
    /\ Ids[b] = "esp" /\ b \notin pending => links[Serial[b]] = nodeOf[b]

\* At first boards are where they are, and links lead to them or nowhere.
LEMMA WorldInit == DevInit => WorldOK /\ LinksTrue
BY DEF DevInit, WorldOK, LinksTrue, Plugged, LinkNames, Serials

\* Only plugging, unplugging and udev touch it, and each keeps it in order.
LEMMA WorldNext ==
  ASSUME WorldOK, LinksTrue, [DevNext]_devicesVars
  PROVE  WorldOK' /\ LinksTrue'
<1>1. CASE UNCHANGED <<nodeOf, links, pending>>
  BY <1>1 DEF WorldOK, LinksTrue, Plugged
<1>2. CASE Attach
  <2>1. PICK b \in Boards \ Plugged : \E n \in Ports[b] \ {nodeOf[c] : c \in Boards} :
          nodeOf' = [nodeOf EXCEPT ![b] = n] /\ pending' = pending \union {b}
    BY <1>2 DEF Attach
  <2>2. PICK n \in Ports[b] \ {nodeOf[c] : c \in Boards} :
          nodeOf' = [nodeOf EXCEPT ![b] = n] /\ pending' = pending \union {b}
    BY <2>1
  <2>3. n \in Nodes /\ links' = links
    BY <1>2, <2>2 DEF Attach, Nodes
  <2>4. WorldOK'
    BY <2>2, <2>3 DEF WorldOK, Plugged
  <2>. QED  BY <2>2, <2>3, <2>4 DEF LinksTrue, WorldOK
<1>3. CASE Detach
  <2>1. PICK b \in Plugged : nodeOf' = [nodeOf EXCEPT ![b] = Gone] /\ pending' = pending \union {b}
    BY <1>3 DEF Detach
  <2>2. links' = links
    BY <1>3 DEF Detach
  <2>3. WorldOK'
    BY <2>1, <2>2 DEF WorldOK, Plugged
  <2>. QED  BY <2>1, <2>2, <2>3 DEF LinksTrue, WorldOK, Plugged
<1>4. CASE Udev
  <2>1. PICK b \in pending, t \in Nodes \union {Gone} :
          /\ pending' = pending \ {b}
          /\ links' = [l \in LinkNames |-> IF l = Buddy THEN t
                         ELSE IF l = Serial[b] /\ Ids[b] = "esp" THEN nodeOf[b] ELSE links[l]]
    BY <1>4 DEF Udev, WorldOK, Matching, Plugged
  <2>2. nodeOf' = nodeOf
    BY <1>4 DEF Udev
  <2>3. \A c \in Boards : Serial[c] # NoSerial => Serial[c] \in LinkNames \ {Buddy}
    BY DEF LinkNames, Serials, NoSerial, Buddy
  <2>4. \A c \in Boards : Serial[c] # NoSerial /\ Serial[c] = Serial[b] => c = b
    BY <2>1, DiscoverAssumption DEF WorldOK, NoSerial
  <2>5. links' \in [LinkNames -> Nodes \union {Gone}]
    BY <2>1 DEF WorldOK
  <2>6. WorldOK'
    BY <2>1, <2>2, <2>5 DEF WorldOK, Plugged
  <2>. QED  BY <2>1, <2>2, <2>3, <2>4, <2>6 DEF LinksTrue, WorldOK
<1>. QED
  BY <1>1, <1>2, <1>3, <1>4
  DEF DevNext, DaemonStep, Setup, Run, Resolve, Open, OpenFails, SessionEnds, devicesVars, world

-----------------------------------------------------------------------------
(* Types                                                                   *)

\* A path that pick_device returns is one of /dev, the configured one, or none.
LEMMA PickedType ==
  ASSUME WorldOK
  PROVE  PickDevice \in LinkNames \union Nodes \union {Gone, settings.path}
<1>1. \A bs \in SUBSET Plugged : bs # {} => First(bs) \in LinkNames \union Nodes
  BY FirstListed, ListedLeadsThere
<1>2. Pinned \subseteq Plugged /\ \A i : Matching(i) \subseteq Plugged
  BY DEF Pinned, Pool, Matching
<1>3. Buddy \in LinkNames
  BY DEF LinkNames
<1>4. Unpinned \in LinkNames \union Nodes \union {Gone}
  BY <1>1, <1>2, <1>3 DEF Unpinned
<1>. QED  BY <1>1, <1>2, <1>4 DEF PickDevice

\* Types, with what keeps dev a path when the settings change: it is none then.
TypeInv == DevTypeOK /\ WorldOK /\ LinksTrue /\ (phase = "off" => dev = Gone)

\* The daemon starts with the settings it was given.
LEMMA TypeInit == DevInit => TypeInv
<1>. SUFFICES ASSUME DevInit PROVE TypeInv
  OBVIOUS
<1>1. settings \in [path : Int, ids : {"esp", "other", "any"}, serial : Nat, user : Users]
  BY DiscoverAssumption DEF DevInit
<1>. QED  BY <1>1, WorldInit DEF DevInit, DevTypeOK, TypeInv

\* And every step of it and of the world keeps the types.
LEMMA TypeNext == TypeInv /\ [DevNext]_devicesVars => TypeInv'
<1>. SUFFICES ASSUME TypeInv, [DevNext]_devicesVars PROVE TypeInv'
  OBVIOUS
<1>0. WorldOK' /\ LinksTrue'
  BY WorldNext DEF TypeInv
<1>1. CASE Setup
  <2>1. PICK b \in Plugged, u \in Users :
          settings' = [path |-> ListedAs(b), ids |-> Ids[b], serial |-> Serial[b], user |-> u]
    BY <1>1 DEF Setup
  <2>2. ListedAs(b) \in Nat /\ Ids[b] \in {"esp", "other"} /\ Serial[b] \in Nat
    BY ListedLeadsThere, Paths, DiscoverAssumption DEF TypeInv, Plugged
  <2>. QED  BY <1>0, <1>1, <2>1, <2>2 DEF Setup, world, TypeInv, DevTypeOK
<1>2. CASE Run
  <2>1. PICK p \in Nodes \union {settings.path} : settings' = [settings EXCEPT !.path = p]
    BY <1>2 DEF Run
  <2>2. p \in Int
    BY Paths DEF TypeInv, DevTypeOK
  <2>. QED  BY <1>0, <1>2, <2>1, <2>2 DEF Run, world, TypeInv, DevTypeOK
<1>3. CASE Resolve
  BY <1>0, <1>3, PickedType DEF Resolve, world, TypeInv, DevTypeOK
<1>4. CASE Open
  BY <1>0, <1>4 DEF Open, world, TypeInv, DevTypeOK, Behind, Plugged
<1>5. CASE OpenFails \/ SessionEnds
  BY <1>0, <1>5 DEF OpenFails, SessionEnds, world, TypeInv, DevTypeOK
<1>6. CASE Attach \/ Detach \/ Udev
  <2>1. moves' \in Nat
    BY <1>6 DEF Attach, Detach, Udev, TypeInv, DevTypeOK
  <2>2. live' \in BOOLEAN /\ sure' \in BOOLEAN
    BY <1>6 DEF Attach, Detach, Udev, Moved, TypeInv, DevTypeOK
  <2>3. UNCHANGED <<settings, phase, dev, board>>
    BY <1>6 DEF Attach, Detach, Udev
  <2>. QED  BY <1>0, <2>1, <2>2, <2>3 DEF TypeInv, DevTypeOK, WorldOK
<1>7. CASE UNCHANGED devicesVars
  BY <1>0, <1>7 DEF devicesVars, TypeInv, DevTypeOK
<1>. QED  BY <1>1, <1>2, <1>3, <1>4, <1>5, <1>6, <1>7 DEF DevNext, DaemonStep

\* The variables keep their types, for any boards, ports and saved settings.
THEOREM DevTypeTheorem == DevSpec => []DevTypeOK
<1>1. TypeInv => DevTypeOK
  BY DEF TypeInv
<1>. QED  BY <1>1, TypeInit, TypeNext, PTL DEF DevSpec

-----------------------------------------------------------------------------
(* The pin                                                                 *)

\* The board is pinned by its serial, alone or with the serial's link as path.
PinnedBySerial == settings.serial # NoSerial /\ settings.path \in {Gone, settings.serial}

\* No serial that is wanted is the name of a node; and a choice that is sure is
\* what pick_device would choose now, with nothing left to udev.
PinInv ==
  /\ TypeInv
  /\ settings.serial \notin Nodes
  /\ phase = "resolved" /\ sure => pending = {} /\ dev = PickDevice
  /\ PinHonoured

\* When udev has done its work, only the board itself is behind its serial's link.
LEMMA LinkLeadsToBoard ==
  ASSUME TypeInv, settings.serial \notin Nodes, settings.serial # NoSerial, pending = {},
         NEW b \in Behind(settings.serial)
  PROVE  Serial[b] = settings.serial
<1>1. b \in Plugged /\ nodeOf[b] \in Nodes /\ nodeOf[b] = Canonical(settings.serial)
  BY DEF Behind, TypeInv, WorldOK, Plugged
<1>2. settings.serial \in LinkNames /\ nodeOf[b] = links[settings.serial]
  BY <1>1 DEF Canonical
<1>3. PICK c \in Boards : Serial[c] = settings.serial
  BY <1>2 DEF LinkNames, Serials, Buddy, NoSerial
<1>4. links[Serial[c]] = nodeOf[c] /\ nodeOf[c] # Gone
  BY <1>1, <1>2, <1>3, Paths DEF TypeInv, LinksTrue
<1>5. b = c
  BY <1>1, <1>2, <1>3, <1>4 DEF TypeInv, WorldOK, Plugged
<1>. QED  BY <1>3, <1>5

\* Nor does pick_device name any other, if the daemon looks now.
LEMMA PickLeadsToBoard ==
  ASSUME TypeInv, settings.serial \notin Nodes, PinnedBySerial, pending = {},
         NEW b \in Behind(PickDevice)
  PROVE  Serial[b] = settings.serial
<1>1. CASE PickDevice = settings.serial
  BY <1>1, LinkLeadsToBoard DEF PinnedBySerial
<1>2. CASE Pinned # {} /\ PickDevice = First(Pinned)
  <2>1. Pinned \subseteq Plugged
    BY DEF Pinned, Pool, Matching
  <2>2. PICK c \in Pinned : First(Pinned) = ListedAs(c)
    BY <1>2, <2>1, FirstListed DEF TypeInv
  <2>3. Behind(PickDevice) = {c}
    BY <1>2, <2>1, <2>2, ListedLeadsThere DEF TypeInv
  <2>. QED  BY <2>2, <2>3 DEF Pinned
<1>3. CASE PickDevice = Gone
  <2>1. Canonical(Gone) = Gone
    BY Paths DEF Canonical
  <2>. QED  BY <1>3, <2>1 DEF Behind, Plugged
<1>. QED  BY <1>1, <1>2, <1>3 DEF PickDevice, PinnedBySerial

\* No board is open at first.
LEMMA PinInit == DevInit => PinInv
BY TypeInit, DiscoverAssumption DEF DevInit, PinInv, PinHonoured

\* What is opened when the choice is sure is the board that was wanted.
LEMMA OpenedIsPinned ==
  ASSUME PinInv, Open
  PROVE  PinHonoured'
<1>. SUFFICES ASSUME sure', PinnedBySerial PROVE Serial[board'] = settings.serial
  BY DEF Open, PinHonoured, PinnedBySerial
<1>1. board' \in Behind(dev) /\ pending = {} /\ (sure \/ dev = settings.serial)
  BY DEF Open
<1>2. CASE dev = settings.serial
  BY <1>1, <1>2, LinkLeadsToBoard DEF PinInv, PinnedBySerial
<1>3. CASE sure
  <2>1. dev = PickDevice
    BY <1>3 DEF Open, PinInv
  <2>. QED  BY <1>1, <2>1, PickLeadsToBoard DEF PinInv
<1>. QED  BY <1>1, <1>2, <1>3

\* And every step of it and of the world keeps the pin.
LEMMA PinNext == PinInv /\ [DevNext]_devicesVars => PinInv'
<1>. SUFFICES ASSUME PinInv, [DevNext]_devicesVars PROVE PinInv'
  OBVIOUS
<1>0. TypeInv'
  BY TypeNext DEF PinInv
<1>1. CASE Setup
  <2>1. PICK b \in Plugged : settings'.serial = Serial[b]
    BY <1>1 DEF Setup
  <2>2. Serial[b] \in LinkNames
    BY <2>1 DEF LinkNames, Serials, Plugged, Buddy, NoSerial
  <2>. QED  BY <1>0, <1>1, <2>1, <2>2, Paths DEF Setup, PinInv, PinHonoured
<1>2. CASE Run
  <2>1. settings'.serial = settings.serial
    BY <1>2 DEF Run, PinInv, TypeInv, DevTypeOK
  <2>. QED  BY <1>0, <1>2, <2>1 DEF Run, PinInv, PinHonoured
<1>3. CASE Resolve
  <2>0. UNCHANGED <<nodeOf, links, settings>>
    BY <1>3 DEF Resolve, world
  <2>1. PickDevice' = PickDevice
    BY <2>0 DEF PickDevice, Exists, Behind, Plugged, Canonical, Pinned, Pool,
                Matching, First, Before, ListedAs, Unpinned
  <2>. QED  BY <1>0, <1>3, <2>1 DEF Resolve, world, PinInv, PinHonoured
<1>4. CASE Open
  BY <1>0, <1>4, OpenedIsPinned DEF Open, PinInv
<1>5. CASE OpenFails \/ SessionEnds
  BY <1>0, <1>5 DEF OpenFails, SessionEnds, PinInv, PinHonoured
<1>6. CASE Attach \/ Detach \/ Udev
  <2>1. UNCHANGED <<settings, phase, dev, board>> /\ sure' = (sure /\ phase # "resolved")
    BY <1>6 DEF Attach, Detach, Udev, Moved
  <2>. QED  BY <1>0, <2>1 DEF PinInv, PinHonoured
<1>7. CASE UNCHANGED devicesVars
  <2>1. PickDevice' = PickDevice
    BY <1>7 DEF devicesVars, PickDevice, Exists, Behind, Plugged, Canonical, Pinned, Pool,
                Matching, First, Before, ListedAs, Unpinned
  <2>. QED  BY <1>0, <1>7, <2>1 DEF devicesVars, PinInv, PinHonoured
<1>. QED  BY <1>1, <1>2, <1>3, <1>4, <1>5, <1>6, <1>7 DEF DevNext, DaemonStep

\* A board pinned by its serial is the only one ever opened, whatever is plugged
\* in, goes and is renumbered; PinHonoured says under which proviso.
THEOREM PinTheorem == DevSpec => []PinHonoured
<1>1. PinInv => PinHonoured
  BY DEF PinInv
<1>. QED  BY <1>1, PinInit, PinNext, PTL DEF DevSpec


-----------------------------------------------------------------------------
(* The metrics: what a sample says of the interface                        *)

Modes == {"V4", "V6", "Auto"}

\* An address is cached in the mode it was asked for, and is the one to give
\* unless a query failed or an address changed when it was made, or since.
Cache(e, m) ==
  Known(e) => e.at \in 0 .. now /\ (e.at > addrsAt => e.ip = IfaceIp(m, addrs))

\* The counter is the last sample's and what was received since, or began anew
\* and counts no more than that; or the last sample could not read it.
Counted ==
  /\ now \in Nat /\ bytes \in Nat /\ moved \in Nat
  /\ restarted \in BOOLEAN /\ unread \in BOOLEAN
  /\ prevNet = NoEntry \/ prevNet \in [at : 0 .. now, bytes : Nat]
  /\ IF restarted THEN bytes <= moved
                  ELSE Known(prevNet) /\ ~unread => bytes = prevNet.bytes + moved

Addressed ==
  /\ wanted \in Configs /\ addrsAt \in Int /\ addrsAt <= now
  /\ ifaceIps = [m \in Modes |-> ifaceIps[m]]
  /\ \A m \in Modes : Cache(ifaceIps[m], m)

InterfaceInv == Counted /\ Addressed

\* Modes and configurations are what the assumption says.
LEMMA Wanted == wanted \in Configs => wanted.mode \in Modes /\ wanted.shown \in BOOLEAN
BY MetricsAssumption DEF Modes

\* With the same addresses the address to give is the same.
LEMMA SameAddress == UNCHANGED addrs => \A m : IfaceIp(m, addrs)' = IfaceIp(m, addrs)
BY DEF IfaceIp, FirstOf

\* Rounding down gives no more than there is.
LEMMA Rounded ==
  ASSUME NEW d \in Nat, NEW s \in Nat, s > 0
  PROVE  (d \div s) * s <= d
OBVIOUS

\* A record of a moment and something else is an entry.
LEMMA Entry ==
  ASSUME NEW t \in Nat, NEW x
  PROVE  [at |-> t, bytes |-> x] # NoEntry /\ [at |-> t, ip |-> x] # NoEntry
BY DEF NoEntry

\* What a sample does, but for the services.
LEMMA Sampled ==
  ASSUME Sample
  PROVE  \E counted \in BOOLEAN, told \in Answers :
           /\ UNCHANGED <<now, addrs, bytes, wanted>> /\ CollectIfaces(counted, told)
           /\ snap'.ip = IF wanted.shown THEN IfaceIpCached(wanted.mode, told).ip ELSE ""
           /\ snap'.rate = IF wanted.shown /\ Known(prevNet) THEN Rate(prevNet, counted) ELSE 0
<1>1. PICK answered \in BOOLEAN, counted \in BOOLEAN, told \in Answers :
        /\ CollectIfaces(counted, told)
        /\ snap' = [rate |-> IF wanted.shown /\ Known(prevNet) THEN Rate(prevNet, counted) ELSE 0,
                    ip |-> IF wanted.shown THEN IfaceIpCached(wanted.mode, told).ip ELSE "",
                    services |-> services'.list]
        /\ UNCHANGED <<now, units, addrs, bytes, wanted>>
  BY DEF Sample
<1>. QED  BY <1>1

\* What a sample leaves of the world.
LEMMA SampleLeaves == Sample => UNCHANGED <<now, units, addrs, bytes, wanted>>
BY DEF Sample

\* A fresh entry is one of now, or of a time since which no address changed and
\* no query failed; one that is made now is the one to give unless a query misled.
LEMMA CachedAddress ==
  ASSUME InterfaceInv, NEW m \in Modes, NEW told, NEW at \in Int,
         at = IF Misled(m, told) THEN now ELSE addrsAt
  PROVE  LET e == IfaceIpCached(m, told) IN
           /\ Known(e) /\ e.at \in 0 .. now /\ (e.at > at => e.ip = IfaceIp(m, addrs))
           /\ now - at < SLOW_POLL_TTL \/ e.ip = IfaceIp(m, addrs)
<1>. DEFINE e == IfaceIpCached(m, told)
<1>0. SLOW_POLL_TTL \in Nat \ {0} /\ now \in Nat /\ addrsAt \in Int /\ addrsAt <= now
  BY MetricsAssumption DEF InterfaceInv, Counted, Addressed
<1>1. CASE Fresh(ifaceIps[m])
  <2>1. e = ifaceIps[m] /\ Known(e) /\ now - e.at < SLOW_POLL_TTL
    BY <1>1 DEF IfaceIpCached, Fresh
  <2>2. Cache(e, m) /\ at = addrsAt
    BY <1>1, <2>1 DEF InterfaceInv, Addressed, Misled
  <2>. HIDE DEF e
  <2>3. e.at \in 0 .. now /\ (e.at > addrsAt => e.ip = IfaceIp(m, addrs))
    BY <2>1, <2>2 DEF Cache
  <2>. QED  BY <1>0, <2>1, <2>2, <2>3 DEF e
<1>2. CASE ~Fresh(ifaceIps[m])
  <2>1. e = [at |-> now, ip |-> IfaceIp(m, told)]
    BY <1>2 DEF IfaceIpCached
  <2>2. e.at = now /\ e.ip = IfaceIp(m, told) /\ Known(e)
    BY <1>0, <2>1, Entry DEF Known
  <2>3. at = now \/ IfaceIp(m, told) = IfaceIp(m, addrs)
    BY <1>2 DEF Misled
  <2>. QED  BY <1>0, <2>2, <2>3
<1>. QED  BY <1>1, <1>2

LEMMA InterfaceInit == MetInit => InterfaceInv
<1>. SUFFICES ASSUME MetInit PROVE InterfaceInv
  OBVIOUS
<1>1. SLOW_POLL_TTL \in Nat \ {0}
  BY MetricsAssumption
<1>2. Counted
  <2>1. /\ now = 0 /\ bytes = 0 /\ moved = 0 /\ restarted = FALSE /\ unread = FALSE
        /\ prevNet = NoEntry
    BY DEF MetInit
  <2>. QED  BY <2>1 DEF Counted, Known
<1>3. Addressed
  <2>1. /\ now = 0 /\ wanted \in Configs /\ addrsAt = -SLOW_POLL_TTL
        /\ ifaceIps = [m \in Modes |-> NoEntry]
    BY DEF MetInit, Modes
  <2>. QED  BY <1>1, <2>1 DEF Addressed, Cache, Known
<1>. QED  BY <1>2, <1>3 DEF InterfaceInv

\* The counter's share of a step.
LEMMA CountedNext == InterfaceInv /\ [MetNext]_metricsVars => Counted'
<1>. SUFFICES ASSUME InterfaceInv, [MetNext]_metricsVars PROVE Counted'
  OBVIOUS
<1>0. Counted
  BY DEF InterfaceInv
<1>1. CASE Sample
  <2>1. PICK counted \in BOOLEAN, told \in Answers :
          UNCHANGED <<now, bytes>> /\ CollectIfaces(counted, told)
    BY <1>1, Sampled
  <2>2. CASE wanted.shown
    <3>1. /\ prevNet' = [at |-> now, bytes |-> Counter(counted)]
          /\ moved' = 0 /\ restarted' = FALSE /\ unread' = ~counted
      BY <2>1, <2>2 DEF CollectIfaces
    <3>2. /\ now \in Nat /\ bytes \in Nat /\ now \in 0 .. now
          /\ Counter(counted) \in Nat
      BY <1>0 DEF Counted, Counter
    <3>3. prevNet' \in [at : 0 .. now', bytes : Nat] /\ prevNet'.bytes = Counter(counted)
      BY <2>1, <3>1, <3>2
    <3>4. (IF restarted THEN bytes <= moved
                         ELSE Known(prevNet) /\ ~unread => bytes = prevNet.bytes + moved)'
      <4>1. CASE counted
        <5>1. Counter(counted) = bytes
          BY <4>1 DEF Counter
        <5>2. bytes' = bytes /\ prevNet'.bytes = bytes /\ moved' = 0 /\ restarted' = FALSE
          BY <2>1, <3>1, <3>3, <5>1
        <5>. QED  BY <3>2, <5>2
      <4>2. CASE ~counted
        BY <3>1, <4>2
      <4>. QED  BY <4>1, <4>2
    <3>5. (now \in Nat /\ bytes \in Nat /\ moved \in Nat /\ restarted \in BOOLEAN /\ unread \in BOOLEAN)'
      BY <2>1, <3>1, <3>2
    <3>. QED  BY <3>3, <3>4, <3>5 DEF Counted
  <2>3. CASE ~wanted.shown
    <3>1. UNCHANGED <<prevNet, moved, restarted, unread>>
      BY <2>1, <2>3 DEF CollectIfaces
    <3>. QED  BY <1>0, <2>1, <3>1 DEF Counted, Known
  <2>. QED  BY <2>2, <2>3
<1>2. CASE NewCollector
  BY <1>0, <1>2 DEF NewCollector, hist, Counted, Known
<1>3. CASE Receive
  BY <1>0, <1>3 DEF Receive, collector, Counted, Known
<1>4. CASE Restart
  BY <1>0, <1>4 DEF Restart, collector, Counted, Known
<1>5. CASE Tick
  <2>1. now' = now + 1 /\ UNCHANGED <<bytes, moved, restarted, unread, prevNet>>
    BY <1>5 DEF Tick, collector, hist
  <2>2. prevNet' = NoEntry \/ prevNet' \in [at : 0 .. now', bytes : Nat]
    BY <1>0, <2>1 DEF Counted
  <2>. QED  BY <1>0, <2>1, <2>2 DEF Counted, Known
<1>6. CASE UNCHANGED <<now, bytes, moved, restarted, unread, prevNet>>
  BY <1>0, <1>6 DEF Counted, Known
<1>7. SetUnit \/ SetAddrs \/ Reconfigure \/ UNCHANGED metricsVars =>
        UNCHANGED <<now, bytes, moved, restarted, unread, prevNet>>
  BY DEF SetUnit, SetAddrs, Reconfigure, collector, hist, metricsVars
<1>. QED  BY <1>1, <1>2, <1>3, <1>4, <1>5, <1>6, <1>7 DEF MetNext

\* The cache's share of a step.
LEMMA CachedNext == InterfaceInv /\ [MetNext]_metricsVars => Addressed'
<1>. SUFFICES ASSUME InterfaceInv, [MetNext]_metricsVars PROVE Addressed'
  OBVIOUS
<1>0. Addressed /\ now \in Nat
  BY DEF InterfaceInv, Counted
<1>1. CASE UNCHANGED <<now, addrs, addrsAt, wanted, ifaceIps>>
  BY <1>0, <1>1, SameAddress DEF Addressed, Cache, Known
<1>2. CASE Sample
  <2>1. PICK counted \in BOOLEAN, told \in Answers :
          UNCHANGED <<now, addrs, wanted>> /\ CollectIfaces(counted, told)
    BY <1>2, Sampled
  <2>2. CASE wanted.shown
    <3>. DEFINE w == wanted.mode
                e == IfaceIpCached(w, told)
    <3>1. /\ w \in Modes /\ ifaceIps' = [ifaceIps EXCEPT ![w] = e]
          /\ addrsAt' = IF Misled(w, told) THEN now ELSE addrsAt
      BY <1>0, <2>1, <2>2, Wanted DEF CollectIfaces, Addressed
    <3>2. addrsAt' \in Int /\ addrsAt <= addrsAt' /\ addrsAt' <= now
      BY <1>0, <3>1 DEF Addressed
    <3>3. Known(e) /\ e.at \in 0 .. now /\ (e.at > addrsAt' => e.ip = IfaceIp(w, addrs))
      BY <3>1, <3>2, CachedAddress
    <3>. HIDE DEF w, e
    <3>4. ifaceIps'[w] = e /\ \A m \in Modes \ {w} : ifaceIps'[m] = ifaceIps[m]
      BY <1>0, <3>1 DEF Addressed
    <3>5. ifaceIps' = [m \in Modes |-> ifaceIps'[m]]
      BY <1>0, <3>1 DEF Addressed
    <3>6. ASSUME NEW m \in Modes
          PROVE  Cache(ifaceIps[m], m)'
      <4>1. CASE m = w
        BY <2>1, <3>3, <3>4, <4>1, SameAddress DEF Cache, Known
      <4>2. CASE m # w
        <5>1. Cache(ifaceIps[m], m) /\ ifaceIps'[m] = ifaceIps[m]
          BY <1>0, <3>4, <4>2 DEF Addressed
        <5>2. Known(ifaceIps[m]) =>
                ifaceIps[m].at \in 0 .. now
                /\ (ifaceIps[m].at > addrsAt' => ifaceIps[m].ip = IfaceIp(m, addrs))
          BY <1>0, <3>2, <5>1 DEF Cache, Addressed
        <5>. QED  BY <2>1, <5>1, <5>2, SameAddress DEF Cache, Known
      <4>. QED  BY <4>1, <4>2
    <3>. QED  BY <1>0, <2>1, <3>2, <3>5, <3>6 DEF Addressed
  <2>3. CASE ~wanted.shown
    BY <1>1, <2>1, <2>3 DEF CollectIfaces
  <2>. QED  BY <2>2, <2>3
<1>3. CASE NewCollector
  <2>1. ifaceIps' = [m \in Modes |-> NoEntry] /\ UNCHANGED <<now, wanted, addrsAt>>
    BY <1>0, <1>3 DEF NewCollector, Addressed, hist
  <2>. QED  BY <1>0, <2>1 DEF Addressed, Cache, Known
<1>4. CASE SetAddrs
  <2>1. addrsAt' = now /\ UNCHANGED <<now, wanted, ifaceIps>>
    BY <1>4 DEF SetAddrs, collector
  <2>. QED  BY <1>0, <2>1 DEF Addressed, Cache, Known
<1>5. CASE Tick
  <2>1. now' = now + 1 /\ UNCHANGED <<addrs, addrsAt, wanted, ifaceIps>>
    BY <1>5 DEF Tick, collector, hist
  <2>2. ASSUME NEW m \in Modes
        PROVE  Cache(ifaceIps[m], m)'
    <3>1. Cache(ifaceIps[m], m)
      BY <1>0 DEF Addressed
    <3>. QED  BY <1>0, <2>1, <3>1, SameAddress DEF Cache, Known
  <2>. QED  BY <1>0, <2>1, <2>2 DEF Addressed
<1>6. CASE Reconfigure
  <2>1. wanted' \in Configs /\ UNCHANGED <<now, addrs, addrsAt, ifaceIps>>
    BY <1>6 DEF Reconfigure, collector, hist
  <2>. QED  BY <1>0, <2>1, SameAddress DEF Addressed, Cache, Known
<1>7. SetUnit \/ Receive \/ Restart \/ UNCHANGED metricsVars =>
        UNCHANGED <<now, addrs, addrsAt, wanted, ifaceIps>>
  BY DEF SetUnit, Receive, Restart, collector, hist, metricsVars
<1>. QED  BY <1>1, <1>2, <1>3, <1>4, <1>5, <1>6, <1>7 DEF MetNext

\* A sample's address and rate.
LEMMA SampleTrue == InterfaceInv /\ Sample => AddressTrue' /\ RateTrue
<1>. SUFFICES ASSUME InterfaceInv, Sample PROVE AddressTrue' /\ RateTrue
  OBVIOUS
<1>0. Counted /\ Addressed
  BY DEF InterfaceInv
<1>1. PICK counted \in BOOLEAN, told \in Answers :
        /\ UNCHANGED <<now, addrs, wanted>> /\ CollectIfaces(counted, told)
        /\ snap'.ip = IF wanted.shown THEN IfaceIpCached(wanted.mode, told).ip ELSE ""
        /\ snap'.rate = IF wanted.shown /\ Known(prevNet) THEN Rate(prevNet, counted) ELSE 0
  BY Sampled
<1>2. AddressTrue'
  <2>1. CASE ~wanted.shown
    BY <1>1, <2>1 DEF AddressTrue
  <2>2. CASE wanted.shown
    <3>1. wanted.mode \in Modes
      BY <1>0, Wanted DEF Addressed
    <3>2. addrsAt' = (IF Misled(wanted.mode, told) THEN now ELSE addrsAt) /\ addrsAt' \in Int
      BY <1>0, <1>1, <2>2 DEF CollectIfaces, Addressed, Counted
    <3>3. \/ now - addrsAt' < SLOW_POLL_TTL
          \/ IfaceIpCached(wanted.mode, told).ip = IfaceIp(wanted.mode, addrs)
      BY <3>1, <3>2, CachedAddress
    <3>4. IfaceIp(wanted.mode, addrs)' = IfaceIp(wanted.mode, addrs)
      BY <1>1, SameAddress
    <3>. QED  BY <1>1, <2>2, <3>3, <3>4 DEF AddressTrue
  <2>. QED  BY <2>1, <2>2
<1>3. RateTrue
  <2>. SUFFICES ASSUME wanted.shown, Known(prevNet) PROVE RateTrue
    BY DEF RateTrue
  <2>. DEFINE s == IF now > prevNet.at THEN now - prevNet.at ELSE 1
              c == Counter(counted)
              d == IF c > prevNet.bytes THEN c - prevNet.bytes ELSE 0
              most == IF unread /\ ~restarted THEN bytes ELSE moved
  <2>1. /\ now \in Nat /\ bytes \in Nat /\ moved \in Nat
        /\ restarted \in BOOLEAN /\ unread \in BOOLEAN
        /\ prevNet.at \in 0 .. now /\ prevNet.bytes \in Nat
    BY <1>0 DEF Counted, Known
  <2>2. unread' = ~counted /\ c \in Nat /\ c <= bytes /\ (counted => c = bytes)
    BY <1>1, <2>1 DEF CollectIfaces, Counter
  <2>3. snap'.rate = d \div s
    BY <1>1 DEF Rate
  <2>. HIDE DEF c
  <2>4. s \in Nat /\ s > 0 /\ d \in Nat /\ d <= c
    BY <2>1, <2>2
  <2>5. d <= most /\ most \in Nat
    <3>1. CASE unread /\ ~restarted
      BY <2>1, <2>2, <2>4, <3>1
    <3>2. CASE restarted
      <4>1. bytes <= moved
        BY <1>0, <3>2 DEF Counted
      <4>. QED  BY <2>1, <2>2, <2>4, <3>2, <4>1
    <3>3. CASE ~unread /\ ~restarted
      <4>1. bytes = prevNet.bytes + moved
        BY <1>0, <3>3 DEF Counted
      <4>. QED  BY <2>1, <2>2, <3>3, <4>1
    <3>. QED  BY <2>1, <3>1, <3>2, <3>3
  <2>6. ASSUME ~unread, ~unread', ~restarted PROVE d = moved
    <3>1. bytes = prevNet.bytes + moved
      BY <1>0, <2>6 DEF Counted
    <3>2. c = bytes
      BY <2>2, <2>6
    <3>. QED  BY <2>1, <3>1, <3>2
  <2>7. RateTrue <=> /\ snap'.rate * s <= most
                     /\ unread \/ unread' \/ restarted \/ snap'.rate = moved \div s
    BY DEF RateTrue
  <2>. HIDE DEF s, d, most
  <2>8. (d \div s) * s <= d /\ (d \div s) * s \in Int
    BY <2>4, Rounded
  <2>9. snap'.rate * s <= most
    BY <2>3, <2>4, <2>5, <2>8
  <2>. QED  BY <2>3, <2>6, <2>7, <2>9
<1>. QED  BY <1>2, <1>3

\* What a sample says of the interface, its address and its rate, is at most a
\* cache entry's life out of date, for any lives, configurations, changes and
\* failures to ask; the rate's bound when a counter restarts or is not read is
\* RateTrue's.
THEOREM InterfaceTheorem == MetSpec => InterfaceShown
<1>1. MetSpec => []InterfaceInv
  <2>1. InterfaceInv /\ [MetNext]_metricsVars => InterfaceInv'
    BY CountedNext, CachedNext DEF InterfaceInv
  <2>. QED  BY InterfaceInit, <2>1, PTL DEF MetSpec
<1>2. InterfaceInv /\ [MetNext]_metricsVars => [Sample => AddressTrue' /\ RateTrue]_metricsVars
  BY SampleTrue
<1>. QED  BY <1>1, <1>2, PTL DEF MetSpec, InterfaceShown

-----------------------------------------------------------------------------
(* The elements of a sequence at some of its positions                     *)

\* How many of the positions in K are at or before p.
RankIn(K, p) == Cardinality({q \in K : q <= p})

\* The positions of a sequence have the ranks from 1 to their number, each its own.
LEMMA Ranks ==
  ASSUME NEW len \in Nat, NEW K \in SUBSET (1 .. len)
  PROVE  /\ IsFiniteSet(K) /\ Cardinality(K) \in 0 .. len
         /\ \A n \in 1 .. Cardinality(K) : \E p \in K : RankIn(K, p) = n
         /\ \A p, q \in K : RankIn(K, p) = RankIn(K, q) => p = q
         /\ \A p \in K : RankIn(K, p) \in 1 .. Cardinality(K)
<1>1. IsFiniteSet(1 .. len) /\ Cardinality(1 .. len) = len
  BY FS_Interval
<1>2. IsFiniteSet(K) /\ Cardinality(K) \in 0 .. len
  <2>1. IsFiniteSet(K) /\ Cardinality(K) <= len
    BY <1>1, FS_Subset
  <2>2. Cardinality(K) \in Nat
    BY <2>1, FS_CardinalityType
  <2>. QED  BY <2>1, <2>2
<1>. DEFINE upTo(p) == {q \in K : q <= p}
<1>3. ASSUME NEW p \in K
      PROVE  IsFiniteSet(upTo(p)) /\ RankIn(K, p) = Cardinality(upTo(p)) /\ RankIn(K, p) \in 1 .. Cardinality(K)
  <2>1. upTo(p) \in SUBSET K /\ p \in upTo(p)
    OBVIOUS
  <2>2. IsFiniteSet(upTo(p)) /\ Cardinality(upTo(p)) <= Cardinality(K)
    BY <1>2, <2>1, FS_Subset
  <2>3. Cardinality(upTo(p)) \in Nat /\ Cardinality(upTo(p)) # 0
    BY <2>1, <2>2, FS_CardinalityType, FS_EmptySet
  <2>. QED  BY <1>2, <2>2, <2>3 DEF RankIn
<1>4. ASSUME NEW p \in K, NEW q \in K, p < q
      PROVE  RankIn(K, p) # RankIn(K, q)
  <2>0. p \in Int /\ q \in Int /\ \A x \in K : x \in Int
    OBVIOUS
  <2>1. upTo(p) \in SUBSET upTo(q) /\ q \in upTo(q) /\ q \notin upTo(p)
    <3>1. \A x \in upTo(p) : x \in upTo(q)
      BY <1>4, <2>0
    <3>2. q \in upTo(q)
      BY <2>0
    <3>3. q \notin upTo(p)
      BY <1>4, <2>0
    <3>. QED  BY <3>1, <3>2, <3>3
  <2>2. IsFiniteSet(upTo(q))
    BY <1>3
  <2>3. Cardinality(upTo(q)) = Cardinality(upTo(p)) => upTo(q) = upTo(p)
    BY <2>1, <2>2, FS_Subset
  <2>. QED  BY <1>3, <2>1, <2>3
<1>5. \A p, q \in K : RankIn(K, p) = RankIn(K, q) => p = q
  BY <1>4
<1>. DEFINE f == [p \in K |-> RankIn(K, p)]
            T == 1 .. Cardinality(K)
<1>6. f \in Injection(K, T)
  <2>1. f \in [K -> T]
    BY <1>3
  <2>2. IsInjective(f)
    BY <1>5 DEF IsInjective
  <2>. QED  BY <2>1, <2>2 DEF Injection
<1>7. IsFiniteSet(T) /\ Cardinality(T) = Cardinality(K)
  BY <1>2, FS_Interval
<1>8. f \in Surjection(K, T)
  <2>. HIDE DEF f, T
  <2>. QED  BY <1>6, <1>7, FS_Injection
<1>9. \A n \in 1 .. Cardinality(K) : \E p \in K : RankIn(K, p) = n
  BY <1>8 DEF Surjection
<1>. QED  BY <1>2, <1>3, <1>5, <1>9

\* Keep gives the elements at these positions, and no other.
LEMMA KeepProperties ==
  ASSUME NEW S, NEW s \in Seq(S), NEW K \in SUBSET (1 .. Len(s))
  PROVE  /\ Keep(s, K) \in Seq(S) /\ Len(Keep(s, K)) <= Len(s)
         /\ \A n \in 1 .. Len(Keep(s, K)) : \E p \in K : Keep(s, K)[n] = s[p]
         /\ \A p \in K : \E n \in 1 .. Len(Keep(s, K)) : Keep(s, K)[n] = s[p]
<1>. DEFINE at(n) == CHOOSE p \in K : Cardinality({q \in K : q <= p}) = n
            c == Cardinality(K)
<1>0. Len(s) \in Nat /\ \A p \in 1 .. Len(s) : s[p] \in S
  BY LenProperties, ElementOfSeq
<1>1. c \in 0 .. Len(s)
  BY <1>0, Ranks
<1>2. ASSUME NEW n \in 1 .. c
      PROVE  at(n) \in K /\ RankIn(K, at(n)) = n
  <2>1. \E p \in K : RankIn(K, p) = n
    BY <1>0, Ranks
  <2>2. \E p \in K : Cardinality({q \in K : q <= p}) = n
    BY <2>1 DEF RankIn
  <2>. QED  BY <2>2 DEF RankIn
<1>3. ASSUME NEW p \in K
      PROVE  RankIn(K, p) \in 1 .. c /\ at(RankIn(K, p)) = p
  <2>1. RankIn(K, p) \in 1 .. c
    BY <1>0, Ranks
  <2>2. at(RankIn(K, p)) \in K /\ RankIn(K, at(RankIn(K, p))) = RankIn(K, p)
    BY <1>2, <2>1
  <2>. HIDE DEF at
  <2>. QED  BY <1>0, <2>1, <2>2, Ranks
<1>4. Keep(s, K) = [n \in 1 .. c |-> s[at(n)]]
  BY DEF Keep
<1>. HIDE DEF at, c
<1>5. \A n \in 1 .. c : s[at(n)] \in S
  BY <1>0, <1>2
<1>6. Keep(s, K) \in Seq(S) /\ Len(Keep(s, K)) = c
  BY <1>1, <1>4, <1>5
<1>7. \A n \in 1 .. c : Keep(s, K)[n] = s[at(n)]
  BY <1>4
<1>8. \A p \in K : Keep(s, K)[RankIn(K, p)] = s[p]
  BY <1>3, <1>7
<1>9. \A n \in 1 .. c : \E p \in K : Keep(s, K)[n] = s[p]
  BY <1>2, <1>7
<1>10. \A p \in K : \E n \in 1 .. c : Keep(s, K)[n] = s[p]
  BY <1>3, <1>8
<1>. QED  BY <1>0, <1>1, <1>6, <1>9, <1>10

\* A sequence cut to n is its beginning.
LEMMA AtMostProperties ==
  ASSUME NEW S, NEW s \in Seq(S), NEW n \in Nat
  PROVE  /\ AtMost(n, s) \in Seq(S)
         /\ Len(AtMost(n, s)) = IF Len(s) < n THEN Len(s) ELSE n
         /\ \A i \in 1 .. Len(AtMost(n, s)) : AtMost(n, s)[i] = s[i]
<1>. DEFINE m == IF Len(s) < n THEN Len(s) ELSE n
<1>1. Len(s) \in Nat /\ m \in Nat /\ \A i \in 1 .. m : s[i] \in S
  BY LenProperties, ElementOfSeq
<1>2. AtMost(n, s) = SubSeq(s, 1, m)
  BY DEF AtMost
<1>. HIDE DEF m
<1>3. /\ SubSeq(s, 1, m) \in Seq(S)
      /\ Len(SubSeq(s, 1, m)) = IF 1 <= m THEN m - 1 + 1 ELSE 0
      /\ \A i \in 1 .. m - 1 + 1 : SubSeq(s, 1, m)[i] = s[1 + i - 1]
  BY <1>1, SubSeqProperties
<1>. QED  BY <1>1, <1>2, <1>3 DEF m

-----------------------------------------------------------------------------
(* The metrics: what a sample says of the services                         *)

UnitsOK == units \in [Names -> Statuses \union {"gone"}]
Lines == [name : Names, status : Statuses \union {"gone"}]

\* What ServicesTrue says of a list that was made for this filter.
ListTrue(list, filter) ==
  LET there == {l.name : l \in Range(list)}
  IN /\ \A l \in Range(list) : l.status = IsActive(l.name)
     /\ IF filter # NoFilter
          THEN there = Range(AtMost(SVC_COUNT, filter)) \ {Template}
          ELSE \A u \in Names \ there : units[u] = "failed" =>
                 Len(list) = SVC_COUNT /\ \A l \in Range(list) : l.status = "failed"

\* The cached list is true of the units for the filter it was made for, unless
\* one changed or systemctl failed to run when it was made, or since.
ServicesInv ==
  /\ now \in Nat /\ wanted \in Configs /\ UnitsOK
  /\ unitsAt \in Int /\ unitsAt <= now
  /\ Known(services) => /\ services.at \in 0 .. now /\ Len(services.list) <= SVC_COUNT
                        /\ services.at > unitsAt => ListTrue(services.list, services.key)

\* t begins with s.
Begins(s, t) == Len(s) <= Len(t) /\ \A i \in 1 .. Len(s) : t[i] = s[i]

\* It still does with another sequence after it.
LEMMA BeginsLonger ==
  ASSUME NEW S, NEW s \in Seq(S), NEW t \in Seq(S), NEW u \in Seq(S), Begins(s, t)
  PROVE  t \o u \in Seq(S) /\ Begins(s, t \o u)
<1>1. /\ t \o u \in Seq(S) /\ Len(t \o u) = Len(t) + Len(u)
      /\ \A i \in 1 .. Len(t) + Len(u) : (t \o u)[i] = IF i <= Len(t) THEN t[i] ELSE u[i - Len(t)]
  BY ConcatProperties
<1>2. Len(s) \in Nat /\ Len(t) \in Nat /\ Len(u) \in Nat
  BY LenProperties
<1>. DEFINE tu == t \o u
<1>. HIDE DEF tu
<1>. QED  BY <1>1, <1>2 DEF Begins, tu

\* A unit's line carries its state.
LEMMA LineOf ==
  ASSUME UnitsOK, NEW u \in Names
  PROVE  Line(u) \in Lines /\ Line(u).name = u /\ Line(u).status = units[u]
BY DEF UnitsOK, Line, Lines

\* The list of all units, by their ranks, before it is cut.
Unsorted == [k \in DOMAIN Units |-> Line(Units[k])]
RankAt(r) == {k \in DOMAIN Unsorted : Unsorted[k].status # "gone" /\ RankOf(Unsorted[k]) = r}
OfRank(r) == Keep(Unsorted, RankAt(r))
Sorted == OfRank(0) \o OfRank(1) \o OfRank(2) \o OfRank(3) \o OfRank(4)

\* Lines of units that systemd has loaded.
LoadedLines == {l \in Lines : l.status # "gone" /\ l.status = units[l.name]}

LEMMA AllServicesIs == UnitsOK =>
  /\ Unsorted \in Seq(Lines)
  /\ \A r : RankAt(r) \in SUBSET (1 .. Len(Unsorted)) /\ OfRank(r) \in Seq(LoadedLines)
  /\ Sorted \in Seq(LoadedLines) /\ Begins(OfRank(0), Sorted)
  /\ AllServices = AtMost(SVC_COUNT, Sorted)
<1>. SUFFICES ASSUME UnitsOK
     PROVE  /\ Unsorted \in Seq(Lines)
            /\ \A r : RankAt(r) \in SUBSET (1 .. Len(Unsorted)) /\ OfRank(r) \in Seq(LoadedLines)
            /\ Sorted \in Seq(LoadedLines) /\ Begins(OfRank(0), Sorted)
            /\ AllServices = AtMost(SVC_COUNT, Sorted)
  OBVIOUS
<1>1. Units \in Seq(STRING) /\ Len(Units) \in Nat /\ DOMAIN Units = 1 .. Len(Units)
  BY MetricsAssumption, LenProperties
<1>2. \A k \in 1 .. Len(Units) : Units[k] \in Names
  BY <1>1 DEF Names, Range
<1>3. Unsorted = [k \in 1 .. Len(Units) |-> Line(Units[k])]
  BY <1>1 DEF Unsorted
<1>4. \A k \in 1 .. Len(Units) : Line(Units[k]) \in Lines
  BY <1>2, LineOf
<1>5. Unsorted \in Seq(Lines) /\ Len(Unsorted) = Len(Units) /\ DOMAIN Unsorted = 1 .. Len(Units)
  BY <1>1, <1>3, <1>4
<1>6. ASSUME NEW r
      PROVE  RankAt(r) \in SUBSET (1 .. Len(Unsorted)) /\ OfRank(r) \in Seq(LoadedLines)
  <2>1. RankAt(r) \in SUBSET (1 .. Len(Unsorted))
    BY <1>5 DEF RankAt
  <2>2. \A k \in RankAt(r) : Unsorted[k] \in LoadedLines
    <3>. TAKE k \in RankAt(r)
    <3>1. k \in 1 .. Len(Units) /\ Unsorted[k].status # "gone" /\ Unsorted[k] = Line(Units[k])
      BY <1>3, <1>5 DEF RankAt
    <3>. QED  BY <1>2, <3>1, LineOf DEF LoadedLines
  <2>3. /\ Keep(Unsorted, RankAt(r)) \in Seq(Lines)
        /\ \A n \in 1 .. Len(Keep(Unsorted, RankAt(r))) :
             \E k \in RankAt(r) : Keep(Unsorted, RankAt(r))[n] = Unsorted[k]
    BY <1>5, <2>1, KeepProperties
  <2>4. \A n \in 1 .. Len(OfRank(r)) : OfRank(r)[n] \in LoadedLines
    BY <2>2, <2>3 DEF OfRank
  <2>5. OfRank(r) \in Seq(Lines)
    BY <2>3 DEF OfRank
  <2>. QED  BY <2>1, <2>4, <2>5
<1>7. Sorted \in Seq(LoadedLines) /\ Begins(OfRank(0), Sorted)
  <2>0. /\ OfRank(0) \in Seq(LoadedLines) /\ OfRank(1) \in Seq(LoadedLines) /\ OfRank(2) \in Seq(LoadedLines)
        /\ OfRank(3) \in Seq(LoadedLines) /\ OfRank(4) \in Seq(LoadedLines)
    BY <1>6
  <2>. DEFINE s1 == OfRank(0) \o OfRank(1)
              s2 == s1 \o OfRank(2)
              s3 == s2 \o OfRank(3)
              s4 == s3 \o OfRank(4)
  <2>1. Begins(OfRank(0), OfRank(0))
    BY <2>0, LenProperties DEF Begins
  <2>2. s1 \in Seq(LoadedLines) /\ Begins(OfRank(0), s1)
    BY <2>0, <2>1, BeginsLonger
  <2>. HIDE DEF s1
  <2>3. s2 \in Seq(LoadedLines) /\ Begins(OfRank(0), s2)
    BY <2>0, <2>2, BeginsLonger
  <2>. HIDE DEF s2
  <2>4. s3 \in Seq(LoadedLines) /\ Begins(OfRank(0), s3)
    BY <2>0, <2>3, BeginsLonger
  <2>. HIDE DEF s3
  <2>5. s4 \in Seq(LoadedLines) /\ Begins(OfRank(0), s4)
    BY <2>0, <2>4, BeginsLonger
  <2>. QED  BY <2>5 DEF Sorted, s1, s2, s3
<1>8. AllServices = AtMost(SVC_COUNT, Sorted)
  BY DEF AllServices, Sorted, OfRank, RankAt, Unsorted
<1>. QED  BY <1>5, <1>6, <1>7, <1>8

\* The failed units come first, and every one of them is listed.
LEMMA FailedFirst == UnitsOK =>
  /\ \A l \in Range(OfRank(0)) : l.status = "failed"
  /\ \A u \in Names : units[u] = "failed" => \E n \in 1 .. Len(OfRank(0)) : OfRank(0)[n].name = u
<1>. SUFFICES ASSUME UnitsOK
     PROVE  /\ \A l \in Range(OfRank(0)) : l.status = "failed"
            /\ \A u \in Names :
                 units[u] = "failed" => \E n \in 1 .. Len(OfRank(0)) : OfRank(0)[n].name = u
  OBVIOUS
<1>1. Unsorted \in Seq(Lines) /\ RankAt(0) \in SUBSET (1 .. Len(Unsorted))
  BY AllServicesIs
<1>2. /\ \A n \in 1 .. Len(OfRank(0)) : \E k \in RankAt(0) : OfRank(0)[n] = Unsorted[k]
      /\ \A k \in RankAt(0) : \E n \in 1 .. Len(OfRank(0)) : OfRank(0)[n] = Unsorted[k]
  BY <1>1, KeepProperties DEF OfRank
<1>3. \A k \in RankAt(0) : Unsorted[k].status = "failed"
  BY DEF RankAt, RankOf
<1>4. \A l \in Range(OfRank(0)) : l.status = "failed"
  <2>1. DOMAIN OfRank(0) = 1 .. Len(OfRank(0))
    BY AllServicesIs, LenProperties
  <2>. QED  BY <1>2, <1>3, <2>1 DEF Range
<1>5. ASSUME NEW u \in Names, units[u] = "failed"
      PROVE  \E n \in 1 .. Len(OfRank(0)) : OfRank(0)[n].name = u
  <2>1. PICK k \in DOMAIN Units : Units[k] = u
    BY DEF Names, Range
  <2>2. k \in DOMAIN Unsorted /\ Unsorted[k] = Line(u)
    BY <2>1 DEF Unsorted
  <2>3. Unsorted[k].status = "failed" /\ Unsorted[k].name = u
    BY <1>5, <2>2, LineOf
  <2>4. k \in RankAt(0)
    BY <2>2, <2>3 DEF RankAt, RankOf
  <2>. QED  BY <1>2, <2>3, <2>4
<1>. QED  BY <1>4, <1>5

\* Without a filter: each line true, and a failed unit left out for others only.
LEMMA AllServicesTrue == UnitsOK => Len(AllServices) <= SVC_COUNT /\ ListTrue(AllServices, NoFilter)
<1>. SUFFICES ASSUME UnitsOK PROVE Len(AllServices) <= SVC_COUNT /\ ListTrue(AllServices, NoFilter)
  OBVIOUS
<1>. DEFINE F == OfRank(0)
            all == Sorted
            list == AllServices
<1>1. F \in Seq(LoadedLines) /\ all \in Seq(LoadedLines) /\ list = AtMost(SVC_COUNT, all) /\ SVC_COUNT \in Nat
  BY AllServicesIs, MetricsAssumption
<1>2. /\ \A l \in Range(F) : l.status = "failed"
      /\ \A u \in Names : units[u] = "failed" => \E n \in 1 .. Len(F) : F[n].name = u
  BY FailedFirst
<1>3. Len(F) <= Len(all) /\ \A i \in 1 .. Len(F) : all[i] = F[i]
  BY AllServicesIs DEF Begins
<1>. HIDE DEF F, all, list
<1>0. Len(F) \in Nat /\ Len(all) \in Nat /\ DOMAIN F = 1 .. Len(F)
  BY <1>1, LenProperties
<1>4. /\ list \in Seq(LoadedLines) /\ Len(list) = IF Len(all) < SVC_COUNT THEN Len(all) ELSE SVC_COUNT
      /\ \A i \in 1 .. Len(list) : list[i] = all[i]
  BY <1>1, AtMostProperties
<1>5. DOMAIN list = 1 .. Len(list) /\ \A i \in 1 .. Len(list) : list[i] \in LoadedLines
  BY <1>4, LenProperties, ElementOfSeq
<1>6. \A l \in Range(list) : l.status = IsActive(l.name)
  BY <1>5 DEF Range, LoadedLines, IsActive
<1>7. ASSUME NEW u \in Names, u \notin {l.name : l \in Range(list)}, units[u] = "failed"
      PROVE  Len(list) = SVC_COUNT /\ \A l \in Range(list) : l.status = "failed"
  <2>1. PICK n \in 1 .. Len(F) : F[n].name = u
    BY <1>2, <1>7
  <2>2. ~(n <= Len(list))
    <3>. SUFFICES ASSUME n <= Len(list) PROVE FALSE
      OBVIOUS
    <3>1. n \in 1 .. Len(list) /\ list[n] = F[n]
      BY <1>0, <1>3, <1>4
    <3>2. list[n] \in Range(list)
      BY <1>5, <3>1 DEF Range
    <3>. QED  BY <1>7, <2>1, <3>1, <3>2
  <2>3. Len(list) = SVC_COUNT /\ Len(list) < Len(F)
    BY <1>0, <1>1, <1>3, <1>4, <2>2
  <2>4. \A i \in 1 .. Len(list) : list[i] = F[i] /\ i \in DOMAIN F
    <3>. TAKE i \in 1 .. Len(list)
    <3>1. i \in 1 .. Len(F)
      BY <1>0, <1>1, <2>3
    <3>. QED  BY <1>0, <1>3, <1>4, <3>1
  <2>5. \A l \in Range(list) : l.status = "failed"
    BY <1>2, <1>5, <2>4 DEF Range
  <2>. QED  BY <2>3, <2>5
<1>. QED  BY <1>0, <1>1, <1>4, <1>6, <1>7 DEF ListTrue, list

\* What is left of a filter: its units and no other, as far as there is room.
LEMMA AskedIs ==
  ASSUME NEW c \in Configs, c.filter # NoFilter
  PROVE  /\ Asked(c.filter) \in Seq(Names) /\ Len(Asked(c.filter)) <= SVC_COUNT
         /\ Range(Asked(c.filter)) = Range(AtMost(SVC_COUNT, c.filter)) \ {Template}
<1>. DEFINE filter == c.filter
            cut == AtMost(SVC_COUNT, filter)
            K == {k \in DOMAIN cut : cut[k] # Template}
            asked == Keep(cut, K)
            S == Names \union {Template}
<1>1. filter \in Seq(S) /\ SVC_COUNT \in Nat /\ Template \notin Names
  BY MetricsAssumption
<1>. HIDE DEF filter
<1>2. cut \in Seq(S) /\ Len(cut) <= SVC_COUNT /\ DOMAIN cut = 1 .. Len(cut) /\ Len(cut) \in Nat
  <2>1. cut \in Seq(S) /\ Len(cut) = IF Len(filter) < SVC_COUNT THEN Len(filter) ELSE SVC_COUNT
    BY <1>1, AtMostProperties
  <2>2. Len(filter) \in Nat
    BY <1>1, LenProperties
  <2>. HIDE DEF cut
  <2>. QED  BY <1>1, <2>1, <2>2, LenProperties
<1>3. Asked(filter) = asked
  BY DEF Asked
<1>. HIDE DEF cut
<1>4. K \in SUBSET (1 .. Len(cut)) /\ \A k \in K : cut[k] \in Names
  BY <1>2, ElementOfSeq
<1>5. \A k \in DOMAIN cut \ K : cut[k] = Template
  OBVIOUS
<1>6. K \subseteq DOMAIN cut /\ \A k \in K : cut[k] # Template
  OBVIOUS
<1>. HIDE DEF K
<1>7. /\ asked \in Seq(S) /\ Len(asked) <= Len(cut)
      /\ \A n \in 1 .. Len(asked) : \E p \in K : asked[n] = cut[p]
      /\ \A p \in K : \E n \in 1 .. Len(asked) : asked[n] = cut[p]
  BY <1>2, <1>4, KeepProperties
<1>. HIDE DEF asked
<1>8. DOMAIN asked = 1 .. Len(asked) /\ Len(asked) \in Nat
  BY <1>7, LenProperties
<1>9. asked \in Seq(Names) /\ Len(asked) <= SVC_COUNT
  <2>1. \A n \in 1 .. Len(asked) : asked[n] \in Names
    BY <1>4, <1>7
  <2>. QED  BY <1>1, <1>2, <1>7, <1>8, <2>1
<1>10. Range(asked) = Range(cut) \ {Template}
  <2>1. ASSUME NEW u \in Range(asked) PROVE u \in Range(cut) \ {Template}
    BY <1>6, <1>7, <1>8 DEF Range
  <2>2. ASSUME NEW u \in Range(cut) \ {Template} PROVE u \in Range(asked)
    <3>1. PICK k \in DOMAIN cut : cut[k] = u
      BY DEF Range
    <3>2. k \in K
      BY <1>5, <3>1
    <3>3. PICK n \in 1 .. Len(asked) : asked[n] = cut[k]
      BY <1>7, <3>2
    <3>. QED  BY <1>8, <3>1, <3>3 DEF Range
  <2>. QED  BY <2>1, <2>2
<1>. QED  BY <1>3, <1>9, <1>10 DEF cut, filter

\* With a filter: its units, each with its state.
LEMMA FilteredTrue ==
  ASSUME UnitsOK, NEW c \in Configs, c.filter # NoFilter
  PROVE  Len(Filtered(c.filter)) <= SVC_COUNT /\ ListTrue(Filtered(c.filter), c.filter)
<1>. DEFINE asked == Asked(c.filter)
            list == Filtered(c.filter)
<1>1. /\ asked \in Seq(Names) /\ Len(asked) <= SVC_COUNT
      /\ Range(asked) = Range(AtMost(SVC_COUNT, c.filter)) \ {Template}
  BY AskedIs
<1>2. list = [k \in DOMAIN asked |-> [name |-> asked[k], status |-> IsActive(asked[k])]]
  BY DEF Filtered
<1>. HIDE DEF asked, list
<1>3. DOMAIN asked = 1 .. Len(asked) /\ Len(asked) \in Nat
  BY <1>1, LenProperties
<1>4. Len(list) = Len(asked) /\ DOMAIN list = DOMAIN asked
  BY <1>2, <1>3
<1>5. \A k \in DOMAIN list : list[k].name = asked[k] /\ list[k].status = IsActive(asked[k])
  BY <1>2, <1>4
<1>6. \A l \in Range(list) : l.status = IsActive(l.name)
  BY <1>5 DEF Range
<1>7. {l.name : l \in Range(list)} = Range(asked)
  BY <1>4, <1>5 DEF Range
<1>8. ListTrue(list, c.filter)
  BY <1>1, <1>6, <1>7 DEF ListTrue
<1>. QED  BY <1>1, <1>4, <1>8 DEF list

\* A list is no longer than the wire has room for, an answer is a true one.
LEMMA Collected ==
  ASSUME ServicesInv, NEW answered \in BOOLEAN
  PROVE  /\ Len(CollectServices(wanted.filter, answered)) <= SVC_COUNT
         /\ answered => ListTrue(CollectServices(wanted.filter, answered), wanted.filter)
<1>. DEFINE list == CollectServices(wanted.filter, answered)
<1>0. UnitsOK /\ wanted \in Configs /\ SVC_COUNT \in Nat
  BY MetricsAssumption DEF ServicesInv
<1>1. CASE answered /\ wanted.filter = NoFilter
  <2>1. list = AllServices
    BY <1>1 DEF CollectServices
  <2>. QED  BY <1>0, <1>1, <2>1, AllServicesTrue
<1>2. CASE answered /\ wanted.filter # NoFilter
  <2>1. list = Filtered(wanted.filter)
    BY <1>2 DEF CollectServices
  <2>. QED  BY <1>0, <1>2, <2>1, FilteredTrue
<1>3. CASE ~answered /\ wanted.filter = NoFilter
  <2>1. list = <<>>
    BY <1>3 DEF CollectServices, NoAnswer
  <2>. QED  BY <1>0, <1>3, <2>1
<1>4. CASE ~answered /\ wanted.filter # NoFilter
  <2>. DEFINE asked == Asked(wanted.filter)
  <2>1. list = [k \in DOMAIN asked |-> [name |-> asked[k], status |-> "maintenance"]]
    BY <1>4 DEF CollectServices, NoAnswer
  <2>2. asked \in Seq(Names) /\ Len(asked) <= SVC_COUNT
    BY <1>0, <1>4, AskedIs
  <2>. HIDE DEF asked
  <2>3. DOMAIN asked = 1 .. Len(asked) /\ Len(asked) \in Nat
    BY <2>2, LenProperties
  <2>. QED  BY <1>4, <2>1, <2>2, <2>3
<1>. QED  BY <1>1, <1>2, <1>3, <1>4

\* What a sample does about the services.
LEMMA SampledServices ==
  ASSUME Sample
  PROVE  \E answered \in BOOLEAN :
           /\ UNCHANGED <<now, units, wanted>>
           /\ services' = CollectServicesCached(answered)
           /\ snap'.services = services'.list
           /\ IF answered \/ Cached THEN unitsAt' = unitsAt ELSE unitsAt' = now
<1>1. PICK answered \in BOOLEAN, counted \in BOOLEAN, told \in Answers :
        /\ unitsAt' = IF answered \/ Cached THEN unitsAt ELSE now
        /\ services' = CollectServicesCached(answered)
        /\ snap' = [rate |-> IF wanted.shown /\ Known(prevNet) THEN Rate(prevNet, counted) ELSE 0,
                    ip |-> IF wanted.shown THEN IfaceIpCached(wanted.mode, told).ip ELSE "",
                    services |-> services'.list]
        /\ UNCHANGED <<now, units, addrs, bytes, wanted>>
  BY DEF Sample
<1>2. snap'.services = services'.list
  BY <1>1
<1>3. IF answered \/ Cached THEN unitsAt' = unitsAt ELSE unitsAt' = now
  BY <1>1
<1>. QED  BY <1>1, <1>2, <1>3

\* The entry a sample leaves: of the filter wanted now, and true unless a unit
\* changed or a query failed as lately as an entry lives.
LEMMA SampledEntry ==
  ASSUME ServicesInv, Sample
  PROVE  /\ Known(services') /\ services'.at \in 0 .. now /\ services'.key = wanted.filter
         /\ Len(services'.list) <= SVC_COUNT /\ snap'.services = services'.list
         /\ unitsAt' \in Int /\ unitsAt' <= now
         /\ services'.at > unitsAt' => ListTrue(services'.list, wanted.filter)
         /\ now - unitsAt' < SLOW_POLL_TTL \/ ListTrue(services'.list, wanted.filter)
<1>1. PICK answered \in BOOLEAN :
           /\ UNCHANGED <<now, units, wanted>>
           /\ services' = CollectServicesCached(answered)
           /\ snap'.services = services'.list
           /\ IF answered \/ Cached THEN unitsAt' = unitsAt ELSE unitsAt' = now
  BY SampledServices
<1>0. SLOW_POLL_TTL \in Nat \ {0} /\ now \in Nat /\ unitsAt \in Int /\ unitsAt <= now
  BY MetricsAssumption DEF ServicesInv
<1>2. CASE Cached
  <2>1. services' = services /\ unitsAt' = unitsAt
    BY <1>1, <1>2 DEF CollectServicesCached
  <2>2. Known(services) /\ now - services.at < SLOW_POLL_TTL /\ services.key = wanted.filter
    BY <1>2 DEF Cached, Fresh
  <2>3. /\ services.at \in 0 .. now /\ Len(services.list) <= SVC_COUNT
        /\ services.at > unitsAt => ListTrue(services.list, wanted.filter)
    BY <2>2 DEF ServicesInv
  <2>4. now - unitsAt < SLOW_POLL_TTL \/ services.at > unitsAt
    BY <1>0, <2>2, <2>3
  <2>. QED  BY <1>0, <1>1, <2>1, <2>2, <2>3, <2>4
<1>3. CASE ~Cached
  <2>. DEFINE list == CollectServices(wanted.filter, answered)
  <2>1. services' = [at |-> now, key |-> wanted.filter, list |-> list]
    BY <1>1, <1>3 DEF CollectServicesCached
  <2>2. Len(list) <= SVC_COUNT /\ (answered => ListTrue(list, wanted.filter))
    BY Collected
  <2>. HIDE DEF list
  <2>3. /\ services'.at = now /\ services'.key = wanted.filter /\ services'.list = list
    BY <2>1
  <2>4. Known(services')
    <3>1. NoEntry.at = -1
      BY DEF NoEntry
    <3>. QED  BY <1>0, <2>3, <3>1 DEF Known
  <2>5. answered \/ unitsAt' = now
    BY <1>1, <1>3
  <2>6. unitsAt' = unitsAt \/ unitsAt' = now
    BY <1>1
  <2>. QED  BY <1>0, <1>1, <2>2, <2>3, <2>4, <2>5, <2>6
<1>. QED  BY <1>2, <1>3

\* With the same units a list is as true as it was.
LEMMA SameList == UNCHANGED units => \A list, filter : ListTrue(list, filter)' <=> ListTrue(list, filter)
BY DEF ListTrue, IsActive

LEMMA ServicesInit == MetInit => ServicesInv
<1>. SUFFICES ASSUME MetInit PROVE ServicesInv
  OBVIOUS
<1>1. now = 0 /\ wanted \in Configs /\ unitsAt = -SLOW_POLL_TTL /\ services = NoEntry
  BY DEF MetInit
<1>2. UnitsOK
  BY DEF MetInit, UnitsOK, Statuses
<1>3. SLOW_POLL_TTL \in Nat \ {0}
  BY MetricsAssumption
<1>. QED  BY <1>1, <1>2, <1>3 DEF ServicesInv, Known

LEMMA ServicesNext == ServicesInv /\ [MetNext]_metricsVars => ServicesInv'
<1>. SUFFICES ASSUME ServicesInv, [MetNext]_metricsVars PROVE ServicesInv'
  OBVIOUS
<1>0. /\ now \in Nat /\ wanted \in Configs /\ UnitsOK /\ unitsAt \in Int /\ unitsAt <= now
      /\ Known(services) => /\ services.at \in 0 .. now /\ Len(services.list) <= SVC_COUNT
                            /\ services.at > unitsAt => ListTrue(services.list, services.key)
  BY DEF ServicesInv
<1>1. CASE Sample
  <2>1. UNCHANGED <<now, units, wanted>>
    BY <1>1, SampledServices
  <2>2. (services'.at > unitsAt' => ListTrue(services'.list, services'.key))
    BY <1>1, SampledEntry
  <2>3. UnitsOK'
    BY <1>0, <2>1 DEF UnitsOK
  <2>4. /\ services'.at \in 0 .. now /\ Len(services'.list) <= SVC_COUNT
        /\ unitsAt' \in Int /\ unitsAt' <= now
    BY <1>1, SampledEntry
  <2>. QED  BY <1>0, <2>1, <2>2, <2>3, <2>4, SameList DEF ServicesInv
<1>2. CASE NewCollector
  <2>1. services' = NoEntry /\ UNCHANGED <<now, units, wanted, unitsAt>>
    BY <1>2 DEF NewCollector, hist
  <2>. QED  BY <1>0, <2>1 DEF ServicesInv, UnitsOK, Known
<1>3. CASE SetUnit
  <2>1. unitsAt' = now /\ UNCHANGED <<now, wanted, services>>
    BY <1>3 DEF SetUnit, collector
  <2>2. UnitsOK'
    <3>1. PICK u \in Names, s \in {"active", "failed", "gone"} : units' = [units EXCEPT ![u] = s]
      BY <1>3 DEF SetUnit
    <3>. QED  BY <1>0, <3>1 DEF UnitsOK, Statuses
  <2>. QED  BY <1>0, <2>1, <2>2 DEF ServicesInv, Known
<1>4. CASE Tick
  <2>1. now' = now + 1 /\ UNCHANGED <<units, wanted, services, unitsAt>>
    BY <1>4 DEF Tick, collector, hist
  <2>2. UnitsOK'
    BY <1>0, <2>1 DEF UnitsOK
  <2>. QED  BY <1>0, <2>1, <2>2, SameList DEF ServicesInv, Known
<1>5. CASE Reconfigure
  <2>1. wanted' \in Configs /\ UNCHANGED <<now, units, services, unitsAt>>
    BY <1>5 DEF Reconfigure, collector, hist
  <2>2. UnitsOK'
    BY <1>0, <2>1 DEF UnitsOK
  <2>. QED  BY <1>0, <2>1, <2>2, SameList DEF ServicesInv, Known
<1>6. CASE UNCHANGED <<now, units, wanted, services, unitsAt>>
  <2>1. UnitsOK'
    BY <1>0, <1>6 DEF UnitsOK
  <2>. QED  BY <1>0, <1>6, <2>1, SameList DEF ServicesInv, Known
<1>7. SetAddrs \/ Receive \/ Restart \/ UNCHANGED metricsVars =>
        UNCHANGED <<now, units, wanted, services, unitsAt>>
  BY DEF SetAddrs, Receive, Restart, collector, hist, metricsVars
<1>. QED  BY <1>1, <1>2, <1>3, <1>4, <1>5, <1>6, <1>7 DEF MetNext

\* What a sample says of the services is at most a cache entry's life out of date,
\* for any units, filters, changes, failures to ask and room on the wire.
THEOREM ServicesTheorem == MetSpec => ServicesShown
<1>1. MetSpec => []ServicesInv
  BY ServicesInit, ServicesNext, PTL DEF MetSpec
<1>2. ServicesInv /\ Sample => ServicesTrue'
  <2>. SUFFICES ASSUME ServicesInv, Sample PROVE ServicesTrue'
    OBVIOUS
  <2>1. UNCHANGED <<now, units, wanted>>
    BY SampledServices
  <2>2. /\ snap'.services = services'.list
        /\ now - unitsAt' < SLOW_POLL_TTL \/ ListTrue(services'.list, wanted.filter)
    BY SampledEntry
  <2>3. now - unitsAt' < SLOW_POLL_TTL \/ ListTrue(snap.services, wanted.filter)'
    BY <2>1, <2>2, SameList
  <2>. QED  BY <2>1, <2>3 DEF ServicesTrue, ListTrue
<1>. QED  BY <1>1, <1>2, PTL DEF ServicesShown

-----------------------------------------------------------------------------
(* The metrics: types                                                      *)

\* What the other invariants leave of the types: of the world, of the cached
\* addresses and of the last sample.
Bounded == now \in 0 .. MaxTime /\ addrs \subseteq Addrs /\ changes \in 0 .. MaxChanges
IpsTyped ==
  \A m \in Modes :
    ifaceIps[m] = NoEntry \/ (ifaceIps[m] \in [at : 0 .. now, ip : Addrs \union {""}])
SnapTyped == Len(snap.services) <= SVC_COUNT /\ snap.rate \in Nat

MetRest == Bounded /\ IpsTyped /\ SnapTyped

MetTypeInv == InterfaceInv /\ ServicesInv /\ MetRest

LEMMA MetTypeInvTypes == MetTypeInv => MetTypeOK
<1>. SUFFICES ASSUME MetTypeInv PROVE MetTypeOK
  OBVIOUS
<1>0. Counted /\ Addressed /\ ServicesInv /\ MetRest
  BY DEF MetTypeInv, InterfaceInv
<1>1. DOMAIN ifaceIps = Modes
  BY <1>0 DEF Addressed
<1>. QED  BY <1>0, <1>1 
     DEF MetTypeOK, MetRest, Bounded, IpsTyped, SnapTyped, Counted, Addressed, ServicesInv, UnitsOK, Known

\* An address that is told is one of the interface's, or none.
LEMMA AddressType ==
  ASSUME NEW told \in SUBSET Addrs, NEW m \in Modes
  PROVE  IfaceIp(m, told) \in Addrs \union {""}
<1>1. ASSUME NEW kinds \in {<<"v4">>, <<"global", "local">>, <<"v4", "global", "local">>}
      PROVE  FirstOf(kinds, told) \in Addrs \union {""}
  <2>1. \A k \in 1 .. Len(kinds) : kinds[k] \in Addrs
    BY <1>1 DEF Addrs
  <2>2. CASE \E k \in 1 .. Len(kinds) : kinds[k] \in told
    <3>. DEFINE there == {k \in 1 .. Len(kinds) : kinds[k] \in told}
    <3>1. there \in SUBSET Nat /\ there # {}
      BY <2>2
    <3>2. PICK k \in there : \A j \in there : k <= j
      BY <3>1, LeastExists
    <3>3. k \in 1 .. Len(kinds) /\ kinds[k] \in told /\ \A j \in 1 .. k - 1 : kinds[j] \notin told
      BY <1>1, <3>2
    <3>. QED  BY <2>1, <2>2, <3>3 DEF FirstOf
  <2>3. CASE ~\E k \in 1 .. Len(kinds) : kinds[k] \in told
    BY <2>3 DEF FirstOf
  <2>. QED  BY <2>2, <2>3
<1>2. FirstOf(<<"v4">>, told) \in Addrs \union {""}
  BY <1>1
<1>3. FirstOf(<<"global", "local">>, told) \in Addrs \union {""}
  BY <1>1
<1>4. FirstOf(<<"v4", "global", "local">>, told) \in Addrs \union {""}
  BY <1>1
<1>. QED  BY <1>2, <1>3, <1>4 DEF IfaceIp, Modes

\* A rate is a natural number, whether or not the counter can be read.
LEMMA RateType ==
  ASSUME Counted, Known(prevNet), NEW counted \in BOOLEAN
  PROVE  Rate(prevNet, counted) \in Nat
<1>. DEFINE s == IF now > prevNet.at THEN now - prevNet.at ELSE 1
            c == Counter(counted)
            d == IF c > prevNet.bytes THEN c - prevNet.bytes ELSE 0
<1>1. now \in Nat /\ c \in Nat /\ prevNet.at \in 0 .. now /\ prevNet.bytes \in Nat
  BY DEF Counted, Known, Counter
<1>3. Rate(prevNet, counted) = d \div s
  BY DEF Rate
<1>. HIDE DEF c
<1>2. s \in Nat /\ s > 0 /\ d \in Nat
  BY <1>1
<1>. HIDE DEF s, d
<1>. QED  BY <1>2, <1>3

LEMMA MetTypeInit == MetInit => MetTypeInv
<1>. SUFFICES ASSUME MetInit PROVE MetTypeInv
  OBVIOUS
<1>1. /\ now = 0 /\ addrs = {"v4", "local"} /\ changes = 0
      /\ ifaceIps = [m \in Modes |-> NoEntry]
      /\ snap = [rate |-> 0, ip |-> "", services |-> <<>>]
  BY DEF MetInit, Modes
<1>2. MaxTime \in Nat /\ MaxChanges \in Nat /\ SVC_COUNT \in Nat
  BY MetricsAssumption
<1>3. snap.rate = 0 /\ Len(snap.services) = 0
  BY <1>1
<1>4. Bounded /\ IpsTyped
  <2>1. Bounded
    <3>1. addrs \subseteq Addrs
      BY <1>1 DEF Addrs
    <3>2. now = 0 /\ changes = 0
      BY <1>1
    <3>3. now \in 0 .. MaxTime /\ changes \in 0 .. MaxChanges
      BY <1>2, <3>2
    <3>. QED  BY <3>1, <3>3 DEF Bounded
  <2>2. IpsTyped
    BY <1>1 DEF IpsTyped
  <2>. QED  BY <2>1, <2>2
<1>5. SnapTyped
  BY <1>2, <1>3 DEF SnapTyped
<1>. QED  BY <1>4, <1>5, InterfaceInit, ServicesInit DEF MetTypeInv, MetRest

\* The world's share of a step.
LEMMA BoundedNext == Bounded /\ [MetNext]_metricsVars => Bounded'
<1>. SUFFICES ASSUME Bounded, [MetNext]_metricsVars PROVE Bounded'
  OBVIOUS
<1>0. /\ now \in 0 .. MaxTime /\ changes \in 0 .. MaxChanges /\ addrs \subseteq Addrs
      /\ MaxTime \in Nat /\ MaxChanges \in Nat
  BY MetricsAssumption DEF Bounded
<1>1. now' \in 0 .. MaxTime
  <2>1. CASE Tick
    <3>1. now < MaxTime /\ now' = now + 1
      BY <2>1 DEF Tick
    <3>. QED  BY <1>0, <3>1
  <2>2. CASE ~Tick
    <3>1. now' = now
      BY <2>2 DEF MetNext, Sample, NewCollector, SetUnit, SetAddrs, Receive, Restart, Reconfigure, metricsVars
    <3>. QED  BY <1>0, <3>1
  <2>. QED  BY <2>1, <2>2
<1>2. changes' \in 0 .. MaxChanges
  <2>1. changes' = changes \/ (changes < MaxChanges /\ changes' = changes + 1)
    BY DEF MetNext, Sample, NewCollector, SetUnit, SetAddrs, Receive, Restart, Reconfigure, Tick,
           Change, metricsVars
  <2>. QED  BY <1>0, <2>1
<1>3. addrs' \subseteq Addrs
  <2>1. CASE SetAddrs
    <3>1. addrs' \in {{"v4", "local"}, {"global", "local"}, {}}
      BY <2>1 DEF SetAddrs
    <3>. QED  BY <3>1 DEF Addrs
  <2>2. CASE ~SetAddrs
    <3>1. addrs' = addrs
      BY <2>2 DEF MetNext, Sample, NewCollector, SetUnit, Receive, Restart, Reconfigure, Tick, metricsVars
    <3>. QED  BY <1>0, <3>1
  <2>. QED  BY <2>1, <2>2
<1>. QED  BY <1>1, <1>2, <1>3 DEF Bounded

\* The cached addresses' share.
LEMMA IpsNext == InterfaceInv /\ Bounded /\ IpsTyped /\ [MetNext]_metricsVars => IpsTyped'
<1>. SUFFICES ASSUME InterfaceInv, Bounded, IpsTyped, [MetNext]_metricsVars PROVE IpsTyped'
  OBVIOUS
<1>0. now \in Nat /\ Addressed /\ addrs \subseteq Addrs
  BY DEF InterfaceInv, Counted, Bounded
<1>1. CASE Sample
  <2>1. PICK counted \in BOOLEAN, told \in Answers :
          now' = now /\ CollectIfaces(counted, told)
    BY <1>1, Sampled
  <2>2. ASSUME NEW m \in Modes
        PROVE  ifaceIps'[m] = NoEntry \/ (ifaceIps'[m] \in [at : 0 .. now, ip : Addrs \union {""}])
    <3>1. ifaceIps'[m] = ifaceIps[m] \/ ifaceIps'[m] = IfaceIpCached(m, told)
      BY <1>0, <2>1 DEF CollectIfaces, Addressed
    <3>2. IfaceIpCached(m, told) = ifaceIps[m] \/ IfaceIpCached(m, told) = [at |-> now, ip |-> IfaceIp(m, told)]
      BY DEF IfaceIpCached
    <3>3. [at |-> now, ip |-> IfaceIp(m, told)] \in [at : 0 .. now, ip : Addrs \union {""}]
      <4>1. IfaceIp(m, told) \in Addrs \union {""}
        <5>1. told \in SUBSET Addrs
          BY <1>0 DEF Answers
        <5>. QED  BY <5>1, AddressType
      <4>2. now \in 0 .. now
        BY <1>0
      <4>. QED  BY <4>1, <4>2
    <3>. QED  BY <3>1, <3>2, <3>3 DEF IpsTyped
  <2>. QED  BY <2>1, <2>2 DEF IpsTyped
<1>2. CASE NewCollector
  BY <1>0, <1>2 DEF NewCollector, Addressed, IpsTyped
<1>3. CASE Tick
  <2>1. now' = now + 1 /\ ifaceIps' = ifaceIps
    BY <1>3 DEF Tick, collector
  <2>2. 0 .. now \subseteq 0 .. now'
    BY <1>0, <2>1
  <2>. QED  BY <2>1, <2>2 DEF IpsTyped
<1>4. CASE UNCHANGED <<now, ifaceIps>>
  BY <1>4 DEF IpsTyped
<1>5. SetUnit \/ SetAddrs \/ Receive \/ Restart \/ Reconfigure \/ UNCHANGED metricsVars =>
        UNCHANGED <<now, ifaceIps>>
  BY DEF SetUnit, SetAddrs, Receive, Restart, Reconfigure, collector, metricsVars
<1>. QED  BY <1>1, <1>2, <1>3, <1>4, <1>5 DEF MetNext

\* The last sample's share.
LEMMA SnapNext == InterfaceInv /\ ServicesInv /\ SnapTyped /\ [MetNext]_metricsVars => SnapTyped'
<1>. SUFFICES ASSUME InterfaceInv, ServicesInv, SnapTyped, [MetNext]_metricsVars PROVE SnapTyped'
  OBVIOUS
<1>1. CASE Sample
  <2>1. Len(snap'.services) <= SVC_COUNT
    BY <1>1, SampledEntry
  <2>2. PICK counted \in BOOLEAN :
          snap'.rate = IF wanted.shown /\ Known(prevNet) THEN Rate(prevNet, counted) ELSE 0
    BY <1>1, Sampled
  <2>3. Known(prevNet) => Rate(prevNet, counted) \in Nat
    BY RateType DEF InterfaceInv
  <2>. QED  BY <2>1, <2>2, <2>3 DEF SnapTyped
<1>2. CASE UNCHANGED snap
  BY <1>2 DEF SnapTyped
<1>3. NewCollector \/ SetUnit \/ SetAddrs \/ Receive \/ Restart \/ Reconfigure \/ Tick
        \/ UNCHANGED metricsVars => UNCHANGED snap
  BY DEF NewCollector, SetUnit, SetAddrs, Receive, Restart, Reconfigure, Tick, metricsVars
<1>. QED  BY <1>1, <1>2, <1>3 DEF MetNext

LEMMA MetTypeNext == MetTypeInv /\ [MetNext]_metricsVars => MetTypeInv'
BY CountedNext, CachedNext, ServicesNext, BoundedNext, IpsNext, SnapNext
   DEF MetTypeInv, InterfaceInv, MetRest

\* The metrics' variables keep their types, and a list of services stays within
\* the room on the wire.
THEOREM MetTypeTheorem == MetSpec => []MetTypeOK
<1>. QED  BY MetTypeInit, MetTypeNext, MetTypeInvTypes, PTL DEF MetSpec

-----------------------------------------------------------------------------
(* The parts side by side                                                  *)

\* In a behaviour of the five side by side each is a behaviour of its own, so
\* that what is proved of each holds of them.
THEOREM PartsTheorem == PartsSpec => CfgSpec /\ DevSpec /\ MetSpec /\ KbSpec /\ Spec
<1>. DEFINE partsVars == <<part, cfgVars, devicesVars, metricsVars, kbVars, vars>>
<1>1. PartsInit => CfgInit /\ DevInit /\ MetInit /\ KbInit /\ Init
  BY DEF PartsInit, CfgRests, DevRests, MetRests, KbRests, RxRests
<1>2. [PartsNext]_partsVars =>
        [CfgNext]_cfgVars /\ [DevNext]_devicesVars /\ [MetNext]_metricsVars
        /\ [KbNext]_kbVars /\ [Next]_vars
  BY DEF PartsNext
<1>. QED  BY <1>1, <1>2, PTL DEF PartsSpec, CfgSpec, DevSpec, MetSpec, KbSpec, Spec

\* So the types of four of them hold, for any values of the constants.
THEOREM PartsTypeTheorem == PartsSpec => []PartsTypeOK
<1>1. CfgTypeOK /\ DevTypeOK /\ MetTypeOK /\ TypeOK => PartsTypeOK
  BY DEF PartsTypeOK
<1>. QED  BY <1>1, PartsTheorem, CfgTypeTheorem, DevTypeTheorem, MetTypeTheorem, TypeTheorem, PTL

=============================================================================
