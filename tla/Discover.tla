------------------------------- MODULE Discover -------------------------------
(***************************************************************************)
(* Which board the daemon talks to: the serial ports of the host as the    *)
(* kernel and udev name them, list_serial_devices and pick_device, the     *)
(* settings that `setup` saves and `run` loads, and run_forever, which     *)
(* resolves a path, opens it, and while the session runs asks again        *)
(* whether this is still the path it would choose.                         *)
(*                                                                         *)
(* A path is a number: /dev/tty-buddy, then the links /dev/tty-buddy-      *)
(* <serial>, named by their serial, then the nodes.  This is also the      *)
(* order of the paths as strings.  What the session does with its port is  *)
(* Session's.                                                              *)
(***************************************************************************)
EXTENDS Integers, FiniteSets

CONSTANTS
  Boards,    \* USB serial devices
  Serial,    \* of each board, or NoSerial
  Ids,       \* of each board: "esp" is 303a:1001
  Ports,     \* the numbers the kernel may give the node of a board
  Saved,     \* settings daemon.toml may hold at first
  Users,     \* login users
  MaxMoves   \* bound: boards plugged and unplugged

NoSerial == 0
Gone == -1            \* no such path, or nothing behind it
Buddy == 0            \* /dev/tty-buddy
Serials == {Serial[b] : b \in Boards} \ {NoSerial}
LinkNames == {Buddy} \union Serials
Nodes == UNION {Ports[b] : b \in Boards}

ASSUME DiscoverAssumption ==
  /\ Serial \in [Boards -> Nat] /\ Ids \in [Boards -> {"esp", "other"}]
  /\ \A b, c \in Boards : Serial[b] = Serial[c] /\ Serial[b] # NoSerial => b = c
  /\ \A b \in Boards : Ports[b] \subseteq {n \in Nat : \A l \in LinkNames : n > l}
  /\ Saved \subseteq [path : Int, ids : {"esp", "other", "any"}, serial : Nat, user : Users]
  /\ \A s \in Saved : s.serial \notin Nodes
  /\ MaxMoves \in Nat

VARIABLES
  nodeOf,   \* of each board, or Gone
  links,    \* the node behind each of udev's links, or Gone
  pending,  \* boards whose coming or going udev has yet to handle
  settings, \* DaemonSettings; the daemon has loaded them unless it is "off"
  phase,    \* "off", "waiting", "resolved" or "session"
  dev,      \* the path resolve_device returned, or Gone
  board,    \* the board behind the open port
  live,     \* the port's device has not gone since
  sure,     \* history: see Open
  moves     \* boards plugged and unplugged so far

devicesVars == <<nodeOf, links, pending, settings, phase, dev, board, live, sure, moves>>
world == <<nodeOf, links, pending, moves>>

-----------------------------------------------------------------------------
(* /dev                                                                    *)

Plugged == {b \in Boards : nodeOf[b] # Gone}

\* The node a path leads to.
Canonical(p) == IF p \in LinkNames THEN links[p] ELSE p
Behind(p) == {b \in Plugged : nodeOf[b] = Canonical(p)}
Exists(p) == Behind(p) # {}

\* The name list_serial_devices lists a board under: every node once, by the
\* first of the links to it if there are any.
ListedAs(b) ==
  LET names == {l \in LinkNames : links[l] = nodeOf[b]} \union {nodeOf[b]}
  IN CHOOSE p \in names : \A q \in names : p <= q

\* Espressif's devices come first in the list, then by path.
Before(b, c) ==
  \/ Ids[b] = "esp" /\ Ids[c] # "esp"
  \/ (Ids[b] = "esp" <=> Ids[c] = "esp") /\ ListedAs(b) <= ListedAs(c)
First(bs) == ListedAs(CHOOSE b \in bs : \A c \in bs : Before(b, c))

-----------------------------------------------------------------------------
(* pick_device                                                             *)

Matching(ids) == {b \in Plugged : ids # "any" /\ Ids[b] = ids}

\* The first board with the vendor and product configured, or of Espressif's;
\* or the one behind /dev/tty-buddy; or the first.
Unpinned ==
  IF Matching(settings.ids) # {} THEN First(Matching(settings.ids))
  ELSE IF Matching("esp") # {} THEN First(Matching("esp"))
  ELSE IF \E b \in Plugged : ListedAs(b) = Buddy THEN Buddy
  ELSE IF Plugged # {} THEN First(Plugged)
  ELSE Gone

Pool == IF settings.ids = "any" THEN Plugged ELSE Matching(settings.ids)
Pinned == {b \in Pool : Serial[b] = settings.serial}

\* Mutant of PickDevice: a serial that is not there is ignored.
PickDeviceFailOpen ==
  IF settings.path # Gone /\ Exists(settings.path) THEN settings.path
  ELSE IF settings.serial # NoSerial /\ Pinned # {} THEN First(Pinned)
  ELSE Unpinned

PickDevice ==
  IF settings.path # Gone /\ Exists(settings.path) THEN settings.path
  ELSE IF settings.serial = NoSerial THEN Unpinned
  ELSE IF Pinned # {} THEN First(Pinned)
  ELSE Gone

-----------------------------------------------------------------------------
DevInit ==
  /\ nodeOf = [b \in Boards |-> Gone] /\ links = [l \in LinkNames |-> Gone]
  /\ pending = {} /\ moves = 0
  /\ settings \in Saved
  /\ phase = "off" /\ dev = Gone /\ board \in Boards /\ live = FALSE /\ sure = FALSE

(* The commands                                                            *)

\* `setup`: the user chooses one of the devices listed.
Setup ==
  /\ phase = "off"
  /\ \E b \in Plugged, u \in Users :
       settings' = [path |-> ListedAs(b), ids |-> Ids[b], serial |-> Serial[b], user |-> u]
  /\ UNCHANGED <<world, phase, dev, board, live, sure>>

\* `run`, with --port or without, as user u: shell_user must be the same.
Run ==
  /\ phase = "off"
  /\ \E u \in Users, p \in Nodes \union {settings.path} :
       settings.user = u /\ settings' = [settings EXCEPT !.path = p]
  /\ phase' = "waiting"
  /\ UNCHANGED <<world, dev, board, live, sure>>

-----------------------------------------------------------------------------
(* run_forever and device_still_there                                      *)

Resolve ==
  /\ phase = "waiting" /\ PickDevice # Gone
  /\ dev' = PickDevice /\ phase' = "resolved" /\ sure' = (pending = {})
  /\ UNCHANGED <<world, settings, board, live>>

\* BuddySerial::open follows the path as it is now.  History: the choice is sure
\* if udev has nothing to do and either nothing moved since the path was
\* resolved or the path is the link of the serial wanted.
Open ==
  /\ phase = "resolved" /\ Exists(dev)
  /\ board' \in Behind(dev) /\ live' = TRUE /\ phase' = "session"
  /\ sure' = (pending = {} /\ (sure \/ dev = settings.serial))
  /\ UNCHANGED <<world, settings, dev>>

OpenFails ==
  /\ phase = "resolved" /\ ~Exists(dev)
  /\ phase' = "waiting" /\ dev' = Gone /\ sure' = FALSE
  /\ UNCHANGED <<world, settings, board, live>>

\* Mutant of StillThere: the path is compared with the node behind it.
StillThereByNode == Exists(dev) /\ (PickDevice = Gone \/ Canonical(PickDevice) = dev)

StillThere == Exists(dev) /\ (PickDevice = Gone \/ PickDevice = dev)

\* "device unplugged", or three failed sends in a row.
SessionEnds ==
  /\ phase = "session" /\ (~StillThere \/ ~live)
  /\ phase' = "waiting" /\ dev' = Gone /\ live' = FALSE /\ sure' = FALSE
  /\ UNCHANGED <<world, settings, board>>

-----------------------------------------------------------------------------
(* The world                                                               *)

\* Something moved: a path resolved and not yet opened is no longer sure.
Moved == sure' = (sure /\ phase # "resolved")

Attach ==
  /\ moves < MaxMoves /\ moves' = moves + 1
  /\ \E b \in Boards \ Plugged : \E n \in Ports[b] \ {nodeOf[c] : c \in Boards} :
       nodeOf' = [nodeOf EXCEPT ![b] = n] /\ pending' = pending \union {b}
  /\ Moved
  /\ UNCHANGED <<links, settings, phase, dev, board, live>>

Detach ==
  /\ moves < MaxMoves /\ moves' = moves + 1
  /\ \E b \in Plugged :
       /\ nodeOf' = [nodeOf EXCEPT ![b] = Gone] /\ pending' = pending \union {b}
       /\ live' = (live /\ board # b)
  /\ Moved
  /\ UNCHANGED <<links, settings, phase, dev, board>>

\* udev handles what happened to a board: its serial's link comes or goes;
\* /dev/tty-buddy leads to any of the boards that claim it.
Udev ==
  /\ \E b \in pending :
       LET claimants == {nodeOf[c] : c \in {d \in Matching("esp") : d \notin pending \ {b}}} IN
         /\ pending' = pending \ {b}
         /\ \E t \in IF claimants = {} THEN {Gone} ELSE claimants :
              links' = [l \in LinkNames |->
                          IF l = Buddy THEN t
                          ELSE IF l = Serial[b] /\ Ids[b] = "esp" THEN nodeOf[b]
                          ELSE links[l]]
  /\ Moved
  /\ UNCHANGED <<nodeOf, moves, settings, phase, dev, board, live>>

DaemonStep == Resolve \/ Open \/ OpenFails \/ SessionEnds
DevNext == Setup \/ Run \/ DaemonStep \/ Attach \/ Detach \/ Udev

\* The daemon's loops go round and udev handles its events.
DevFairness == WF_devicesVars(DaemonStep) /\ WF_devicesVars(Udev)

DevSpec == DevInit /\ [][DevNext]_devicesVars /\ DevFairness

-----------------------------------------------------------------------------
DevTypeOK ==
  /\ nodeOf \in [Boards -> Nodes \union {Gone}] /\ links \in [LinkNames -> Nodes \union {Gone}]
  /\ pending \subseteq Boards /\ moves \in Nat
  /\ settings \in [path : Int, ids : {"esp", "other", "any"}, serial : Nat, user : Users]
  /\ phase \in {"off", "waiting", "resolved", "session"}
  /\ dev \in LinkNames \union Nodes \union {Gone, settings.path}
  /\ board \in Boards /\ live \in BOOLEAN /\ sure \in BOOLEAN

\* configuration.md recommends pinning a board by its serial, alone or with the
\* serial's link as device_path: then no other board is ever opened, whatever is
\* plugged, unplugged and renumbered meanwhile; unless a device took another's
\* place between the resolving and the opening of a path that is not the serial's
\* own link, or while udev was still at work.
PinHonoured ==
  phase = "session" /\ sure /\ settings.serial # NoSerial
    /\ settings.path \in {Gone, settings.serial}
  => Serial[board] = settings.serial

\* daemon.md:191 says of `setup`: if serial is set and no board matches,
\* discovery fails closed.  (A device_path that is a node, as with --port, is left
\* aside.)
FailsClosed ==
  phase # "off" /\ pending = {} /\ settings.serial # NoSerial /\ settings.path \notin Nodes
    /\ (\A b \in Plugged : Serial[b] # settings.serial)
  => PickDevice = Gone

\* Once nothing is plugged or unplugged any more, the daemon stays off, waits
\* because there is nothing to open, or keeps one session for good: asking again
\* at every turn whether the path is the right one never drops a session that is.
SessionSettles ==
  <>[](\/ phase = "off"
       \/ phase = "waiting" /\ PickDevice = Gone
       \/ phase = "session" /\ live /\ StillThere)
=============================================================================
