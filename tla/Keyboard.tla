------------------------------- MODULE Keyboard -------------------------------
(***************************************************************************)
(* The daemon's USB keyboards: the struct Keyboard of keyboard.rs, and as  *)
(* much of the kernel's evdev as it depends on -- device nodes that come   *)
(* and go, descriptors that outlive their device, exclusive grabs held     *)
(* here or by another process, a queue of events per open descriptor.      *)
(*                                                                         *)
(* A key is a number: the n-th pressed on its keyboard.  Only keys that    *)
(* keycode_to_bytes maps to bytes are modelled.                            *)
(***************************************************************************)
EXTENDS Naturals, Sequences

CONSTANTS
  Kb,         \* keyboards, named by their resolved device path
  MaxKeys     \* bound: keys pressed on each keyboard

ASSUME KeyboardAssumption == MaxKeys \in Nat

VARIABLES
  allow,      \* Keyboard.allowlist, as the keyboards it selects
  listening,  \* Keyboard.listening
  exclusive,  \* Keyboard.exclusive
  fd,         \* Keyboard.devices: "closed", "live", or "stale" (its device has gone)
  grabbed,    \* the devices whose Opened.grabbed is set
  node,       \* in /dev/input: "absent", "denied" (udev has not run yet) or "ready"
  holder,     \* who holds the exclusive grab: "none", "daemon" or "other"
  queue,      \* the keys the kernel keeps for the daemon's descriptor
  typed,      \* keys pressed so far, per keyboard
  deaf,       \* history: <<k, n>> pressed while the daemon was not listening
  read        \* history: the keys poll returned, per keyboard

structVars == <<allow, listening, exclusive, fd, grabbed>>
kbVars == <<structVars, node, holder, queue, typed, deaf, read>>
outside == <<node, typed, deaf>>

KbInit ==
  /\ allow = {} /\ listening = FALSE /\ exclusive = FALSE
  /\ fd = [k \in Kb |-> "closed"] /\ grabbed = {}
  /\ node \in [Kb -> {"absent", "ready"}]
  /\ holder = [k \in Kb |-> "none"]
  /\ queue = [k \in Kb |-> <<>>] /\ typed = [k \in Kb |-> 0]
  /\ deaf = {} /\ read = [k \in Kb |-> <<>>]

\* discover_keyboards: what the allowlist selects among the existing nodes.
Found == {k \in allow : node[k] # "absent"}

-----------------------------------------------------------------------------
(* The struct's operations                                                 *)

\* The kernel's side of the new descriptors and flags: a descriptor that is
\* closed, or whose flag is cleared, gives up the grab.
KernelGrabs ==
  holder' = [k \in Kb |-> IF holder[k] = "other" THEN "other"
                          ELSE IF fd'[k] = "live" /\ k \in grabbed' THEN "daemon" ELSE "none"]

\* A descriptor that is closed loses its queue; a new one starts empty.
KernelQueues == queue' = [k \in Kb |-> IF fd'[k] = "live" THEN queue[k] ELSE <<>>]

\* Mutant of MaintainFrom: the flag is set whether or not the grab succeeds.
MaintainFromAssumed(fds, ex) ==
  /\ fd' = [k \in Kb |-> IF k \notin Found THEN "closed"
                         ELSE IF fds[k] # "closed" THEN fds[k]
                         ELSE IF node[k] = "ready" THEN "live" ELSE "closed"]
  /\ grabbed' = IF ex THEN Found ELSE {}
  /\ KernelGrabs

\* Mutant of MaintainFrom: every device is opened again.
MaintainFromReopen(fds, ex) ==
  /\ fd' = [k \in Kb |-> IF k \in Found /\ node[k] = "ready" THEN "live" ELSE "closed"]
  /\ grabbed' = IF ex THEN {k \in Found : fds[k] = "closed" /\ fd'[k] = "live"} ELSE {}
  /\ KernelGrabs

\* maintain, the descriptors being fds: what is no longer found is closed, what
\* is new is opened, and every device is grabbed that can be, or released.  A
\* device that was unplugged and plugged in again is still the stale one here.
MaintainFrom(fds, ex) ==
  /\ fd' = [k \in Kb |-> IF k \notin Found THEN "closed"
                         ELSE IF fds[k] # "closed" THEN fds[k]
                         ELSE IF node[k] = "ready" THEN "live" ELSE "closed"]
  /\ grabbed' = IF ex THEN {k \in Found : \/ k \in grabbed /\ fds[k] # "closed"
                                          \/ fd'[k] = "live" /\ holder[k] # "other"}
                      ELSE {}
  /\ KernelGrabs

Configure(a) ==
  /\ allow' = a
  /\ UNCHANGED <<listening, exclusive, fd, grabbed, holder, queue, read, outside>>

Grab ==
  /\ listening' = TRUE /\ exclusive' = TRUE
  /\ MaintainFrom(fd, TRUE) /\ KernelQueues
  /\ UNCHANGED <<allow, read, outside>>

\* Mutant of Watch: the grabs of terminal mode are kept.
WatchKeepGrabs ==
  /\ listening' = TRUE
  /\ MaintainFrom(fd, exclusive) /\ KernelQueues
  /\ exclusive' = FALSE
  /\ UNCHANGED <<allow, read, outside>>

\* Open without grabbing, for status mode.
Watch ==
  /\ listening' = TRUE /\ exclusive' = FALSE
  /\ MaintainFrom(fd, FALSE) /\ KernelQueues
  /\ UNCHANGED <<allow, read, outside>>

\* Mutant of Ungrab: the devices stay open.
UngrabNoClear ==
  /\ listening' = FALSE /\ exclusive' = FALSE
  /\ fd' = fd /\ grabbed' = {}
  /\ KernelGrabs /\ KernelQueues
  /\ UNCHANGED <<allow, read, outside>>

\* ungrab, and Drop.
Ungrab ==
  /\ listening' = FALSE /\ exclusive' = FALSE
  /\ fd' = [k \in Kb |-> "closed"] /\ grabbed' = {}
  /\ KernelGrabs /\ KernelQueues
  /\ UNCHANGED <<allow, read, outside>>

Maintain ==
  /\ listening
  /\ MaintainFrom(fd, exclusive) /\ KernelQueues
  /\ UNCHANGED <<allow, listening, exclusive, read, outside>>

Stale == {k \in Kb : fd[k] = "stale"}

\* Mutant of Poll: a descriptor whose read fails is kept.
PollKeepStale ==
  /\ listening
  /\ read' = [k \in Kb |-> read[k] \o queue[k]]
  /\ queue' = [k \in Kb |-> <<>>]
  /\ UNCHANGED <<structVars, holder, outside>>

\* Every event of every device; a device whose read fails is dropped, and
\* maintain called at once.
Poll ==
  /\ listening
  /\ read' = [k \in Kb |-> read[k] \o queue[k]]
  /\ queue' = [k \in Kb |-> <<>>]
  /\ IF Stale = {} THEN UNCHANGED <<fd, grabbed, holder>>
                   ELSE MaintainFrom([k \in Kb |-> IF k \in Stale THEN "closed" ELSE fd[k]],
                                     exclusive)
  /\ UNCHANGED <<allow, listening, exclusive, outside>>

-----------------------------------------------------------------------------
(* The world outside                                                       *)

Plug(k) ==
  /\ node[k] = "absent"
  /\ node' = [node EXCEPT ![k] = "denied"]
  /\ UNCHANGED <<structVars, holder, queue, typed, deaf, read>>

\* udev gives the daemon's group access to the new node.
Permit(k) ==
  /\ node[k] = "denied"
  /\ node' = [node EXCEPT ![k] = "ready"]
  /\ UNCHANGED <<structVars, holder, queue, typed, deaf, read>>

\* The kernel ends the grabs of a device that goes, and reads of its
\* descriptors fail, unread events or not.
Unplug(k) ==
  /\ node[k] # "absent"
  /\ node' = [node EXCEPT ![k] = "absent"]
  /\ fd' = [fd EXCEPT ![k] = IF @ = "live" THEN "stale" ELSE @]
  /\ holder' = [holder EXCEPT ![k] = "none"]
  /\ queue' = [queue EXCEPT ![k] = <<>>]
  /\ UNCHANGED <<allow, listening, exclusive, grabbed, typed, deaf, read>>

OtherGrabs(k) ==
  /\ node[k] # "absent" /\ holder[k] = "none"
  /\ holder' = [holder EXCEPT ![k] = "other"]
  /\ UNCHANGED <<structVars, node, queue, typed, deaf, read>>

OtherReleases(k) ==
  /\ holder[k] = "other"
  /\ holder' = [holder EXCEPT ![k] = "none"]
  /\ UNCHANGED <<structVars, node, queue, typed, deaf, read>>

\* A key: the kernel gives it to every descriptor open, or to the grabber alone.
Press(k) ==
  /\ node[k] # "absent" /\ typed[k] < MaxKeys
  /\ typed' = [typed EXCEPT ![k] = @ + 1]
  /\ queue' = IF fd[k] = "live" /\ holder[k] # "other"
                THEN [queue EXCEPT ![k] = Append(@, typed[k] + 1)] ELSE queue
  /\ deaf' = IF listening THEN deaf ELSE deaf \union {<<k, typed[k] + 1>>}
  /\ UNCHANGED <<structVars, node, holder, read>>

Operation ==
  \/ \E a \in SUBSET Kb : Configure(a)
  \/ Grab \/ Watch \/ Ungrab \/ Maintain \/ Poll

Outside ==
  \E k \in Kb : \/ Plug(k) \/ Permit(k) \/ Unplug(k)
                \/ OtherGrabs(k) \/ OtherReleases(k) \/ Press(k)

KbNext == Operation \/ Outside

\* The operations in any order: what holds here holds for every caller.
KbSpec == KbInit /\ [][KbNext]_kbVars

-----------------------------------------------------------------------------
\* Every variable keeps its type.
KbTypeOK ==
  /\ allow \subseteq Kb /\ listening \in BOOLEAN /\ exclusive \in BOOLEAN
  /\ fd \in [Kb -> {"closed", "live", "stale"}] /\ grabbed \subseteq {k \in Kb : fd[k] # "closed"}
  /\ node \in [Kb -> {"absent", "denied", "ready"}]
  /\ holder \in [Kb -> {"none", "daemon", "other"}]
  /\ queue \in [Kb -> Seq(Nat)] /\ typed \in [Kb -> Nat]
  /\ deaf \subseteq Kb \X Nat /\ read \in [Kb -> Seq(Nat)]

\* The struct's flag and the kernel agree, through failed grabs, unplugging,
\* replugging and reconfiguring: grabbed_count, and the releases that test the
\* flag, act on the truth for every descriptor that works.
GrabAgrees == \A k \in Kb : holder[k] = "daemon" <=> (k \in grabbed /\ fd[k] = "live")

\* The desktop has every keyboard back as soon as the daemon stops asking for
\* it: none stays grabbed after watch, ungrab or a drop.
ReleasedUnlessExclusive == ~exclusive => \A k \in Kb : holder[k] # "daemon"

\* A key pressed while the daemon was not listening (in status mode, for the
\* desktop) is never read later, when the console takes the keyboard: no
\* descriptor stays open to collect it.
DeafKeysUnread ==
  \A k \in Kb : \A j \in 1 .. Len(read[k]) : <<k, read[k][j]>> \notin deaf

KeepsGrabs ==
  \A k \in Kb : (holder[k] = "daemon" /\ exclusive' /\ k \in allow /\ node'[k] # "absent")
                  => holder'[k] = "daemon"

\* While the console has a keyboard, no rescan (a hotplug, a lost device, a
\* reload) lets go of it: there is no moment at which a key reaches the desktop.
GrabKept == [][KeepsGrabs]_kbVars
=============================================================================
