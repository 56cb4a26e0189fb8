----------------------------- MODULE SessionProofs -----------------------------
(***************************************************************************)
(* The keyboards and the session that uses them.                           *)
(*                                                                         *)
(* For any set of keyboards, and the operations of module Keyboard called  *)
(* in any order: the struct's flags agree with the kernel, keyboards are   *)
(* released whenever they should be, and no key pressed while the daemon   *)
(* was not listening is read later.  Every step of the session is one of   *)
(* those operations at most, so all this holds of the daemon; it grabs     *)
(* keyboards only while it shows the terminal, and reads only those the    *)
(* configuration names.                                                    *)
(***************************************************************************)
EXTENDS Session, TLAPS

(* Part 1: the keyboards, for any caller.                                  *)

\* Nothing is open unless the daemon listens, and no queue outlives its descriptor.
OpenIfListening ==
  /\ ~listening => \A k \in Kb : fd[k] = "closed"
  /\ \A k \in Kb : fd[k] # "live" => queue[k] = <<>>

\* Keys are numbered by their count.
QueueNumbered == \A k \in Kb : \A j \in 1 .. Len(queue[k]) : queue[k][j] <= typed[k]
ReadNumbered == \A k \in Kb : \A j \in 1 .. Len(read[k]) : read[k][j] <= typed[k]
DeafNumbered == \A k \in Kb, n \in Nat : <<k, n>> \in deaf => n <= typed[k]

\* What is queued was pressed while the daemon listened.
QueueHeard == \A k \in Kb : \A j \in 1 .. Len(queue[k]) : <<k, queue[k][j]>> \notin deaf

GrabInv == KbTypeOK /\ GrabAgrees /\ ReleasedUnlessExclusive /\ OpenIfListening

KeyInv == QueueNumbered /\ ReadNumbered /\ DeafNumbered /\ QueueHeard /\ DeafKeysUnread

-----------------------------------------------------------------------------
(* maintain                                                                *)

\* Whatever descriptors it starts from, maintain leaves types, flags and grabs right.
LEMMA MaintainGrabs ==
  ASSUME KbTypeOK, GrabAgrees, NEW ex \in BOOLEAN,
         NEW fds \in [Kb -> {"closed", "live", "stale"}],
         \A k \in Kb : fds[k] = fd[k] \/ fds[k] = "closed",
         MaintainFrom(fds, ex)
  PROVE  /\ fd' \in [Kb -> {"closed", "live", "stale"}]
         /\ grabbed' \subseteq {k \in Kb : fd'[k] # "closed"}
         /\ holder' \in [Kb -> {"none", "daemon", "other"}]
         /\ GrabAgrees'
         /\ ~ex => \A k \in Kb : holder'[k] # "daemon"
         /\ \A k \in Kb : fd'[k] # "closed" => k \in Found
<1> USE DEF KbTypeOK, Found
<1>1. fd' \in [Kb -> {"closed", "live", "stale"}]
  BY DEF MaintainFrom
<1>2. \A k \in Kb : fd'[k] # "closed" => k \in Found
  BY DEF MaintainFrom
<1>3. grabbed' \subseteq {k \in Kb : fd'[k] # "closed"}
  BY DEF MaintainFrom
<1>4. holder' \in [Kb -> {"none", "daemon", "other"}]
  BY DEF MaintainFrom, KernelGrabs
<1>5. ~ex => \A k \in Kb : holder'[k] # "daemon"
  BY DEF MaintainFrom, KernelGrabs
<1>6. ASSUME NEW k \in Kb, k \in grabbed', fd'[k] = "live" PROVE holder[k] # "other"
  <2>1. \/ k \in grabbed /\ fds[k] # "closed"
        \/ holder[k] # "other"
    BY <1>6 DEF MaintainFrom
  <2>2. k \in grabbed /\ fds[k] # "closed" => fd[k] = "live"
    BY <1>6 DEF MaintainFrom
  <2>3. QED
    BY <2>1, <2>2 DEF GrabAgrees
<1>7. GrabAgrees'
  BY <1>6 DEF GrabAgrees, MaintainFrom, KernelGrabs
<1>8. QED
  BY <1>1, <1>2, <1>3, <1>4, <1>5, <1>7

\* The queues follow the descriptors.
LEMMA QueuesFollow ==
  ASSUME KbTypeOK, KernelQueues
  PROVE  /\ queue' \in [Kb -> Seq(Nat)]
         /\ \A k \in Kb : fd'[k] # "live" => queue'[k] = <<>>
         /\ \A k \in Kb : queue'[k] = queue[k] \/ queue'[k] = <<>>
BY DEF KbTypeOK, KernelQueues
-----------------------------------------------------------------------------
(* The grabs                                                               *)

LEMMA GrabInit == KbInit => GrabInv
<1> SUFFICES ASSUME KbInit PROVE GrabInv
  OBVIOUS
<1> USE DEF KbInit
<1>1. /\ allow \subseteq Kb /\ listening \in BOOLEAN /\ exclusive \in BOOLEAN
      /\ fd \in [Kb -> {"closed", "live", "stale"}] /\ grabbed \subseteq {k \in Kb : fd[k] # "closed"}
      /\ holder \in [Kb -> {"none", "daemon", "other"}] /\ deaf \subseteq Kb \X Nat
  OBVIOUS
<1>2. node \in [Kb -> {"absent", "denied", "ready"}]
  OBVIOUS
<1>3. queue \in [Kb -> Seq(Nat)] /\ typed \in [Kb -> Nat] /\ read \in [Kb -> Seq(Nat)]
  OBVIOUS
<1>4. KbTypeOK
  BY <1>1, <1>2, <1>3, Zenon DEF KbTypeOK
<1>5. QED
  BY <1>4 DEF GrabInv, GrabAgrees, ReleasedUnlessExclusive, OpenIfListening

LEMMA OperationGrabs ==
  ASSUME GrabInv, Operation
  PROVE  GrabInv'
<1> USE DEF GrabInv
<1>1. ASSUME NEW a \in SUBSET Kb, Configure(a) PROVE GrabInv'
  BY <1>1 DEF Configure, outside, KbTypeOK, GrabAgrees, ReleasedUnlessExclusive, OpenIfListening
<1>2. ASSUME NEW ex \in BOOLEAN, listening' = TRUE, exclusive' = ex,
             MaintainFrom(fd, ex), KernelQueues, UNCHANGED <<allow, read, outside>>
      PROVE  GrabInv'
  <2>1. fd \in [Kb -> {"closed", "live", "stale"}]
    BY DEF KbTypeOK
  <2>2. /\ fd' \in [Kb -> {"closed", "live", "stale"}]
        /\ grabbed' \subseteq {k \in Kb : fd'[k] # "closed"}
        /\ holder' \in [Kb -> {"none", "daemon", "other"}]
        /\ GrabAgrees'
        /\ ~ex => \A k \in Kb : holder'[k] # "daemon"
    BY <1>2, <2>1, MaintainGrabs
  <2>3. queue' \in [Kb -> Seq(Nat)] /\ \A k \in Kb : fd'[k] # "live" => queue'[k] = <<>>
    BY <1>2, QueuesFollow
  <2>4. KbTypeOK'
    BY <1>2, <2>2, <2>3 DEF KbTypeOK, outside
  <2>5. QED
    BY <1>2, <2>2, <2>3, <2>4 DEF ReleasedUnlessExclusive, OpenIfListening
<1>3. CASE Grab
  BY <1>2, <1>3 DEF Grab
<1>4. CASE Watch
  BY <1>2, <1>4 DEF Watch
<1>5. CASE Maintain
  BY <1>2, <1>5 DEF Maintain, KbTypeOK
<1>6. CASE Ungrab
  <2>1. queue' \in [Kb -> Seq(Nat)] /\ \A k \in Kb : fd'[k] # "live" => queue'[k] = <<>>
    BY <1>6, QueuesFollow DEF Ungrab
  <2>2. KbTypeOK'
    BY <1>6, <2>1 DEF Ungrab, KbTypeOK, outside, KernelGrabs
  <2>3. QED
    BY <1>6, <2>1, <2>2 DEF Ungrab, KernelGrabs, GrabAgrees, ReleasedUnlessExclusive,
       OpenIfListening
<1>7. CASE Poll
  <2> DEFINE fds == [k \in Kb |-> IF k \in Stale THEN "closed" ELSE fd[k]]
  <2>1. /\ listening /\ listening' = listening /\ exclusive' = exclusive /\ allow' = allow
        /\ UNCHANGED outside
        /\ read' = [k \in Kb |-> read[k] \o queue[k]] /\ queue' = [k \in Kb |-> <<>>]
    BY <1>7 DEF Poll
  <2>2. read' \in [Kb -> Seq(Nat)] /\ queue' \in [Kb -> Seq(Nat)]
    BY <2>1 DEF KbTypeOK
  <2>3. /\ fd' \in [Kb -> {"closed", "live", "stale"}]
        /\ grabbed' \subseteq {k \in Kb : fd'[k] # "closed"}
        /\ holder' \in [Kb -> {"none", "daemon", "other"}]
        /\ GrabAgrees'
        /\ ~exclusive => \A k \in Kb : holder'[k] # "daemon"
    <3>1. CASE Stale = {}
      BY <1>7, <3>1 DEF Poll, KbTypeOK, GrabAgrees, ReleasedUnlessExclusive
    <3>2. CASE Stale # {}
      <4>1. MaintainFrom(fds, exclusive)
        BY <1>7, <3>2 DEF Poll
      <4>2. fds \in [Kb -> {"closed", "live", "stale"}] /\ exclusive \in BOOLEAN
        BY DEF KbTypeOK
      <4>3. \A k \in Kb : fds[k] = fd[k] \/ fds[k] = "closed"
        OBVIOUS
      <4>4. QED
        BY <4>1, <4>2, <4>3, MaintainGrabs
    <3>3. QED
      BY <3>1, <3>2
  <2>4. KbTypeOK'
    BY <2>1, <2>2, <2>3 DEF KbTypeOK, outside
  <2>5. QED
    BY <2>1, <2>3, <2>4 DEF ReleasedUnlessExclusive, OpenIfListening
<1>8. QED
  BY <1>1, <1>3, <1>4, <1>5, <1>6, <1>7 DEF Operation

LEMMA OutsideGrabs ==
  ASSUME GrabInv, Outside
  PROVE  GrabInv'
<1> USE DEF GrabInv
<1>0. PICK k \in Kb : \/ Plug(k) \/ Permit(k) \/ Unplug(k)
                      \/ OtherGrabs(k) \/ OtherReleases(k) \/ Press(k)
  BY DEF Outside
<1>1. CASE Plug(k) \/ Permit(k)
  <2>1. node' \in [Kb -> {"absent", "denied", "ready"}]
    BY <1>1 DEF Plug, Permit, KbTypeOK
  <2>2. UNCHANGED <<structVars, holder, queue, typed, deaf, read>>
    BY <1>1 DEF Plug, Permit
  <2>3. KbTypeOK'
    BY <2>1, <2>2 DEF structVars, KbTypeOK
  <2>4. GrabAgrees' /\ ReleasedUnlessExclusive' /\ OpenIfListening'
    BY <2>2 DEF structVars, GrabAgrees, ReleasedUnlessExclusive, OpenIfListening
  <2>5. QED
    BY <2>3, <2>4
<1>2. CASE Unplug(k)
  <2>1. KbTypeOK'
    BY <1>2 DEF Unplug, KbTypeOK
  <2>2. GrabAgrees' /\ ReleasedUnlessExclusive' /\ OpenIfListening'
    BY <1>2 DEF Unplug, KbTypeOK, GrabAgrees, ReleasedUnlessExclusive, OpenIfListening
  <2>3. QED
    BY <2>1, <2>2
<1>3. CASE OtherGrabs(k) \/ OtherReleases(k)
  <2>1. KbTypeOK'
    BY <1>3 DEF OtherGrabs, OtherReleases, structVars, KbTypeOK
  <2>2. GrabAgrees' /\ ReleasedUnlessExclusive' /\ OpenIfListening'
    BY <1>3 DEF OtherGrabs, OtherReleases, structVars, KbTypeOK, GrabAgrees,
       ReleasedUnlessExclusive, OpenIfListening
  <2>3. QED
    BY <2>1, <2>2
<1>4. CASE Press(k)
  <2>1. KbTypeOK'
    BY <1>4 DEF Press, structVars, KbTypeOK
  <2>2. GrabAgrees' /\ ReleasedUnlessExclusive' /\ OpenIfListening'
    BY <1>4 DEF Press, structVars, KbTypeOK, GrabAgrees, ReleasedUnlessExclusive, OpenIfListening
  <2>3. QED
    BY <2>1, <2>2
<1>5. QED
  BY <1>0, <1>1, <1>2, <1>3, <1>4

LEMMA GrabNext == GrabInv /\ [KbNext]_kbVars => GrabInv'
<1>1. ASSUME GrabInv, UNCHANGED kbVars PROVE GrabInv'
  BY <1>1 DEF kbVars, structVars, GrabInv, KbTypeOK, GrabAgrees, ReleasedUnlessExclusive,
     OpenIfListening
<1>2. QED
  BY <1>1, OperationGrabs, OutsideGrabs DEF KbNext

-----------------------------------------------------------------------------
(* The keys                                                                *)

\* What the operations leave alone of the queues and histories.
LEMMA OperationKeys ==
  ASSUME GrabInv, KeyInv, Operation
  PROVE  KeyInv'
<1> USE DEF KeyInv
<1>1. ASSUME \A k \in Kb : queue'[k] = queue[k] \/ queue'[k] = <<>>,
             UNCHANGED <<typed, deaf, read>>
      PROVE  KeyInv'
  <2>1. QueueNumbered' /\ ReadNumbered' /\ DeafNumbered'
    BY <1>1 DEF QueueNumbered, ReadNumbered, DeafNumbered
  <2>2. QueueHeard'
    BY <1>1 DEF QueueHeard
  <2>3. DeafKeysUnread'
    BY <1>1 DEF DeafKeysUnread
  <2>4. QED
    BY <2>1, <2>2, <2>3
<1>2. ASSUME NEW a \in SUBSET Kb, Configure(a) PROVE KeyInv'
  BY <1>1, <1>2 DEF Configure, outside
<1>3. CASE Grab \/ Watch \/ Ungrab \/ Maintain
  <2>1. KernelQueues /\ UNCHANGED <<typed, deaf, read>>
    BY <1>3 DEF Grab, Watch, Ungrab, Maintain, outside
  <2>2. QED
    BY <1>1, <2>1, QueuesFollow DEF GrabInv
<1>4. CASE Poll
  <2>1. /\ queue' = [k \in Kb |-> <<>>] /\ typed' = typed /\ deaf' = deaf
        /\ read' = [k \in Kb |-> read[k] \o queue[k]]
    BY <1>4 DEF Poll, outside
  <2>2. ASSUME NEW k \in Kb, NEW j \in 1 .. Len(read'[k])
        PROVE  /\ read'[k][j] <= typed[k]
               /\ <<k, read'[k][j]>> \notin deaf
    <3>1. read[k] \in Seq(Nat) /\ queue[k] \in Seq(Nat) /\ read'[k] = read[k] \o queue[k]
      BY <2>1 DEF GrabInv, KbTypeOK
    <3>2. CASE j \in 1 .. Len(read[k])
      <4>1. read'[k][j] = read[k][j]
        BY <3>1, <3>2
      <4>2. QED
        BY <3>2, <4>1 DEF ReadNumbered, DeafKeysUnread
    <3>3. CASE j \notin 1 .. Len(read[k])
      <4>1. PICK i \in 1 .. Len(queue[k]) : read'[k][j] = queue[k][i]
        <5>1. j - Len(read[k]) \in 1 .. Len(queue[k])
          <6>1. PICK a \in Nat, b \in Nat : a = Len(read[k]) /\ b = Len(queue[k])
            BY <3>1
          <6>2. Len(read'[k]) = a + b
            BY <3>1, <6>1
          <6>3. j \in 1 .. a + b /\ j \notin 1 .. a
            BY <2>2, <3>3, <6>1, <6>2
          <6>4. j - a \in 1 .. b
            BY <6>3
          <6>5. QED
            BY <6>1, <6>4
        <5>2. read'[k][j] = queue[k][j - Len(read[k])]
          BY <2>2, <3>1, <3>3
        <5>3. QED
          BY <5>1, <5>2
      <4>2. QED
        BY <4>1 DEF QueueNumbered, QueueHeard
    <3>4. QED
      BY <3>2, <3>3
  <2>3. \A k \in Kb : Len(queue'[k]) = 0
    BY <2>1
  <2>4. QueueNumbered' /\ QueueHeard'
    BY <2>3 DEF QueueNumbered, QueueHeard
  <2>5. ReadNumbered'
    BY <2>1, <2>2 DEF ReadNumbered
  <2>6. DeafNumbered'
    BY <2>1 DEF DeafNumbered
  <2>7. DeafKeysUnread'
    BY <2>1, <2>2 DEF DeafKeysUnread
  <2>8. QED
    BY <2>4, <2>5, <2>6, <2>7
<1>5. QED
  BY <1>2, <1>3, <1>4 DEF Operation

\* A key that is pressed has a number of its own, and is either queued or deaf.
LEMMA PressKeys ==
  ASSUME GrabInv, KeyInv, NEW p \in Kb, Press(p)
  PROVE  KeyInv'
<1> DEFINE n == typed[p] + 1
<1>1. /\ typed' = [typed EXCEPT ![p] = n] /\ read' = read
      /\ n \in Nat /\ typed \in [Kb -> Nat] /\ queue \in [Kb -> Seq(Nat)]
      /\ read \in [Kb -> Seq(Nat)]
  BY DEF Press, GrabInv, KbTypeOK
<1>2. \A k \in Kb : typed[k] \in Nat /\ typed'[k] \in Nat /\ typed[k] <= typed'[k]
  BY <1>1
<1>3. ReadNumbered'
  BY <1>1, <1>2 DEF KeyInv, ReadNumbered
<1>4. \A k \in Kb, m \in Nat : <<k, m>> \in deaf => m <= typed[k] /\ m <= typed'[k]
  BY <1>2 DEF KeyInv, DeafNumbered
<1>5. CASE listening
  <2>1. deaf' = deaf
    BY <1>5 DEF Press
  <2>2. <<p, n>> \notin deaf
    BY <1>1, <1>4
  <2>3. ASSUME NEW k \in Kb, NEW j \in 1 .. Len(queue'[k])
        PROVE  queue'[k][j] <= typed'[k] /\ <<k, queue'[k][j]>> \notin deaf
    <3>1. CASE queue'[k] = queue[k]
      <4>1. j \in 1 .. Len(queue[k]) /\ queue[k][j] \in Nat /\ queue'[k][j] = queue[k][j]
        BY <3>1, <2>3, <1>1
      <4>2. QED
        BY <4>1, <1>2 DEF KeyInv, QueueNumbered, QueueHeard
    <3>2. CASE k = p /\ queue'[p] = Append(queue[p], n)
      <4>1. CASE j \in 1 .. Len(queue[p])
        <5>1. queue'[p][j] = queue[p][j] /\ queue[p][j] \in Nat
          BY <3>2, <4>1, <1>1
        <5>2. QED
          BY <3>2, <4>1, <5>1, <1>2 DEF KeyInv, QueueNumbered, QueueHeard
      <4>2. CASE j \notin 1 .. Len(queue[p])
        <5>1. queue'[p][j] = n
          BY <2>3, <3>2, <4>2, <1>1
        <5>2. typed'[p] = n
          BY <1>1
        <5>3. n <= typed'[p]
          BY <5>2, <1>1
        <5>4. QED
          BY <3>2, <5>1, <5>3, <2>2
      <4>3. QED
        BY <4>1, <4>2
    <3>3. QED
      BY <3>1, <3>2, <1>1 DEF Press
  <2>4. QueueNumbered' /\ QueueHeard'
    BY <2>1, <2>3 DEF QueueNumbered, QueueHeard
  <2>5. DeafNumbered' /\ DeafKeysUnread'
    BY <2>1, <1>1, <1>4 DEF KeyInv, DeafNumbered, DeafKeysUnread
  <2>6. QED
    BY <1>3, <2>4, <2>5 DEF KeyInv
<1>6. CASE ~listening
  <2>1. deaf' = deaf \union {<<p, n>>} /\ fd[p] # "live"
    BY <1>6 DEF Press, GrabInv, OpenIfListening
  <2>2. \A k \in Kb : Len(queue'[k]) = 0
    BY <1>6 DEF Press, GrabInv, OpenIfListening
  <2>3. QueueNumbered' /\ QueueHeard'
    BY <2>2 DEF QueueNumbered, QueueHeard
  <2>4. DeafNumbered'
    BY <2>1, <1>1, <1>4 DEF DeafNumbered
  <2>5. DeafKeysUnread'
    <3>1. SUFFICES ASSUME NEW k \in Kb, NEW j \in 1 .. Len(read[k])
                   PROVE  <<k, read[k][j]>> \notin deaf \union {<<p, n>>}
      BY <2>1, <1>1 DEF DeafKeysUnread
    <3>2. <<k, read[k][j]>> \notin deaf /\ read[k][j] <= typed[k]
      BY DEF KeyInv, DeafKeysUnread, ReadNumbered
    <3>3. read[k][j] # typed[k] + 1
      BY <3>2, <1>1, <1>2
    <3>4. QED
      BY <3>2, <3>3
  <2>6. QED
    BY <1>3, <2>3, <2>4, <2>5 DEF KeyInv
<1>7. QED
  BY <1>5, <1>6

LEMMA OutsideKeys ==
  ASSUME GrabInv, KeyInv, Outside
  PROVE  KeyInv'
<1>0. PICK k \in Kb : \/ Plug(k) \/ Permit(k) \/ Unplug(k)
                      \/ OtherGrabs(k) \/ OtherReleases(k) \/ Press(k)
  BY DEF Outside
<1>1. CASE Press(k)
  BY <1>1, PressKeys
<1>2. CASE ~Press(k)
  <2>1. UNCHANGED <<typed, deaf, read>>
    BY <1>0, <1>2 DEF Plug, Permit, Unplug, OtherGrabs, OtherReleases
  <2>2. \A q \in Kb : queue'[q] = queue[q] \/ queue'[q] = <<>>
    BY <1>0, <1>2 DEF Plug, Permit, Unplug, OtherGrabs, OtherReleases, GrabInv, KbTypeOK
  <2>3. QED
    BY <2>1, <2>2 DEF KeyInv, QueueNumbered, ReadNumbered, DeafNumbered, QueueHeard, DeafKeysUnread
<1>3. QED
  BY <1>1, <1>2

LEMMA KeyInit == KbInit => KeyInv
<1> SUFFICES ASSUME KbInit PROVE KeyInv
  OBVIOUS
<1>1. \A k \in Kb : Len(queue[k]) = 0 /\ Len(read[k]) = 0
  BY DEF KbInit
<1>2. deaf = {}
  BY DEF KbInit
<1>3. QED
  BY <1>1, <1>2 DEF KeyInv, QueueNumbered, ReadNumbered, DeafNumbered, QueueHeard, DeafKeysUnread

LEMMA KeyNext == GrabInv /\ KeyInv /\ [KbNext]_kbVars => KeyInv'
<1>1. ASSUME KeyInv, UNCHANGED kbVars PROVE KeyInv'
  BY <1>1 DEF kbVars, KeyInv, QueueNumbered, ReadNumbered, DeafNumbered, QueueHeard, DeafKeysUnread
<1>2. QED
  BY <1>1, OperationKeys, OutsideKeys DEF KbNext

\* maintain keeps the grab of a device that is still there.
LEMMA KeepsGrabsStep == GrabInv /\ [KbNext]_kbVars => [KeepsGrabs]_kbVars
<1> SUFFICES ASSUME GrabInv, KbNext, NEW k \in Kb, holder[k] = "daemon", exclusive',
                    k \in allow, node'[k] # "absent"
             PROVE  holder'[k] = "daemon"
  BY DEF KeepsGrabs
<1>1. k \in grabbed /\ fd[k] = "live"
  BY DEF GrabInv, GrabAgrees
<1>2. ASSUME NEW fds \in [Kb -> {"closed", "live", "stale"}], fds[k] = "live",
             NEW ex \in BOOLEAN, ex, MaintainFrom(fds, ex), node' = node
      PROVE  holder'[k] = "daemon"
  BY <1>1, <1>2 DEF MaintainFrom, KernelGrabs, Found
<1>3. CASE Operation
  <2>1. node' = node /\ fd \in [Kb -> {"closed", "live", "stale"}]
    BY <1>3 DEF Operation, Configure, Grab, Watch, Ungrab, Maintain, Poll, outside, GrabInv, KbTypeOK
  <2>2. CASE \E a \in SUBSET Kb : Configure(a)
    BY <2>2 DEF Configure
  <2>3. CASE Grab
    BY <2>1, <2>3, <1>1, <1>2 DEF Grab
  <2>4. CASE Watch \/ Ungrab
    BY <2>4 DEF Watch, Ungrab
  <2>5. CASE Maintain
    BY <2>1, <2>5, <1>1, <1>2 DEF Maintain, GrabInv, KbTypeOK
  <2>6. CASE Poll
    <3> DEFINE fds == [q \in Kb |-> IF q \in Stale THEN "closed" ELSE fd[q]]
    <3>1. CASE Stale = {}
      BY <2>6, <3>1 DEF Poll
    <3>2. CASE Stale # {}
      <4>1. MaintainFrom(fds, exclusive) /\ exclusive /\ exclusive \in BOOLEAN
        BY <2>6, <3>2 DEF Poll, GrabInv, KbTypeOK
      <4>2. fds \in [Kb -> {"closed", "live", "stale"}] /\ fds[k] = "live"
        BY <2>1, <1>1 DEF Stale
      <4>3. QED
        BY <4>1, <4>2, <2>1, <1>2
    <3>3. QED
      BY <3>1, <3>2
  <2>7. QED
    BY <1>3, <2>2, <2>3, <2>4, <2>5, <2>6 DEF Operation
<1>4. CASE Outside
  <2>1. PICK p \in Kb : \/ Plug(p) \/ Permit(p) \/ Unplug(p)
                        \/ OtherGrabs(p) \/ OtherReleases(p) \/ Press(p)
    BY <1>4 DEF Outside
  <2>2. QED
    BY <2>1 DEF Plug, Permit, Unplug, OtherGrabs, OtherReleases, Press, GrabInv, KbTypeOK
<1>5. QED
  BY <1>3, <1>4 DEF KbNext
-----------------------------------------------------------------------------
\* Flags, grabs and queues stay consistent under every operation, in any order.
THEOREM KeyboardInvariant == KbSpec => [](GrabInv /\ KeyInv)
BY GrabInit, GrabNext, KeyInit, KeyNext, PTL DEF KbSpec

\* The struct's flags and the kernel's grabs agree, for any set of keyboards.
THEOREM GrabAgreesTheorem == KbSpec => [](KbTypeOK /\ GrabAgrees)
<1>1. GrabInv => KbTypeOK /\ GrabAgrees
  BY DEF GrabInv
<1>2. QED
  BY <1>1, KeyboardInvariant, PTL

\* No keyboard stays grabbed unless the daemon still asks for it.
THEOREM ReleasedTheorem == KbSpec => []ReleasedUnlessExclusive
<1>1. GrabInv => ReleasedUnlessExclusive
  BY DEF GrabInv
<1>2. QED
  BY <1>1, KeyboardInvariant, PTL

\* A key pressed while the daemon was not listening is never read.
THEOREM DeafTheorem == KbSpec => []DeafKeysUnread
<1>1. KeyInv => DeafKeysUnread
  BY DEF KeyInv
<1>2. QED
  BY <1>1, KeyboardInvariant, PTL

\* No rescan lets go of a keyboard the console has.
THEOREM GrabKeptTheorem == KbSpec => GrabKept
<1>1. KbSpec => []GrabInv
  BY KeyboardInvariant, PTL
<1>2. QED
  BY <1>1, KeepsGrabsStep, PTL DEF KbSpec, GrabKept

-----------------------------------------------------------------------------
(* Part 2: the session.                                                    *)

\* What links the session's mode and configuration to the keyboard struct.
Modes ==
  /\ exclusive => pc \in Stages /\ mode = "terminal"
  /\ listening => pc \in Stages /\ (pc = "apply" \/ UsesKeyboards)
  /\ pc \in Stages \union {"start"} => allow = cfg.allow
  /\ pc # "apply" => \A k \in Kb : fd[k] # "closed" => k \in allow
  /\ pc = "open" => mode = "terminal"

IInv == TypeOK /\ GrabInv /\ Modes

\* The session's steps in which the keyboards are left alone.
Quiet ==
  \/ StopOffline \/ NoReload \/ PollEvents \/ HandleDone \/ SkipRescan \/ NoKeyboards
  \/ SendOk \/ SendFails \/ NoSend
  \/ PanelUnplugged \/ PanelPlugged \/ LinkDies \/ LinkHeals \/ Edit \/ ButtonPressed
  \/ ShellExits \/ Interrupt

\* Those that end the session.
Ends == Stop \/ Unplugged \/ StartFails \/ HandleFails \/ RespawnFails \/ OpenFails \/ LinkLost

LEMMA QuietStep == Quiet => UNCHANGED kbVars
BY DEF Quiet, StopOffline, NoReload, PollEvents, HandleDone, SkipRescan, NoKeyboards, SendOk,
   SendFails, NoSend, PanelUnplugged, PanelPlugged, LinkDies, LinkHeals, Edit, ButtonPressed,
   ShellExits, Interrupt

LEMMA EndsStep == Ends => Ungrab /\ pc' \in {"offline", "stopped"}
BY DEF Ends, Stop, Unplugged, StartFails, HandleFails, RespawnFails, OpenFails, LinkLost,
   SpawnFails, Leave

LEMMA Split ==
  Next => \/ Quiet \/ Ends \/ Connect \/ Start \/ Reload \/ ApplyReload \/ Handle \/ PumpPty
          \/ Rescan \/ PollKeys \/ OpenTerminal
          \/ Outside /\ UNCHANGED sessionVars
BY DEF Next, SessionStep, WorldStep, Sends, Quiet, Ends

\* Every step of the session is a step of the keyboards, or leaves them alone.
LEMMA KeyboardStep == TypeOK /\ [Next]_vars => [KbNext]_kbVars
<1> SUFFICES ASSUME TypeOK, [Next]_vars PROVE [KbNext]_kbVars
  OBVIOUS
<1>1. file.allow \in SUBSET Kb
  BY SessionAssumption DEF TypeOK, Config
<1>2. Watch \/ Ungrab \/ Grab \/ Maintain \/ Poll => KbNext
  BY DEF KbNext, Operation
<1>3. CASE Quiet
  BY <1>3, QuietStep
<1>4. CASE Ends
  BY <1>4, <1>2, EndsStep
<1>5. CASE Connect
  BY <1>5, <1>1 DEF Connect, KbNext, Operation
<1>6. CASE Start
  BY <1>6, <1>2 DEF Start, EnterStatus, EnterTerminal
<1>7. CASE Reload
  BY <1>7, <1>1 DEF Reload, KbNext, Operation
<1>8. CASE ApplyReload
  BY <1>8, <1>2 DEF ApplyReload, EnterStatus
<1>9. CASE Handle
  BY <1>9, <1>2 DEF Handle, EnterStatus, EnterTerminal
<1>10. CASE PumpPty
  BY <1>10, <1>2 DEF PumpPty
<1>11. CASE Rescan
  BY <1>11, <1>2 DEF Rescan
<1>12. CASE PollKeys
  BY <1>12, <1>2 DEF PollKeys
<1>13. CASE OpenTerminal
  BY <1>13, <1>2 DEF OpenTerminal, EnterTerminal
<1>14. CASE Outside /\ UNCHANGED sessionVars
  BY <1>14 DEF KbNext
<1>15. CASE UNCHANGED vars
  BY <1>15 DEF vars
<1>16. QED
  BY Split, <1>3, <1>4, <1>5, <1>6, <1>7, <1>8, <1>9, <1>10, <1>11, <1>12, <1>13, <1>14, <1>15
-----------------------------------------------------------------------------
(* Types                                                                   *)

\* The session's own variables.
SessionTypes ==
  /\ pc \in Stages \union {"offline", "start", "stopped"}
  /\ running \in BOOLEAN /\ cfg \in Configs /\ mode \in {"status", "terminal"}
  /\ toggles \in Nat /\ pty \in {"none", "running", "exited"} /\ activity \in BOOLEAN
  /\ fails \in 0 .. 2
  /\ file \in Configs /\ present \in BOOLEAN /\ link \in {"up", "dead"}
  /\ pressed \in Nat /\ panel \in {"none", "status", "terminal", "bye"}
  /\ faults \in Nat

LEMMA TypesStep == SessionTypes /\ [Next]_vars => SessionTypes'
<1> SUFFICES ASSUME SessionTypes, [Next]_vars PROVE SessionTypes'
  OBVIOUS
<1> USE DEF SessionTypes, Stages, worldVars, loopVars, Fault
<1>1. CASE Quiet
  <2>1. CASE StopOffline \/ NoReload \/ HandleDone \/ SkipRescan \/ NoKeyboards \/ NoSend
    BY <2>1 DEF StopOffline, NoReload, HandleDone, SkipRescan, NoKeyboards, NoSend
  <2>2. CASE PollEvents
    BY <2>2 DEF PollEvents
  <2>3. CASE SendOk \/ SendFails
    <3>1. /\ pc' = "loop" /\ panel' \in {panel, mode} /\ activity' = FALSE
          /\ UNCHANGED <<running, cfg, mode, toggles, pty, file, present, link, pressed>>
      BY <2>3 DEF SendOk, SendFails
    <3>2. fails' \in 0 .. 2 /\ faults' \in Nat
      BY <2>3 DEF SendOk, SendFails
    <3>3. QED
      BY <3>1, <3>2
  <2>4. CASE PanelUnplugged \/ PanelPlugged \/ LinkDies \/ LinkHeals
    <3>1. /\ present' \in BOOLEAN /\ panel' \in {"none", panel} /\ pressed' \in {0, pressed}
          /\ link' \in {"up", "dead"}
          /\ UNCHANGED <<pc, loopVars, file>>
      BY <2>4 DEF PanelUnplugged, PanelPlugged, LinkDies, LinkHeals
    <3>2. faults' \in Nat
      BY <2>4 DEF PanelUnplugged, PanelPlugged, LinkDies, LinkHeals
    <3>3. QED
      BY <3>1, <3>2
  <2>5. CASE Edit \/ ButtonPressed
    <3>1. /\ file' \in Configs /\ pressed' \in Nat /\ faults' \in Nat
          /\ UNCHANGED <<pc, loopVars, present, link, panel>>
      BY <2>5 DEF Edit, ButtonPressed
    <3>2. QED
      BY <3>1
  <2>6. CASE ShellExits \/ Interrupt
    <3>1. /\ pty' \in {"exited", pty} /\ running' \in {FALSE, running}
          /\ UNCHANGED <<pc, cfg, mode, toggles, activity, fails, worldVars>>
      BY <2>6 DEF ShellExits, Interrupt
    <3>2. faults' \in Nat
      BY <2>6 DEF ShellExits, Interrupt
    <3>3. pty' \in {"none", "running", "exited"} /\ running' \in BOOLEAN
      BY <3>1
    <3>4. QED
      BY <3>1, <3>2, <3>3
  <2>7. QED
    BY <1>1, <2>1, <2>2, <2>3, <2>4, <2>5, <2>6 DEF Quiet
<1>2. CASE Ends
  <2>1. CASE Stop
    BY <2>1 DEF Stop
  <2>2. ASSUME Leave, UNCHANGED <<file, present, link, pressed>>, panel' \in {panel, mode},
               faults' \in Nat
        PROVE  SessionTypes'
    BY <2>2 DEF Leave
  <2>3. CASE Unplugged \/ StartFails \/ HandleFails \/ RespawnFails \/ OpenFails
    <3>1. Leave /\ UNCHANGED worldVars /\ faults' \in Nat
      BY <2>3 DEF Unplugged, StartFails, HandleFails, RespawnFails, OpenFails, SpawnFails
    <3>2. QED
      BY <2>2, <3>1
  <2>4. CASE LinkLost
    <3>1. faults' \in Nat
      BY <2>4 DEF LinkLost
    <3>2. QED
      BY <2>2, <2>4, <3>1 DEF LinkLost
  <2>5. QED
    BY <1>2, <2>1, <2>3, <2>4 DEF Ends
<1>3. CASE Connect
  <2>1. /\ pc' = "start" /\ cfg' = file /\ mode' \in {"status", "terminal"}
        /\ pressed' = 0 /\ toggles' = 0 /\ pty' = "none" /\ activity' = FALSE /\ fails' = 0
        /\ UNCHANGED <<running, file, present, link, panel, faults>>
    BY <1>3 DEF Connect
  <2>2. fails' \in 0 .. 2 /\ toggles' \in Nat /\ pressed' \in Nat
    BY <2>1
  <2>3. pty' \in {"none", "running", "exited"} /\ activity' \in BOOLEAN
    BY <2>1
  <2>4. QED
    BY <2>1, <2>2, <2>3
<1>4. CASE Start
  BY <1>4 DEF Start, EnterTerminal
<1>5. CASE Reload
  BY <1>5 DEF Reload
<1>6. CASE ApplyReload
  BY <1>6 DEF ApplyReload
<1>7. CASE Handle
  BY <1>7 DEF Handle, EnterTerminal
<1>8. CASE PumpPty
  BY <1>8 DEF PumpPty
<1>9. CASE Rescan
  BY <1>9 DEF Rescan
<1>10. CASE PollKeys
  BY <1>10 DEF PollKeys
<1>11. CASE OpenTerminal
  BY <1>11 DEF OpenTerminal, EnterTerminal
<1>12. CASE UNCHANGED sessionVars
  BY <1>12 DEF sessionVars
<1>13. QED
  BY Split, <1>1, <1>2, <1>3, <1>4, <1>5, <1>6, <1>7, <1>8, <1>9, <1>10, <1>11, <1>12 DEF vars
-----------------------------------------------------------------------------
(* Modes                                                                   *)

\* After an operation that maintains, what is open is allowed.
LEMMA OpensAllowed ==
  /\ Grab \/ Watch \/ Maintain \/ Ungrab => allow' = allow /\ \A k \in Kb : fd'[k] # "closed" => k \in allow
  /\ Poll => \/ allow' = allow /\ fd' = fd
             \/ allow' = allow /\ \A k \in Kb : fd'[k] # "closed" => k \in allow
BY DEF Grab, Watch, Maintain, Ungrab, Poll, MaintainFrom, Found, outside

LEMMA QuietModes ==
  Quiet => /\ cfg' = cfg /\ mode' = mode
           /\ \/ pc' = pc
              \/ pc \in Stages \ {"apply"} /\ pc' \in Stages \ {"apply", "open"}
              \/ pc = "offline" /\ pc' = "stopped"
BY DEF Quiet, StopOffline, NoReload, PollEvents, HandleDone, SkipRescan, NoKeyboards, SendOk,
   SendFails, NoSend, PanelUnplugged, PanelPlugged, LinkDies, LinkHeals, Edit, ButtonPressed,
   ShellExits, Interrupt, loopVars, worldVars, Stages

LEMMA ModesStep == IInv /\ [Next]_vars => Modes'
<1> SUFFICES ASSUME IInv, [Next]_vars PROVE Modes'
  OBVIOUS
<1>0. Modes /\ (~listening => \A k \in Kb : fd[k] = "closed")
  BY DEF IInv, GrabInv, OpenIfListening
<1>1. CASE Quiet
  <2>1. UNCHANGED <<exclusive, listening, allow, fd>>
    BY <1>1, QuietStep DEF kbVars, structVars
  <2>2. QED
    BY <1>0, <1>1, <2>1, QuietModes DEF Modes, UsesKeyboards, Stages
<1>2. CASE Ends
  BY <1>2, EndsStep, OpensAllowed DEF Modes, Ungrab, Stages
<1>3. CASE Connect
  <2>1. /\ pc = "offline" /\ pc' = "start" /\ cfg' = file /\ allow' = file.allow
        /\ UNCHANGED <<exclusive, listening, fd>>
    BY <1>3 DEF Connect, Configure
  <2>2. QED
    BY <1>0, <2>1 DEF Modes, Stages
<1>4. CASE Start
  <2>1. pc' = "loop" /\ cfg' = cfg /\ mode' = mode /\ allow = cfg.allow
    BY <1>0, <1>4 DEF Start, Modes
  <2>2. CASE mode = "status" /\ EnterStatus
    BY <2>1, <2>2, OpensAllowed DEF Modes, EnterStatus, Watch, Ungrab, UsesKeyboards, Stages
  <2>3. CASE mode = "terminal" /\ EnterTerminal
    BY <2>1, <2>3, OpensAllowed DEF Modes, EnterTerminal, Grab, UsesKeyboards, Stages
  <2>4. QED
    BY <1>4, <2>2, <2>3 DEF Start
<1>5. CASE Reload
  <2>1. /\ pc = "loop" /\ cfg' = file /\ mode' = mode
        /\ UNCHANGED <<exclusive, listening, fd>>
    BY <1>5 DEF Reload, Configure, kbVars, structVars
  <2>2. CASE KbChanged(file)
    BY <1>0, <1>5, <2>1, <2>2 DEF Reload, Configure, Modes, Stages
  <2>3. CASE ~KbChanged(file)
    <3>1. pc' = "events" /\ allow' = allow
      BY <1>5, <2>3 DEF Reload, kbVars, structVars
    <3>2. QED
      BY <1>0, <2>1, <2>3, <3>1 DEF KbChanged, Modes, UsesKeyboards, Stages
  <2>4. QED
    BY <2>2, <2>3
<1>6. CASE ApplyReload
  <2>1. pc = "apply" /\ pc' = "events" /\ cfg' = cfg /\ mode' = mode
    BY <1>6 DEF ApplyReload, loopVars
  <2>2. CASE mode = "status" /\ EnterStatus
    BY <1>0, <2>1, <2>2, OpensAllowed DEF Modes, EnterStatus, Watch, Ungrab, UsesKeyboards, Stages
  <2>3. CASE mode = "terminal" /\ Grab
    BY <1>0, <2>1, <2>3, OpensAllowed DEF Modes, Grab, UsesKeyboards, Stages
  <2>4. QED
    BY <1>6, <2>2, <2>3 DEF ApplyReload
<1>7. CASE Handle
  <2>1. pc = "handle" /\ pc' = pc /\ cfg' = cfg
    BY <1>7 DEF Handle
  <2>2. CASE mode' = "status" /\ EnterStatus
    BY <1>0, <2>1, <2>2, OpensAllowed DEF Modes, EnterStatus, Watch, Ungrab, UsesKeyboards, Stages
  <2>3. CASE mode' = "terminal" /\ EnterTerminal
    BY <1>0, <2>1, <2>3, OpensAllowed DEF Modes, EnterTerminal, Grab, UsesKeyboards, Stages
  <2>4. QED
    BY <1>7, <2>2, <2>3 DEF Handle
<1>8. CASE PumpPty
  <2>1. pc = "pty" /\ pc' = "scan" /\ cfg' = cfg /\ mode' = mode
    BY <1>8 DEF PumpPty
  <2>2. CASE mode = "terminal" /\ Grab
    BY <1>0, <2>1, <2>2, OpensAllowed DEF Modes, Grab, UsesKeyboards, Stages
  <2>3. CASE UNCHANGED kbVars
    BY <1>0, <2>1, <2>3 DEF Modes, kbVars, structVars, UsesKeyboards, Stages
  <2>4. QED
    BY <1>8, <2>2, <2>3 DEF PumpPty
<1>9. CASE Rescan
  BY <1>0, <1>9, OpensAllowed DEF Rescan, Maintain, Modes, UsesKeyboards, Stages, loopVars
<1>10. CASE PollKeys
  <2>1. /\ pc = "poll" /\ pc' \in {"open", "send"} /\ cfg' = cfg /\ mode' \in {mode, "terminal"}
        /\ pc' = "open" => mode' = "terminal"
        /\ Poll /\ UNCHANGED <<exclusive, listening>>
    BY <1>10 DEF PollKeys, Poll
  <2>2. QED
    BY <1>0, <2>1, OpensAllowed DEF Modes, UsesKeyboards, Stages
<1>11. CASE OpenTerminal
  <2>1. pc = "open" /\ pc' = "send" /\ cfg' = cfg /\ mode' = mode /\ Grab
    BY <1>11 DEF OpenTerminal, EnterTerminal
  <2>2. mode = "terminal"
    BY <1>0, <1>11 DEF Modes, OpenTerminal
  <2>3. QED
    BY <1>0, <2>1, <2>2, OpensAllowed DEF Modes, Grab, UsesKeyboards, Stages
<1>12. CASE Outside /\ UNCHANGED sessionVars
  <2>1. UNCHANGED <<exclusive, listening, allow>> /\ \A k \in Kb : fd'[k] # "closed" => fd[k] # "closed"
    BY <1>12 DEF Outside, Plug, Permit, Unplug, OtherGrabs, OtherReleases, Press, structVars,
       IInv, GrabInv, KbTypeOK
  <2>2. QED
    BY <1>0, <1>12, <2>1 DEF Modes, sessionVars, loopVars, UsesKeyboards, Stages
<1>13. CASE UNCHANGED vars
  BY <1>0, <1>13 DEF vars, kbVars, structVars, sessionVars, loopVars, Modes, UsesKeyboards, Stages
<1>14. QED
  BY Split, <1>1, <1>2, <1>3, <1>4, <1>5, <1>6, <1>7, <1>8, <1>9, <1>10, <1>11, <1>12, <1>13
-----------------------------------------------------------------------------
LEMMA InitInv == Init => IInv
<1> SUFFICES ASSUME Init PROVE IInv
  OBVIOUS
<1>1. GrabInv
  BY GrabInit DEF Init
<1>2. Modes
  BY DEF Init, KbInit, Modes, Stages
<1>3. SessionTypes
  <2>1. fails \in 0 .. 2 /\ toggles \in Nat /\ pressed \in Nat /\ faults \in Nat
    BY DEF Init
  <2>2. /\ pc \in Stages \union {"offline", "start", "stopped"}
        /\ running \in BOOLEAN /\ cfg \in Configs /\ mode \in {"status", "terminal"}
        /\ pty \in {"none", "running", "exited"} /\ activity \in BOOLEAN
    BY DEF Init
  <2>3. /\ file \in Configs /\ present \in BOOLEAN /\ link \in {"up", "dead"}
        /\ panel \in {"none", "status", "terminal", "bye"}
    BY DEF Init
  <2>4. QED
    BY <2>1, <2>2, <2>3, Zenon DEF SessionTypes
<1>4. QED
  BY <1>1, <1>2, <1>3 DEF IInv, TypeOK, SessionTypes, GrabInv

LEMMA InvStep == IInv /\ [Next]_vars => IInv'
<1> SUFFICES ASSUME IInv, [Next]_vars PROVE IInv'
  OBVIOUS
<1>1. GrabInv'
  BY KeyboardStep, GrabNext DEF IInv
<1>2. SessionTypes'
  BY TypesStep DEF IInv, TypeOK, SessionTypes
<1>3. Modes'
  BY ModesStep
<1>4. TypeOK'
  BY <1>1, <1>2 DEF TypeOK, SessionTypes, GrabInv
<1>5. QED
  BY <1>1, <1>3, <1>4 DEF IInv

\* The session's stages, mode and keyboards fit together in every state.
THEOREM SessionInvariant == Spec => []IInv
BY InitInv, InvStep, PTL DEF Spec

\* Type correctness, and with it the bound on failures in a row.
THEOREM TypeTheorem == Spec => []TypeOK
<1>1. IInv => TypeOK
  BY DEF IInv
<1>2. QED
  BY <1>1, SessionInvariant, PTL

\* The session uses the keyboards only through the operations of module
\* Keyboard: every theorem about KbSpec holds of it.
THEOREM SessionUsesKeyboard == Spec => KbSpec
<1>1. Init => KbInit
  BY DEF Init
<1>2. IInv /\ [Next]_vars => [KbNext]_kbVars
  BY KeyboardStep DEF IInv
<1>3. QED
  BY <1>1, <1>2, SessionInvariant, PTL DEF Spec, KbSpec

\* The daemon holds a keyboard only while a session shows the terminal.
THEOREM GrabTheorem == Spec => []GrabOnlyInTerminal
<1>1. IInv => GrabOnlyInTerminal
  BY DEF IInv, GrabInv, ReleasedUnlessExclusive, Modes, GrabOnlyInTerminal
<1>2. QED
  BY <1>1, SessionInvariant, PTL

\* It reads no keyboard but those the configuration in force names.
THEOREM AllowedTheorem == Spec => []ReadsOnlyAllowed
<1>1. IInv => ReadsOnlyAllowed
  <2>1. SUFFICES ASSUME IInv, NEW k \in Kb, fd[k] # "closed", pc # "apply"
                 PROVE  k \in cfg.allow /\ UsesKeyboards
    BY DEF ReadsOnlyAllowed
  <2>2. listening
    BY <2>1 DEF IInv, GrabInv, OpenIfListening
  <2>3. QED
    BY <2>1, <2>2 DEF IInv, Modes
<1>2. QED
  BY <1>1, SessionInvariant, PTL

\* A key pressed while the desktop had the keyboard never reaches the shell.
THEOREM PrivacyTheorem == Spec => []DeafKeysUnread
BY SessionUsesKeyboard, DeafTheorem, PTL
=============================================================================
