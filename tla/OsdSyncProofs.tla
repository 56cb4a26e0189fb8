---------------------------- MODULE OsdSyncProofs ----------------------------
(***************************************************************************)
(* The panel's level, the value it takes for the host's and its record in  *)
(* NVS, for any numbers of steps, any sleep table, any file and any number *)
(* of presses and faults: the three invariants are inductive together.     *)
(* Then a choice made with the button, followed through the event, the     *)
(* configuration, the file and the style of a frame, back to the panel.    *)
(***************************************************************************)
EXTENDS OsdSync, WellFoundedInduction, TLAPS

IInv == TypeOK /\ HostValueShown /\ NvsKept

-----------------------------------------------------------------------------
(* The maps from what a file says to a level                               *)

\* A non-empty set of naturals has a least element.
LEMMA LeastNat ==
  ASSUME NEW T \in SUBSET Nat, T # {}
  PROVE  \E x \in T : \A y \in T : ~(y < x)
<1>. DEFINE R == OpToRel(<, Nat)
<1>1. IsWellFoundedOn(R, Nat)
  BY NatLessThanWellFounded
<1>2. \E x \in T : \A y \in T : ~(<<y, x>> \in R)
  <2>. HIDE DEF R
  <2>. QED  BY <1>1, WFMin
<1>3. \A x, y \in T : y < x => <<y, x>> \in R
  BY DEF OpToRel
<1>. QED  BY <1>2, <1>3

\* A brightness, in steps or percent, becomes a step.
LEMMA MapBrightRange ==
  ASSUME NEW v \in Nat
  PROVE  MapBright(v) \in 1 .. Steps["bright"]
BY OsdAssumption DEF MapBright, Knobs

\* A sleep, a level or seconds, becomes a level.
LEMMA MapSleepRange ==
  ASSUME NEW v \in Nat
  PROVE  MapSleep(v) \in Level("sleep")
<1>. DEFINE L == {l \in Level("sleep") : SLEEP_SECS[l] >= v}
<1>0. Steps["sleep"] \in Nat
  BY OsdAssumption DEF Knobs
<1>1. CASE v <= Steps["sleep"]
  BY <1>0, <1>1 DEF MapSleep, Level
<1>2. CASE ~(v <= Steps["sleep"]) /\ L = {}
  BY <1>0, <1>2 DEF MapSleep, Level
<1>3. CASE ~(v <= Steps["sleep"]) /\ L # {}
  <2>1. L \in SUBSET Nat
    BY <1>0 DEF Level
  <2>2. PICK x \in L : \A y \in L : ~(y < x)
    BY <2>1, <1>3, LeastNat
  <2>3. \A m \in 0 .. x - 1 : m \in Level("sleep") /\ m < x
    BY <1>0, <2>1, <2>2 DEF Level
  <2>4. \A m \in 0 .. x - 1 : SLEEP_SECS[m] < v
    <3>. SUFFICES ASSUME NEW m \in 0 .. x - 1 PROVE SLEEP_SECS[m] < v
      OBVIOUS
    <3>1. m \in Level("sleep") /\ m \notin L
      BY <2>2, <2>3
    <3>2. SLEEP_SECS[m] \in Nat
      BY <3>1, OsdAssumption
    <3>. QED  BY <3>1, <3>2
  <2>5. \E l \in Level("sleep") :
          SLEEP_SECS[l] >= v /\ \A m \in 0 .. l - 1 : SLEEP_SECS[m] < v
    BY <2>2, <2>4
  <2>6. \E l \in Level("sleep") : SLEEP_SECS[l] >= v
    BY <2>5
  <2>. QED  BY <1>3, <2>5, <2>6 DEF MapSleep
<1>. QED  BY <1>1, <1>2, <1>3

\* What is compared with g_host_* has a level that stands for it.
LEMMA HostValueLevel ==
  ASSUME NEW st \in Display, NEW k \in Knobs
  PROVE  HostValue(st, k) \in Nat /\ LevelOf(k, HostValue(st, k)) \in Level(k)
<1>. Steps[k] \in Nat
  BY OsdAssumption
<1>1. CASE k = "bright"
  <2>1. st.bright \in Nat
    BY DEF Display
  <2>2. HostValue(st, k) \in Nat
    BY <1>1, <2>1 DEF HostValue
  <2>3. MapBright(HostValue(st, k)) \in 1 .. Steps["bright"]
    BY <2>2, MapBrightRange
  <2>. QED  BY <1>1, <2>2, <2>3 DEF LevelOf, Level
<1>2. CASE k = "sleep"
  <2>1. st.sleep \in Nat
    BY DEF Display
  <2>2. MapSleep(st.sleep) \in Level("sleep")
    BY <2>1, MapSleepRange
  <2>3. HostValue(st, k) = MapSleep(st.sleep)
    BY <1>2 DEF HostValue
  <2>. QED  BY <1>2, <2>2, <2>3 DEF LevelOf, Level
<1>. QED  BY <1>1, <1>2 DEF Knobs

\* A level stands for itself.
LEMMA LevelOfLevel ==
  ASSUME NEW k \in Knobs, NEW v \in Level(k)
  PROVE  v \in Nat /\ LevelOf(k, v) = v
BY OsdAssumption DEF LevelOf, Level, MapBright, Knobs

\* What a press, or an event, leaves in the configuration is a [display] section.
LEMMA AppliedDisplay ==
  ASSUME cfg \in Display, NEW k \in Knobs, NEW v \in Level(k)
  PROVE  Applied(k, v) \in Display
<1>1. \A j \in Knobs : Steps[j] \in Nat
  BY OsdAssumption
<1>2. v \in Nat
  BY <1>1 DEF Level
<1>3. cfg.bright \in Nat /\ cfg.sleep \in Nat
  BY DEF Display
<1>4. Capped("sleep", cfg.sleep) \in Nat /\ Capped("bright", cfg.bright) \in Nat
  BY <1>1, <1>3 DEF Capped, Knobs
<1>. QED  BY <1>2, <1>4 DEF Applied, WithLevels, Display

-----------------------------------------------------------------------------
(* The invariant                                                           *)

\* The panel's share of the invariant: the part its own actions disturb.
PanelInv(lv, hv, nv) ==
  /\ lv \in [Knobs -> Nat] /\ \A k \in Knobs : lv[k] \in Level(k)
  /\ hv \in [Knobs -> Nat \union {None}]
  /\ nv \in [Knobs -> Nat \union {None}] /\ \A k \in Knobs : nv[k] \in Level(k) \union {None}
  /\ \A k \in Knobs : hv[k] # None => lv[k] = LevelOf(k, hv[k])
  /\ \A k \in Knobs : nv[k] # None => nv[k] = lv[k]

\* The rest: the wire, the daemon and the file.
RestInv ==
  /\ style \in Display \union {NoStyle} /\ hold \in BOOLEAN
  /\ toHost \in Seq(Knobs \X Nat)
  /\ \A j \in 1 .. Len(toHost) : toHost[j][2] \in Level(toHost[j][1])
  /\ pc \in {"off", "connect", "greet", "loop", "reload", "push", "events", "stat", "send"}
  /\ mode \in {"status", "terminal"}
  /\ cfg \in Display /\ text \in Display /\ file \in Display /\ seen \in BOOLEAN
  /\ chosen \in [Knobs -> Nat \union {None}] /\ presses \in Nat /\ faults \in Nat

\* The invariant is its panel's share and the rest...
LEMMA Split == IInv <=> PanelInv(level, hostVal, nvs) /\ RestInv
BY DEF IInv, TypeOK, HostValueShown, NvsKept, PanelInv, RestInv

\* ...and so is the next state's.
LEMMA Join == PanelInv(level', hostVal', nvs') /\ RestInv' => IInv'
BY DEF IInv, TypeOK, HostValueShown, NvsKept, PanelInv, RestInv

\* Levels that are all written to NVS keep the panel's share.
LEMMA Persisted ==
  ASSUME NEW lv, NEW hv, lv \in [Knobs -> Nat], hv \in [Knobs -> Nat \union {None}],
         \A k \in Knobs : lv[k] \in Level(k),
         \A k \in Knobs : hv[k] # None => lv[k] = LevelOf(k, hv[k])
  PROVE  PanelInv(lv, hv, lv)
BY DEF PanelInv

\* The empty history has its type.
LEMMA NoChoiceType == NoChoice \in [Knobs -> Nat \union {None}]
BY DEF NoChoice

\* The invariant holds at first.
LEMMA InitInv == Init => IInv
<1>. SUFFICES ASSUME Init PROVE IInv
  OBVIOUS
<1>1. \A k \in Knobs : Default[k] \in Level(k)
  BY OsdAssumption DEF Level
<1>2. PanelInv(level, hostVal, nvs)
  BY <1>1, OsdAssumption DEF Init, PanelInv, NoChoice
<1>3. RestInv
  <2>1. file \in Display
    BY OsdAssumption DEF Init
  <2>2. toHost \in Seq(Knobs \X Nat) /\ \A j \in 1 .. Len(toHost) : toHost[j][2] \in Level(toHost[j][1])
    BY DEF Init
  <2>3. chosen \in [Knobs -> Nat \union {None}]
    BY NoChoiceType DEF Init
  <2>4. style \in Display \union {NoStyle} /\ cfg \in Display /\ text \in Display
    BY <2>1 DEF Init
  <2>. QED  BY <2>1, <2>2, <2>3, <2>4 DEF Init, RestInv
<1>. QED  BY <1>2, <1>3, Split

\* The events still to come stay well formed when one is taken or added.
LEMMA Events ==
  ASSUME RestInv
  PROVE  /\ toHost # <<>> =>
              /\ Head(toHost)[1] \in Knobs /\ Head(toHost)[2] \in Level(Head(toHost)[1])
              /\ Tail(toHost) \in Seq(Knobs \X Nat)
              /\ \A j \in 1 .. Len(Tail(toHost)) : Tail(toHost)[j][2] \in Level(Tail(toHost)[j][1])
         /\ \A k \in Knobs : \A v \in Level(k) :
              /\ Append(toHost, <<k, v>>) \in Seq(Knobs \X Nat)
              /\ \A j \in 1 .. Len(Append(toHost, <<k, v>>)) :
                   Append(toHost, <<k, v>>)[j][2] \in Level(Append(toHost, <<k, v>>)[j][1])
<1>0. toHost \in Seq(Knobs \X Nat) /\ \A j \in 1 .. Len(toHost) : toHost[j][2] \in Level(toHost[j][1])
  BY DEF RestInv
<1>1. ASSUME toHost # <<>>
      PROVE  /\ Head(toHost)[1] \in Knobs /\ Head(toHost)[2] \in Level(Head(toHost)[1])
             /\ Tail(toHost) \in Seq(Knobs \X Nat)
             /\ \A j \in 1 .. Len(Tail(toHost)) : Tail(toHost)[j][2] \in Level(Tail(toHost)[j][1])
  <2>. DEFINE t == Tail(toHost)
  <2>1. /\ Head(toHost) = toHost[1] /\ Len(toHost) \in Nat /\ Len(toHost) >= 1
        /\ t \in Seq(Knobs \X Nat) /\ Len(t) = Len(toHost) - 1
        /\ \A j \in 1 .. Len(t) : t[j] = toHost[j + 1]
    BY <1>0, <1>1
  <2>2. toHost[1] \in Knobs \X Nat
    BY <1>0, <2>1
  <2>3. Head(toHost)[1] \in Knobs /\ Head(toHost)[2] \in Level(Head(toHost)[1])
    BY <1>0, <2>1, <2>2
  <2>4. ASSUME NEW j \in 1 .. Len(t)
        PROVE  t[j][2] \in Level(t[j][1])
    <3>1. j + 1 \in 1 .. Len(toHost) /\ t[j] = toHost[j + 1]
      BY <2>1
    <3>. QED  BY <1>0, <3>1
  <2>. QED  BY <2>1, <2>3, <2>4
<1>2. ASSUME NEW k \in Knobs, NEW v \in Level(k)
      PROVE  /\ Append(toHost, <<k, v>>) \in Seq(Knobs \X Nat)
             /\ \A j \in 1 .. Len(Append(toHost, <<k, v>>)) :
                  Append(toHost, <<k, v>>)[j][2] \in Level(Append(toHost, <<k, v>>)[j][1])
  <2>1. v \in Nat
    BY LevelOfLevel
  <2>2. Append(toHost, <<k, v>>) \in Seq(Knobs \X Nat)
    BY <1>0, <2>1
  <2>3. ASSUME NEW j \in 1 .. Len(Append(toHost, <<k, v>>))
        PROVE  Append(toHost, <<k, v>>)[j][2] \in Level(Append(toHost, <<k, v>>)[j][1])
    <3>1. CASE j \in 1 .. Len(toHost)
      BY <1>0, <3>1
    <3>2. CASE j = Len(toHost) + 1
      BY <1>0, <3>2
    <3>. QED  BY <1>0, <3>1, <3>2
  <2>. QED  BY <2>2, <2>3
<1>. QED  BY <1>1, <1>2

\* A press: the new level is the host's value, in NVS, and on its way up.
LEMMA PressInv ==
  ASSUME IInv, NEW k \in Knobs, Press(k)
  PROVE  IInv'
<1>. DEFINE lv == [level EXCEPT ![k] = (@ + 1) % (Steps[k] + 1)]
<1>0. PanelInv(level, hostVal, nvs) /\ RestInv
  BY Split
<1>1. level' = lv /\ hostVal' = [hostVal EXCEPT ![k] = lv[k]] /\ nvs' = lv
  BY DEF Press, Cycle
<1>2. lv \in [Knobs -> Nat] /\ \A j \in Knobs : lv[j] \in Level(j)
  <2>1. level[k] \in Nat /\ Steps[k] \in Nat
    BY <1>0, OsdAssumption DEF PanelInv
  <2>2. (level[k] + 1) % (Steps[k] + 1) \in Level(k)
    BY <2>1 DEF Level
  <2>3. (level[k] + 1) % (Steps[k] + 1) \in Nat
    BY <2>1
  <2>. QED  BY <1>0, <2>2, <2>3 DEF PanelInv
<1>3. PanelInv(lv, hostVal', lv)
  <2>1. lv[k] \in Nat /\ LevelOf(k, lv[k]) = lv[k]
    BY <1>2, LevelOfLevel
  <2>2. hostVal' \in [Knobs -> Nat \union {None}]
    BY <1>0, <1>1, <2>1 DEF PanelInv
  <2>3. \A j \in Knobs : hostVal'[j] # None => lv[j] = LevelOf(j, hostVal'[j])
    BY <1>0, <1>1, <2>1 DEF PanelInv
  <2>. HIDE DEF lv
  <2>. QED  BY <1>2, <2>2, <2>3, Persisted
<1>4. RestInv'
  <2>1. toHost' = Append(toHost, <<k, lv[k]>>) /\ lv[k] \in Level(k) /\ lv[k] \in Nat
    BY <1>1, <1>2 DEF Press
  <2>2. toHost' \in Seq(Knobs \X Nat) /\ \A j \in 1 .. Len(toHost') : toHost'[j][2] \in Level(toHost'[j][1])
    BY <1>0, <2>1, Events
  <2>3. chosen' \in [Knobs -> Nat \union {None}]
    BY <1>0, <1>1, <2>1 DEF Press, RestInv
  <2>. QED  BY <1>0, <2>2, <2>3 DEF Press, Cycle, RestInv, daemonVars, fileVars
<1>5. PanelInv(level', hostVal', nvs')
  BY <1>1, <1>3
<1>. QED  BY <1>4, <1>5, Join

\* The style is applied: what it is compared with becomes the host's value.
LEMMA SyncInv ==
  ASSUME IInv, SyncFromStyle
  PROVE  IInv'
<1>. DEFINE hv == [k \in Knobs |-> HostValue(style, k)]
            lv == [k \in Knobs |-> IF Differs(k) THEN LevelOf(k, HostValue(style, k)) ELSE level[k]]
<1>0. PanelInv(level, hostVal, nvs) /\ RestInv
  BY Split
<1>1. level' = lv /\ hostVal' = hv /\ nvs' = lv
  BY DEF SyncFromStyle
<1>2. \A k \in Knobs : HostValue(style, k) \in Nat /\ LevelOf(k, HostValue(style, k)) \in Level(k)
  <2>1. style \in Display
    BY <1>0 DEF SyncFromStyle, RestInv
  <2>. QED  BY <2>1, HostValueLevel
<1>3. \A k \in Knobs : level[k] \in Level(k)
  BY <1>0 DEF PanelInv
<1>4. ASSUME NEW k \in Knobs
      PROVE  lv[k] \in Level(k) /\ lv[k] \in Nat /\ lv[k] = LevelOf(k, hv[k])
  <2>1. CASE Differs(k)
    <3>1. lv[k] = LevelOf(k, HostValue(style, k)) /\ hv[k] = HostValue(style, k)
      BY <2>1
    <3>. QED  BY <1>2, <3>1, LevelOfLevel
  <2>2. CASE ~Differs(k)
    <3>1. lv[k] = level[k] /\ hv[k] = hostVal[k]
      BY <2>2 DEF Differs
    <3>2. hv[k] \in Nat
      BY <1>2
    <3>3. hostVal[k] # None
      BY <3>1, <3>2 DEF None
    <3>4. level[k] = LevelOf(k, hostVal[k])
      BY <1>0, <3>3 DEF PanelInv
    <3>. QED  BY <1>3, <3>1, <3>4, LevelOfLevel
  <2>. QED  BY <2>1, <2>2
<1>5. lv \in [Knobs -> Nat] /\ hv \in [Knobs -> Nat \union {None}]
  <2>1. \A k \in Knobs : lv[k] \in Nat /\ hv[k] \in Nat \union {None}
    BY <1>2, <1>4
  <2>. QED  BY <2>1
<1>6. PanelInv(lv, hv, lv)
  <2>. HIDE DEF lv, hv
  <2>. QED  BY <1>4, <1>5, Persisted
<1>7. RestInv'
  BY <1>0 DEF SyncFromStyle, RestInv, daemonVars, fileVars
<1>. QED  BY <1>1, <1>6, <1>7, Join

\* The record in NVS is what a restart brings back.
LEMMA RestartInv ==
  ASSUME IInv, Restart
  PROVE  IInv'
<1>. DEFINE lv == [k \in Knobs |-> IF nvs[k] = None THEN Default[k] ELSE nvs[k]]
<1>0. PanelInv(level, hostVal, nvs) /\ RestInv
  BY Split
<1>1. level' = lv /\ hostVal' = nvs /\ nvs' = nvs
  BY DEF Restart
<1>2. \A k \in Knobs : Default[k] \in Level(k) /\ nvs[k] \in Level(k) \union {None}
  BY <1>0, OsdAssumption DEF PanelInv, Level
<1>3. ASSUME NEW k \in Knobs
      PROVE  /\ lv[k] \in Level(k) /\ lv[k] \in Nat
             /\ nvs[k] # None => lv[k] = nvs[k] /\ nvs[k] = LevelOf(k, nvs[k])
  BY <1>2, LevelOfLevel
<1>4. lv \in [Knobs -> Nat] /\ nvs \in [Knobs -> Nat \union {None}]
  <2>1. \A k \in Knobs : lv[k] \in Nat
    BY <1>3
  <2>. QED  BY <1>0, <2>1 DEF PanelInv
<1>5. PanelInv(lv, nvs, nvs)
  <2>. HIDE DEF lv
  <2>. QED  BY <1>2, <1>3, <1>4 DEF PanelInv
<1>6. RestInv'
  <2>1. toHost' \in Seq(Knobs \X Nat) /\ \A j \in 1 .. Len(toHost') : toHost'[j][2] \in Level(toHost'[j][1])
    BY DEF Restart
  <2>2. faults' \in Nat
    BY <1>0 DEF Restart, Fault, RestInv
  <2>3. chosen' \in [Knobs -> Nat \union {None}]
    BY NoChoiceType DEF Restart
  <2>4. style' \in Display \union {NoStyle} /\ hold' \in BOOLEAN /\ pc' = "off"
    BY DEF Restart
  <2>5. UNCHANGED <<mode, cfg, text, file, seen, presses>>
    BY DEF Restart, fileVars
  <2>. QED  BY <1>0, <2>1, <2>2, <2>3, <2>4, <2>5 DEF RestInv
<1>. QED  BY <1>1, <1>5, <1>6, Join

\* An event is applied to the configuration and the file.
LEMMA HandleLevelInv ==
  ASSUME IInv, HandleLevel
  PROVE  IInv'
<1>0. PanelInv(level, hostVal, nvs) /\ RestInv
  BY Split
<1>1. toHost # <<>> /\ toHost' = Tail(toHost)
  BY DEF HandleLevel
<1>2. toHost' \in Seq(Knobs \X Nat) /\ \A j \in 1 .. Len(toHost') : toHost'[j][2] \in Level(toHost'[j][1])
  BY <1>0, <1>1, Events
<1>3. Head(toHost)[1] \in Knobs /\ Head(toHost)[2] \in Level(Head(toHost)[1])
  BY <1>0, <1>1, Events
<1>4. cfg' \in Display
  <2>1. cfg \in Display
    BY <1>0 DEF RestInv
  <2>2. cfg' = Applied(Head(toHost)[1], Head(toHost)[2])
    BY DEF HandleLevel
  <2>. QED  BY <1>3, <2>1, <2>2, AppliedDisplay
<1>5. /\ file' \in Display /\ seen' \in BOOLEAN /\ faults' \in Nat
      /\ pc' \in {"events", "stat"} /\ chosen' \in [Knobs -> Nat \union {None}]
  <2>0. /\ file \in Display /\ seen \in BOOLEAN /\ faults \in Nat
        /\ chosen \in [Knobs -> Nat \union {None}] /\ pc = "events"
    BY <1>0 DEF HandleLevel, RestInv
  <2>1. CASE file' = cfg' /\ seen' = FALSE /\ pc' = "stat" /\ UNCHANGED <<chosen, faults>>
    BY <1>4, <2>0, <2>1
  <2>2. CASE Fault /\ chosen' = NoChoice /\ UNCHANGED <<fileVars, pc>>
    BY <2>0, <2>2, NoChoiceType DEF Fault, fileVars
  <2>. QED  BY <2>1, <2>2 DEF HandleLevel
<1>6. PanelInv(level', hostVal', nvs')
  BY <1>0 DEF HandleLevel, panelVars
<1>7. RestInv'
  BY <1>0, <1>2, <1>4, <1>5 DEF HandleLevel, RestInv, panelVars
<1>. QED  BY <1>6, <1>7, Join

\* An action that leaves the panel's levels and the events to the daemon alone
\* has only its own types to keep.
LEMMA FrameInv ==
  ASSUME IInv, UNCHANGED <<level, hostVal, nvs>>, RestInv'
  PROVE  IInv'
<1>1. PanelInv(level, hostVal, nvs)
  BY Split
<1>2. PanelInv(level', hostVal', nvs')
  BY <1>1
<1>. QED  BY <1>2, Join

\* The daemon's other steps.
LEMMA DaemonInv ==
  ASSUME IInv, Daemon
  PROVE  IInv'
<1>0. RestInv
  BY Split
<1>1. CASE Connect
  <2>1. toHost' = <<>> /\ toHost' \in Seq(Knobs \X Nat) /\ Len(toHost') = 0
    BY <1>1 DEF Connect
  <2>2. RestInv'
    BY <1>0, <1>1, <2>1 DEF Connect, RestInv, panelVars, fileVars
  <2>. QED  BY <1>1, <2>2, FrameInv DEF Connect, panelVars
<1>2. CASE Reload
  <2>1. RestInv'
    BY <1>0, <1>2 DEF Reload, RestInv, panelVars, fileVars
  <2>. QED  BY <1>2, <2>1, FrameInv DEF Reload, panelVars
<1>3. CASE Loaded
  <2>1. RestInv'
    BY <1>0, <1>3 DEF Loaded, RestInv, panelVars
  <2>. QED  BY <1>3, <2>1, FrameInv DEF Loaded, panelVars
<1>4. CASE NoReload
  <2>1. RestInv'
    BY <1>0, <1>4 DEF NoReload, RestInv, panelVars, fileVars
  <2>. QED  BY <1>4, <2>1, FrameInv DEF NoReload, panelVars
<1>5. CASE PushStyle
  <2>1. style' \in Display \union {NoStyle} /\ faults' \in Nat
    BY <1>0, <1>5 DEF PushStyle, RestInv, Fault
  <2>2. RestInv'
    BY <1>0, <1>5, <2>1 DEF PushStyle, RestInv, fileVars
  <2>. QED  BY <1>5, <2>2, FrameInv DEF PushStyle
<1>6. CASE HandleLevel
  BY <1>6, HandleLevelInv
<1>7. CASE RecordMtime
  <2>1. RestInv'
    BY <1>0, <1>7 DEF RecordMtime, RestInv, panelVars
  <2>. QED  BY <1>7, <2>1, FrameInv DEF RecordMtime, panelVars
<1>8. CASE EventsDone
  <2>1. RestInv'
    BY <1>0, <1>8 DEF EventsDone, RestInv, panelVars, fileVars
  <2>. QED  BY <1>8, <2>1, FrameInv DEF EventsDone, panelVars
<1>9. CASE SendStatus
  <2>1. RestInv'
    BY <1>0, <1>9 DEF SendStatus, RestInv, fileVars
  <2>. QED  BY <1>9, <2>1, FrameInv DEF SendStatus
<1>10. CASE SendNoStatus
  <2>1. RestInv'
    BY <1>0, <1>10 DEF SendNoStatus, RestInv, panelVars, fileVars
  <2>. QED  BY <1>10, <2>1, FrameInv DEF SendNoStatus, panelVars
<1>. QED
  BY <1>1, <1>2, <1>3, <1>4, <1>5, <1>6, <1>7, <1>8, <1>9, <1>10 DEF Daemon

\* The window's end and the world's disturbances.
LEMMA WorldInv ==
  ASSUME IInv, HoldEnds \/ World
  PROVE  IInv'
<1>0. RestInv
  BY Split
<1>1. CASE HoldEnds
  <2>1. RestInv'
    BY <1>0, <1>1 DEF HoldEnds, RestInv, daemonVars, fileVars
  <2>. QED  BY <1>1, <2>1, FrameInv DEF HoldEnds
<1>2. CASE HoldEndsEarly
  <2>1. faults' \in Nat
    BY <1>0, <1>2 DEF HoldEndsEarly, RestInv, Fault
  <2>2. RestInv'
    BY <1>0, <1>2, <2>1, NoChoiceType DEF HoldEndsEarly, RestInv, daemonVars, fileVars
  <2>. QED  BY <1>2, <2>2, FrameInv DEF HoldEndsEarly
<1>3. CASE Restart
  BY <1>3, RestartInv
<1>4. CASE SessionEnds
  <2>1. faults' \in Nat
    BY <1>0, <1>4 DEF SessionEnds, RestInv, Fault
  <2>2. RestInv'
    BY <1>0, <1>4, <2>1, NoChoiceType DEF SessionEnds, RestInv, panelVars, fileVars
  <2>. QED  BY <1>4, <2>2, FrameInv DEF SessionEnds, panelVars
<1>5. CASE Toggle
  <2>1. faults' \in Nat /\ mode' \in {"status", "terminal"}
    BY <1>0, <1>5 DEF Toggle, RestInv, Fault
  <2>2. RestInv'
    BY <1>0, <1>5, <2>1, NoChoiceType DEF Toggle, RestInv, panelVars, fileVars
  <2>. QED  BY <1>5, <2>2, FrameInv DEF Toggle, panelVars
<1>6. CASE LoseEvent
  <2>1. faults' \in Nat
    BY <1>0, <1>6 DEF LoseEvent, RestInv, Fault
  <2>2. toHost # <<>> /\ toHost' = Tail(toHost)
    BY <1>6 DEF LoseEvent
  <2>3. toHost' \in Seq(Knobs \X Nat) /\ \A j \in 1 .. Len(toHost') : toHost'[j][2] \in Level(toHost'[j][1])
    BY <1>0, <2>2, Events
  <2>4. RestInv'
    BY <1>0, <1>6, <2>1, <2>3, NoChoiceType DEF LoseEvent, RestInv, panelVars, daemonVars, fileVars
  <2>. QED  BY <1>6, <2>4, FrameInv DEF LoseEvent, panelVars
<1>7. CASE Edit
  <2>1. faults' \in Nat
    BY <1>0, <1>7 DEF Edit, RestInv, Fault
  <2>2. file' \in Display
    BY <1>7, OsdAssumption DEF Edit
  <2>3. RestInv'
    BY <1>0, <1>7, <2>1, <2>2, NoChoiceType DEF Edit, RestInv, panelVars, daemonVars
  <2>. QED  BY <1>7, <2>3, FrameInv DEF Edit, panelVars
<1>. QED  BY <1>1, <1>2, <1>3, <1>4, <1>5, <1>6, <1>7 DEF World

\* Every step keeps the invariant.
LEMMA NextInv == IInv /\ [Next]_vars => IInv'
<1>. SUFFICES ASSUME IInv, [Next]_vars PROVE IInv'
  OBVIOUS
<1>1. CASE Presses
  <2>1. PICK k \in Knobs : Press(k)
    BY <1>1 DEF Presses
  <2>. QED  BY <2>1, PressInv
<1>2. CASE HoldEnds \/ World
  BY <1>2, WorldInv
<1>3. CASE SyncFromStyle
  BY <1>3, SyncInv
<1>4. CASE Daemon
  BY <1>4, DaemonInv
<1>5. CASE UNCHANGED vars
  <2>1. RestInv
    BY Split
  <2>2. RestInv'
    BY <1>5, <2>1 DEF vars, panelVars, daemonVars, fileVars, RestInv
  <2>. QED  BY <1>5, <2>2, FrameInv DEF vars, panelVars
<1>. QED  BY <1>1, <1>2, <1>3, <1>4, <1>5 DEF Next

-----------------------------------------------------------------------------
(* The theorems                                                            *)

\* The invariant holds always.
LEMMA Invariant == Spec => []IInv
BY InitInv, NextInv, PTL DEF Spec

\* The panel, the wire, the daemon and the file keep their types.
THEOREM TypeTheorem == Spec => []TypeOK
<1>1. IInv => TypeOK
  BY DEF IInv
<1>. QED  BY <1>1, Invariant, PTL

\* The panel shows the level of the value it takes for the host's.
THEOREM HostValueTheorem == Spec => []HostValueShown
<1>1. IInv => HostValueShown
  BY DEF IInv
<1>. QED  BY <1>1, Invariant, PTL

\* What NVS holds is what the panel shows.
THEOREM NvsTheorem == Spec => []NvsKept
<1>1. IInv => NvsKept
  BY DEF IInv
<1>. QED  BY <1>1, Invariant, PTL

\* The step that applies an event, on a canonical configuration.
LEMMA OtherKept == IInv => KeepsOther
<1>. SUFFICES ASSUME IInv, HandleLevel, Canonical(cfg),
                     NEW k \in Knobs \ {Head(toHost)[1]}
              PROVE  HostValue(cfg', k) = HostValue(cfg, k)
  BY DEF KeepsOther
<1>. DEFINE e == Head(toHost)
<1>0. RestInv
  BY Split
<1>1. e[1] \in Knobs /\ e[2] \in Level(e[1])
  BY <1>0, Events DEF HandleLevel
<1>2. cfg' = Applied(e[1], e[2])
  BY DEF HandleLevel
<1>3. /\ cfg.bright \in Nat /\ cfg.sleep \in Nat /\ cfg.auto \in BOOLEAN
      /\ cfg.bright <= Steps["bright"] /\ cfg.sleep <= Steps["sleep"]
      /\ cfg.auto <=> cfg.bright = 0
  BY <1>0 DEF RestInv, Display, Canonical
<1>4. Capped("bright", cfg.bright) = cfg.bright /\ Capped("sleep", cfg.sleep) = cfg.sleep
  <2>1. Steps["bright"] \in Nat /\ Steps["sleep"] \in Nat
    BY OsdAssumption DEF Knobs
  <2>. QED  BY <1>3, <2>1 DEF Capped
<1>5. CASE e[1] = "bright"
  <2>1. k = "sleep"
    BY <1>5 DEF Knobs
  <2>2. cfg'.sleep = cfg.sleep
    BY <1>2, <1>4, <1>5 DEF Applied, WithLevels
  <2>. QED  BY <2>1, <2>2 DEF HostValue
<1>6. CASE e[1] = "sleep"
  <2>1. k = "bright"
    BY <1>6 DEF Knobs
  <2>2. cfg' = WithLevels(cfg.bright, e[2])
    BY <1>2, <1>4, <1>6 DEF Applied
  <2>3. cfg'.bright = cfg.bright /\ (cfg'.auto <=> cfg.bright = 0)
    BY <2>2 DEF WithLevels
  <2>. QED  BY <1>3, <2>1, <2>3 DEF HostValue
<1>. QED  BY <1>1, <1>5, <1>6 DEF Knobs

\* A change of one setting leaves the other as the user had it, if the file has
\* the forms the documentation intends.
THEOREM OtherSettingTheorem == Spec => OtherSettingKept
<1>1. IInv /\ [Next]_vars => [KeepsOther]_vars
  BY OtherKept
<1>. QED  BY <1>1, Invariant, PTL DEF Spec, OtherSettingKept


-----------------------------------------------------------------------------
(* A choice made with the button.  After the press it is on its way up as  *)
(* the last event of its setting; once that is handled, every copy from    *)
(* which the panel's style may come, or the daemon's configuration be      *)
(* loaded again, says the same; and the window stays open until the style  *)
(* the panel holds says it too.                                            *)

\* A [display] says level v of a setting, in the form the daemon writes it.
Says(d, k, v) ==
  IF k = "bright" THEN d.bright = v /\ (d.auto <=> v = 0) ELSE d.sleep = v

NoEvent(q, k) == \A j \in 1 .. Len(q) : q[j][1] # k
LastEvent(q, k, v) ==
  \E j \in 1 .. Len(q) : q[j] = <<k, v>> /\ \A i \in j + 1 .. Len(q) : q[i][1] # k

Applies(k, v) ==
  /\ Says(cfg, k, v)
  /\ ~seen => Says(file, k, v)
  /\ pc \in {"connect", "reload"} => Says(text, k, v)
Answers(k, v) == LastEvent(toHost, k, v) \/ (NoEvent(toHost, k) /\ Applies(k, v))

Known(k) == pc # "off" /\ mode = "status" /\ level[k] = chosen[k]
Covered(k, v) == hold \/ (toHost = <<>> /\ Says(style, k, v))

ChoiceInv ==
  \A k \in Knobs : chosen[k] # None => /\ Known(k)
                                       /\ Answers(k, chosen[k])
                                       /\ Covered(k, chosen[k])

\* A place after p in a longer sequence, but for the new one.
LEMMA NotTheLast ==
  ASSUME NEW n \in Nat, NEW p \in 1 .. n, NEW i \in p + 1 .. n + 1, i # n + 1
  PROVE  i \in p + 1 .. n /\ i \in 1 .. n
OBVIOUS

\* A new event is the last of its setting, and changes nothing for the others.
LEMMA AppendedEvent ==
  ASSUME NEW q \in Seq(Knobs \X Nat), NEW k \in Knobs, NEW v \in Nat
  PROVE  /\ LastEvent(Append(q, <<k, v>>), k, v)
         /\ \A j \in Knobs \ {k} :
              /\ NoEvent(q, j) => NoEvent(Append(q, <<k, v>>), j)
              /\ \A w : LastEvent(q, j, w) => LastEvent(Append(q, <<k, v>>), j, w)
<1>. DEFINE a == Append(q, <<k, v>>)
<1>1. /\ Len(q) \in Nat /\ Len(a) = Len(q) + 1 /\ a[Len(q) + 1] = <<k, v>>
      /\ \A i \in 1 .. Len(q) : a[i] = q[i]
  OBVIOUS
<1>2. LastEvent(a, k, v)
  <2>. HIDE DEF a
  <2>1. Len(q) + 1 \in 1 .. Len(a) /\ \A i \in (Len(q) + 1) + 1 .. Len(a) : FALSE
    BY <1>1
  <2>. QED  BY <1>1, <2>1 DEF LastEvent
<1>3. ASSUME NEW j \in Knobs, j # k
      PROVE  /\ NoEvent(q, j) => NoEvent(a, j)
             /\ \A w : LastEvent(q, j, w) => LastEvent(a, j, w)
  <2>. HIDE DEF a
  <2>1. a[Len(q) + 1][1] # j
    BY <1>1, <1>3
  <2>2. ASSUME NoEvent(q, j)
        PROVE  NoEvent(a, j)
    BY <1>1, <2>1, <2>2 DEF NoEvent
  <2>3. ASSUME NEW w, LastEvent(q, j, w)
        PROVE  LastEvent(a, j, w)
    <3>1. PICK p \in 1 .. Len(q) : q[p] = <<j, w>> /\ \A i \in p + 1 .. Len(q) : q[i][1] # j
      BY <2>3 DEF LastEvent
    <3>2. p \in 1 .. Len(a) /\ a[p] = <<j, w>>
      BY <1>1, <3>1
    <3>3. \A i \in p + 1 .. Len(a) : a[i][1] # j
      <4>. SUFFICES ASSUME NEW i \in p + 1 .. Len(a) PROVE a[i][1] # j
        OBVIOUS
      <4>1. CASE i = Len(q) + 1
        BY <2>1, <4>1
      <4>2. CASE i # Len(q) + 1
        <5>0. Len(q) \in Nat /\ i \in p + 1 .. Len(q) + 1
          BY <1>1
        <5>1. i \in p + 1 .. Len(q) /\ i \in 1 .. Len(q)
          BY <4>2, <5>0, NotTheLast
        <5>2. a[i] = q[i]
          BY <1>1, <5>1
        <5>. QED  BY <3>1, <5>1, <5>2
      <4>. QED  BY <4>1, <4>2
    <3>. QED  BY <3>2, <3>3 DEF LastEvent
  <2>. QED  BY <2>2, <2>3
<1>. QED  BY <1>2, <1>3

\* The first event, once taken, was the last of its setting or changes nothing.
LEMMA TakenEvent ==
  ASSUME NEW q \in Seq(Knobs \X Nat), q # <<>>, NEW k \in Knobs
  PROVE  /\ NoEvent(q, k) => Head(q)[1] # k /\ NoEvent(Tail(q), k)
         /\ \A v : LastEvent(q, k, v) => \/ LastEvent(Tail(q), k, v)
                                         \/ Head(q) = <<k, v>> /\ NoEvent(Tail(q), k)
<1>. DEFINE t == Tail(q)
<1>1. /\ Len(q) \in Nat \ {0} /\ Len(t) = Len(q) - 1 /\ Head(q) = q[1]
      /\ \A i \in 1 .. Len(t) : t[i] = q[i + 1]
  OBVIOUS
<1>. HIDE DEF t
<1>2. ASSUME NoEvent(q, k)
      PROVE  Head(q)[1] # k /\ NoEvent(t, k)
  <2>1. 1 \in 1 .. Len(q) /\ \A i \in 1 .. Len(t) : i + 1 \in 1 .. Len(q)
    BY <1>1
  <2>. QED  BY <1>1, <1>2, <2>1 DEF NoEvent
<1>3. ASSUME NEW v, LastEvent(q, k, v)
      PROVE  LastEvent(t, k, v) \/ (Head(q) = <<k, v>> /\ NoEvent(t, k))
  <2>1. PICK p \in 1 .. Len(q) : q[p] = <<k, v>> /\ \A i \in p + 1 .. Len(q) : q[i][1] # k
    BY <1>3 DEF LastEvent
  <2>2. ASSUME NEW i \in 1 .. Len(t), i >= p
        PROVE  t[i][1] # k
    <3>1. i + 1 \in p + 1 .. Len(q) /\ t[i] = q[i + 1]
      BY <1>1, <2>2
    <3>. QED  BY <2>1, <3>1
  <2>3. CASE p = 1
    BY <1>1, <2>1, <2>2, <2>3 DEF NoEvent
  <2>4. CASE p # 1
    <3>0. p - 1 \in 1 .. Len(t)
      BY <1>1, <2>4
    <3>1. p - 1 \in 1 .. Len(t) /\ t[p - 1] = <<k, v>>
      <4>1. t[p - 1] = q[(p - 1) + 1] /\ (p - 1) + 1 = p
        BY <1>1, <3>0
      <4>. QED  BY <2>1, <3>0, <4>1
    <3>2. \A i \in (p - 1) + 1 .. Len(t) : i \in 1 .. Len(t) /\ i >= p
      BY <2>4
    <3>. QED  BY <2>2, <3>1, <3>2 DEF LastEvent
  <2>. QED  BY <2>3, <2>4
<1>. QED  BY <1>2, <1>3 DEF t

\* An event leaves its own level in the configuration, and the other setting's.
LEMMA AppliedSays ==
  ASSUME cfg \in Display, NEW k \in Knobs, NEW v \in Level(k)
  PROVE  /\ Says(Applied(k, v), k, v)
         /\ \A j \in Knobs \ {k} : \A w \in Level(j) :
              Says(cfg, j, w) => Says(Applied(k, v), j, w)
<1>1. \A j \in Knobs : Steps[j] \in Nat
  BY OsdAssumption
<1>2. \A j \in Knobs : \A w \in Level(j) : Capped(j, w) = w
  BY <1>1 DEF Capped, Level
<1>3. CASE k = "bright"
  <2>1. /\ Applied(k, v).bright = v /\ (Applied(k, v).auto <=> v = 0)
        /\ Applied(k, v).sleep = Capped("sleep", cfg.sleep)
    BY <1>3 DEF Applied, WithLevels
  <2>2. \A j \in Knobs \ {k} : j = "sleep"
    BY <1>3 DEF Knobs
  <2>. QED  BY <1>2, <1>3, <2>1, <2>2 DEF Says
<1>4. CASE k = "sleep"
  <2>1. /\ Applied(k, v).bright = Capped("bright", cfg.bright)
        /\ (Applied(k, v).auto <=> Capped("bright", cfg.bright) = 0)
        /\ Applied(k, v).sleep = v
    BY <1>4 DEF Applied, WithLevels
  <2>2. \A j \in Knobs \ {k} : j = "bright"
    BY <1>4 DEF Knobs
  <2>. QED  BY <1>2, <1>4, <2>1, <2>2 DEF Says
<1>. QED  BY <1>3, <1>4 DEF Knobs

\* What says a level is taken for it by the panel.
LEMMA SaysLevel ==
  ASSUME NEW st, NEW k \in Knobs, NEW v \in Level(k), Says(st, k, v)
  PROVE  LevelOf(k, HostValue(st, k)) = v
<1>1. Steps["sleep"] \in Nat /\ v \in Nat /\ LevelOf(k, v) = v
  BY LevelOfLevel, OsdAssumption DEF Knobs
<1>2. HostValue(st, k) = v
  <2>1. CASE k = "bright"
    BY <1>1, <2>1 DEF HostValue, Says
  <2>2. CASE k = "sleep"
    BY <1>1, <2>2 DEF HostValue, Says, MapSleep, Level
  <2>. QED  BY <2>1, <2>2 DEF Knobs
<1>. QED  BY <1>1, <1>2

\* A choice is a level.
LEMMA ChosenLevel ==
  ASSUME IInv, ChoiceInv, NEW k \in Knobs, chosen[k] # None
  PROVE  chosen[k] \in Level(k) /\ chosen[k] \in Nat
BY DEF ChoiceInv, Known, IInv, TypeOK

\* With no history there is nothing to keep.
LEMMA NoChoiceInv == chosen' = NoChoice => ChoiceInv'
BY DEF ChoiceInv, NoChoice


\* What holds of each choice that is left after a step holds of the next state.
LEMMA ChoiceJoin ==
  ASSUME \A k \in Knobs : chosen'[k] # None =>
           /\ pc' # "off" /\ mode' = "status" /\ level'[k] = chosen'[k]
           /\ \/ LastEvent(toHost', k, chosen'[k])
              \/ /\ NoEvent(toHost', k) /\ Says(cfg', k, chosen'[k])
                 /\ ~seen' => Says(file', k, chosen'[k])
                 /\ pc' \in {"connect", "reload"} => Says(text', k, chosen'[k])
           /\ hold' \/ (toHost' = <<>> /\ Says(style', k, chosen'[k]))
  PROVE  ChoiceInv'
BY DEF ChoiceInv, Known, Answers, Applies, Covered

\* A press: the choice is the last event of its setting, and the window opens.
LEMMA PressChoice ==
  ASSUME IInv, ChoiceInv, NEW k \in Knobs, Press(k)
  PROVE  ChoiceInv'
<1>0. IInv' /\ chosen \in [Knobs -> Nat \union {None}] /\ toHost \in Seq(Knobs \X Nat)
      /\ level \in [Knobs -> Nat]
  BY PressInv DEF IInv, TypeOK
<1>1. /\ hold' = TRUE /\ toHost' = Append(toHost, <<k, level'[k]>>)
      /\ UNCHANGED <<pc, mode, cfg, text, file, seen>>
      /\ \A j \in Knobs \ {k} : level'[j] = level[j]
  BY <1>0 DEF Press, Cycle, daemonVars, fileVars
<1>2. level'[k] \in Nat
  BY <1>0 DEF IInv, TypeOK
<1>3. CASE ~(pc # "off" /\ mode = "status")
  <2>1. chosen' = chosen
    BY <1>3 DEF Press
  <2>2. \A j \in Knobs : chosen[j] = None
    BY <1>3 DEF ChoiceInv, Known
  <2>. QED  BY <2>1, <2>2 DEF ChoiceInv
<1>4. CASE pc # "off" /\ mode = "status"
  <2>1. chosen' = [chosen EXCEPT ![k] = level'[k]]
    BY <1>4 DEF Press
  <2>2. chosen'[k] = level'[k] /\ \A j \in Knobs \ {k} : chosen'[j] = chosen[j]
    BY <1>0, <2>1
  <2>3. LastEvent(toHost', k, chosen'[k])
    BY <1>0, <1>1, <1>2, <2>2, AppendedEvent
  <2>4. ASSUME NEW j \in Knobs \ {k}, chosen'[j] # None
        PROVE  /\ level'[j] = chosen'[j]
               /\ \/ LastEvent(toHost', j, chosen'[j])
                  \/ NoEvent(toHost', j) /\ Applies(j, chosen'[j])
    <3>1. chosen[j] # None /\ chosen'[j] = chosen[j]
      BY <2>2, <2>4
    <3>2. level[j] = chosen[j] /\ Answers(j, chosen[j])
      BY <3>1 DEF ChoiceInv, Known
    <3>3. CASE LastEvent(toHost, j, chosen[j])
      BY <1>0, <1>1, <1>2, <3>1, <3>2, <3>3, AppendedEvent
    <3>4. CASE NoEvent(toHost, j) /\ Applies(j, chosen[j])
      BY <1>0, <1>1, <1>2, <3>1, <3>2, <3>4, AppendedEvent
    <3>. QED  BY <3>2, <3>3, <3>4 DEF Answers
  <2>. QED  BY <1>1, <1>4, <2>2, <2>3, <2>4, ChoiceJoin DEF Applies
<1>. QED  BY <1>3, <1>4

\* The window ends when the style says what was chosen.
LEMMA HoldEndsChoice ==
  ASSUME IInv, ChoiceInv, HoldEnds
  PROVE  ChoiceInv'
<1>1. UNCHANGED <<level, style, toHost, pc, mode, cfg, text, file, seen, chosen>>
  BY DEF HoldEnds, daemonVars, fileVars
<1>2. ASSUME NEW k \in Knobs, chosen[k] # None
      PROVE  toHost = <<>> /\ Says(style, k, chosen[k])
  <2>1. pc # "off" /\ mode = "status" /\ Answers(k, chosen[k])
    BY <1>2 DEF ChoiceInv, Known
  <2>2. toHost = <<>> /\ style = cfg
    BY <2>1 DEF HoldEnds, Answered
  <2>3. ~LastEvent(toHost, k, chosen[k])
    BY <2>2 DEF LastEvent
  <2>. QED  BY <2>1, <2>2, <2>3 DEF Answers, Applies
<1>. QED  BY <1>1, <1>2, ChoiceJoin DEF ChoiceInv, Known, Answers, Applies

\* With the window closed the style is the choice: applying it changes nothing.
LEMMA SyncChoice ==
  ASSUME IInv, ChoiceInv, SyncFromStyle
  PROVE  ChoiceInv'
<1>1. UNCHANGED <<style, hold, toHost, pc, mode, cfg, text, file, seen, chosen>>
  BY DEF SyncFromStyle, daemonVars, fileVars
<1>2. ASSUME NEW k \in Knobs, chosen[k] # None
      PROVE  level'[k] = chosen[k]
  <2>1. chosen[k] \in Level(k) /\ level[k] = chosen[k]
    BY <1>2, ChosenLevel DEF ChoiceInv, Known
  <2>2. Says(style, k, chosen[k])
    BY <1>2 DEF ChoiceInv, Covered, SyncFromStyle
  <2>3. LevelOf(k, HostValue(style, k)) = chosen[k]
    BY <2>1, <2>2, SaysLevel
  <2>4. level'[k] = IF Differs(k) THEN LevelOf(k, HostValue(style, k)) ELSE level[k]
    BY DEF SyncFromStyle
  <2>. QED  BY <2>1, <2>3, <2>4
<1>. QED  BY <1>1, <1>2, ChoiceJoin DEF ChoiceInv, Known, Answers, Applies, Covered

\* An event is applied: if it is the choice, configuration and file now say it.
LEMMA HandleChoice ==
  ASSUME IInv, ChoiceInv, HandleLevel
  PROVE  ChoiceInv'
<1>. DEFINE e == Head(toHost)
<1>1. CASE chosen' = NoChoice
  BY <1>1, NoChoiceInv
<1>2. CASE file' = cfg' /\ seen' = FALSE /\ pc' = "stat" /\ UNCHANGED <<chosen, faults>>
  <2>1. RestInv
    BY Split
  <2>2. e[1] \in Knobs /\ e[2] \in Level(e[1]) /\ cfg \in Display /\ toHost \in Seq(Knobs \X Nat)
    BY <2>1, Events DEF HandleLevel, RestInv
  <2>3. /\ toHost # <<>> /\ toHost' = Tail(toHost) /\ cfg' = Applied(e[1], e[2])
        /\ UNCHANGED <<level, hold, style, mode>>
    BY DEF HandleLevel, panelVars
  <2>4. ASSUME NEW k \in Knobs, chosen[k] # None
        PROVE  LastEvent(toHost', k, chosen[k]) \/ (NoEvent(toHost', k) /\ Says(cfg', k, chosen[k]))
    <3>1. chosen[k] \in Level(k) /\ Answers(k, chosen[k])
      BY <2>4, ChosenLevel DEF ChoiceInv
    <3>2. CASE LastEvent(toHost, k, chosen[k])
      <4>1. CASE LastEvent(Tail(toHost), k, chosen[k])
        BY <2>3, <4>1
      <4>2. CASE e = <<k, chosen[k]>> /\ NoEvent(Tail(toHost), k)
        <5>1. Says(Applied(k, chosen[k]), k, chosen[k])
          BY <2>2, <3>1, AppliedSays
        <5>2. e[1] = k /\ e[2] = chosen[k]
          BY <4>2
        <5>. QED  BY <2>3, <4>2, <5>1, <5>2
      <4>3. \A v : LastEvent(toHost, k, v) => \/ LastEvent(Tail(toHost), k, v)
                                              \/ e = <<k, v>> /\ NoEvent(Tail(toHost), k)
        BY <2>2, <2>3, TakenEvent
      <4>. QED  BY <3>2, <4>1, <4>2, <4>3
    <3>3. CASE NoEvent(toHost, k) /\ Applies(k, chosen[k])
      <4>1. e[1] # k /\ NoEvent(Tail(toHost), k)
        BY <2>2, <2>3, <3>3, TakenEvent
      <4>2. Says(cfg, k, chosen[k])
        BY <3>3 DEF Applies
      <4>3. Says(Applied(e[1], e[2]), k, chosen[k])
        BY <2>2, <3>1, <4>1, <4>2, AppliedSays
      <4>. QED  BY <2>3, <4>1, <4>3
    <3>. QED  BY <3>1, <3>2, <3>3 DEF Answers
  <2>5. ASSUME NEW k \in Knobs, chosen[k] # None
        PROVE  hold /\ mode = "status" /\ level[k] = chosen[k]
    BY <2>3, <2>5 DEF ChoiceInv, Known, Covered
  <2>. HIDE DEF e
  <2>. QED  BY <1>2, <2>3, <2>4, <2>5, ChoiceJoin
<1>. QED  BY <1>1, <1>2 DEF HandleLevel

\* The daemon's other steps: what it reloads, and what it sends, says the choice.
LEMMA DaemonChoice ==
  ASSUME IInv, ChoiceInv, Daemon
  PROVE  ChoiceInv'
<1>0. ASSUME NEW k \in Knobs, chosen[k] # None
      PROVE  /\ pc # "off" /\ mode = "status" /\ level[k] = chosen[k]
             /\ LastEvent(toHost, k, chosen[k]) \/ (NoEvent(toHost, k) /\ Applies(k, chosen[k]))
             /\ hold \/ (toHost = <<>> /\ Says(style, k, chosen[k]))
             /\ toHost = <<>> => Says(cfg, k, chosen[k])
  <2>1. toHost = <<>> => ~LastEvent(toHost, k, chosen[k])
    BY DEF LastEvent
  <2>. QED  BY <1>0, <2>1 DEF ChoiceInv, Known, Answers, Applies, Covered
<1>1. CASE Connect
  <2>1. \A k \in Knobs : chosen[k] = None
    BY <1>0, <1>1 DEF Connect
  <2>. QED  BY <1>1, <2>1 DEF Connect, ChoiceInv
<1>2. CASE Reload
  BY <1>0, <1>2, ChoiceJoin DEF Reload, Applies, panelVars, fileVars
<1>3. CASE Loaded
  BY <1>0, <1>3, ChoiceJoin DEF Loaded, Applies, panelVars
<1>4. CASE NoReload
  BY <1>0, <1>4, ChoiceJoin DEF NoReload, Applies, panelVars, fileVars
<1>5. CASE PushStyle
  <2>1. style' = cfg \/ style' = style
    BY <1>5 DEF PushStyle
  <2>. QED  BY <1>0, <1>5, <2>1, ChoiceJoin DEF PushStyle, Applies, fileVars
<1>6. CASE HandleLevel
  BY <1>6, HandleChoice
<1>7. CASE RecordMtime
  BY <1>0, <1>7, ChoiceJoin DEF RecordMtime, Applies, panelVars
<1>8. CASE EventsDone
  BY <1>0, <1>8, ChoiceJoin DEF EventsDone, Applies, panelVars, fileVars
<1>9. CASE SendStatus
  BY <1>0, <1>9, ChoiceJoin DEF SendStatus, Applies, fileVars
<1>10. CASE SendNoStatus
  BY <1>0, <1>10, ChoiceJoin DEF SendNoStatus, Applies, panelVars, fileVars
<1>. QED
  BY <1>1, <1>2, <1>3, <1>4, <1>5, <1>6, <1>7, <1>8, <1>9, <1>10 DEF Daemon

\* A disturbance overrules every choice.
LEMMA WorldChoice == World => chosen' = NoChoice
BY DEF World, HoldEndsEarly, Restart, SessionEnds, Toggle, LoseEvent, Edit

\* Every step keeps the invariant.
LEMMA NextChoice == IInv /\ ChoiceInv /\ [Next]_vars => ChoiceInv'
<1>. SUFFICES ASSUME IInv, ChoiceInv, [Next]_vars PROVE ChoiceInv'
  OBVIOUS
<1>1. CASE Presses
  <2>1. PICK k \in Knobs : Press(k)
    BY <1>1 DEF Presses
  <2>. QED  BY <2>1, PressChoice
<1>2. CASE HoldEnds
  BY <1>2, HoldEndsChoice
<1>3. CASE SyncFromStyle
  BY <1>3, SyncChoice
<1>4. CASE Daemon
  BY <1>4, DaemonChoice
<1>5. CASE World
  BY <1>5, WorldChoice, NoChoiceInv
<1>6. CASE UNCHANGED vars
  BY <1>6 DEF vars, panelVars, daemonVars, fileVars, ChoiceInv, Known, Answers, Applies, Covered
<1>. QED  BY <1>1, <1>2, <1>3, <1>4, <1>5, <1>6 DEF Next

\* While the daemon answers, in status mode, a level the user chose is not undone
\* by a frame built before the daemon knew of it.
THEOREM ChoiceTheorem == Spec => []ChoiceKept
<1>1. Init => ChoiceInv
  BY DEF Init, ChoiceInv, NoChoice
<1>2. ChoiceInv => ChoiceKept
  BY DEF ChoiceInv, Known, ChoiceKept
<1>. QED  BY <1>1, <1>2, NextChoice, Invariant, PTL DEF Spec

=============================================================================
