------------------------------ MODULE ConfigText ------------------------------
(***************************************************************************)
(* buddy.config as text: what parse_status_config_from_str reads from it   *)
(* and what write_osd_levels makes of it.                                  *)
(*                                                                         *)
(* A text is a sequence of blocks, each a section header and the keys      *)
(* below it.  Names are trimmed and lower-cased, comments and the order of *)
(* the keys within a block are left out, and a value is a number or a      *)
(* word.  Colours, formats and device names are words.                     *)
(***************************************************************************)
EXTENDS Integers, Sequences

Number(n) == [num |-> n, word |-> ""]
Word(w) == [num |-> -1, word |-> w]

Block(s, k) == [sec |-> s, keys |-> k]

\* The keys of both, f's where they meet.
Over(f, g) == [k \in DOMAIN f \union DOMAIN g |-> IF k \in DOMAIN f THEN f[k] ELSE g[k]]

\* A text is a finite sequence of blocks.
IsText(text) == text \in Seq({Block(text[n].sec, text[n].keys) : n \in DOMAIN text})

-----------------------------------------------------------------------------
(* parse_ini                                                               *)

Blocks(text, s) == {n \in DOMAIN text : text[n].sec = s}
HasSection(text, s) == Blocks(text, s) # {}
Keys(text, s) == UNION {DOMAIN text[n].keys : n \in Blocks(text, s)}

\* A section that is repeated is one section: the last value of a key counts.
Get(text, s, key) ==
  LET with == {n \in Blocks(text, s) : key \in DOMAIN text[n].keys}
  IN text[CHOOSE n \in with : \A m \in with : m <= n].keys[key]

-----------------------------------------------------------------------------
(* Conversions                                                             *)

Colours == {"336699", "888888", "000000", "ffffff", "33aa33", "cccc33", "cc3333", "ccaa33",
            "3399cc", "990000"}

AsBool(v, default) ==
  CASE v.num = 1 \/ v.word \in {"true", "yes", "on"} -> TRUE
    [] v.num = 0 \/ v.word \in {"false", "no", "off"} -> FALSE
    [] OTHER -> default

SecId(v) ==
  CASE v.word \in {"uptime", "up"} -> "uptime"
    [] v.word \in {"swap", "load"} -> v.word
    [] OTHER -> "none"

IpModeOf(v) ==
  CASE v.num = 6 \/ v.word \in {"v6", "ipv6"} -> "V6"
    [] v.word \in {"auto", "any", "both"} -> "Auto"
    [] OTHER -> "V4"

Clamp(n, low, high) == IF n < low THEN low ELSE IF n > high THEN high ELSE n

\* What a rule makes of a value that is there.  A number too wide for its type
\* does not parse.
Convert(rule, v) ==
  CASE rule.kind = "colour" -> IF v.word \in Colours THEN v.word ELSE rule.default
    [] rule.kind = "flag" -> AsBool(v, rule.absent)
    [] rule.kind = "number" ->
         IF v.num = -1 /\ v.word \in rule.zero THEN 0
         ELSE IF v.num \in 0 .. rule.type THEN Clamp(v.num, rule.low, rule.high)
         ELSE rule.default
    [] rule.kind = "text" -> IF v = Word("") THEN rule.default ELSE v
    [] rule.kind = "choice" -> IF v.word \in rule.of THEN v.word ELSE rule.default
    [] rule.kind = "field" -> SecId(v)
    [] rule.kind = "filter" -> IF v \in {Word(""), Word("*")} THEN rule.default ELSE v
    [] rule.kind = "test" -> (v.num = 0 /\ rule.zero) \/ v.word \in rule.of

-----------------------------------------------------------------------------
(* The keys of each section: the spelling that goes before the other, the  *)
(* default without the section, and, for a flag, the default within it.    *)

Colour(key, alias, d) ==
  [key |-> key, alias |-> alias, kind |-> "colour", default |-> d, absent |-> d]
Flag(key, d, a) == [key |-> key, alias |-> key, kind |-> "flag", default |-> d, absent |-> a]
Num(key, alias, d, type, zero, low, high) ==
  [key |-> key, alias |-> alias, kind |-> "number", default |-> d, absent |-> d,
   type |-> type, zero |-> zero, low |-> low, high |-> high]
Text(key, alias, kind, d) ==
  [key |-> key, alias |-> alias, kind |-> kind, default |-> d, absent |-> d]
Among(key, alias, kind, of, zero, d) ==
  [key |-> key, alias |-> alias, kind |-> kind, default |-> d, absent |-> d,
   of |-> of, zero |-> zero]

U8 == 255
U16 == 65535
F32 == 16777216   \* the whole numbers an f32 holds exactly

Behavior ==
  [in_terminal |-> Among("startup_mode", "start_in_status", "test",
                         {"terminal", "console", "tty", "false", "no", "off"}, TRUE, FALSE),
   opens |-> Flag("keyboard_opens_terminal", FALSE, FALSE),
   fps |-> Num("fps", "fps", 10, F32, {}, 1, F32),
   layout |-> Among("keyboard_layout", "keyboard_layout", "choice", {"us", "pl", "de"}, FALSE,
                    "us"),
   devices |-> Text("keyboard_devices", "keyboard_device", "text", Word(""))]

Globals ==
  [label_c |-> Colour("label_color", "label_color", "888888"),
   bg_c |-> Colour("background_color", "background", "000000")]

PageHeader ==
  [host_c |-> Colour("hostname_color", "hostname_color", "ffffff"),
   date_c |-> Colour("date_color", "date_color", "888888"),
   time_c |-> Colour("time_color", "time_color", "ffffff"),
   date_format |-> Text("date_format", "date_format", "text", Word("%d-%m-%Y")),
   time_format |-> Text("time_format", "time_format", "text", Word("%H:%M:%S"))]

Secondary ==
  [sec_left |-> Text("left", "left", "field", "none"),
   sec_right |-> Text("right", "right", "field", "none"),
   sec_left_c |-> Colour("left_color", "left_color", "ffffff"),
   sec_right_c |-> Colour("right_color", "right_color", "ffffff")]

Hero ==
  [meter_mode |-> Flag("meter_mode", TRUE, TRUE),
   hero_cpu_c |-> Colour("cpu_color", "cpu", "ffffff"),
   hero_mem_c |-> Colour("mem_color", "mem", "ffffff"),
   hero_disk_c |-> Colour("disk_color", "disk", "ffffff"),
   level_ok |-> Colour("level_ok_color", "level_ok", "33aa33"),
   level_warn |-> Colour("level_warn_color", "level_warn", "cccc33"),
   level_crit |-> Colour("level_crit_color", "level_crit", "cc3333"),
   warn_at |-> Num("warn_at", "warn_at", 60, U8, {}, 0, U8),
   crit_at |-> Num("crit_at", "crit_at", 90, U8, {}, 0, U8),
   disk_mount |-> Text("disk_mount", "disk_mount", "text", Word("/"))]

Services ==
  [services_filter |-> Text("filter", "filter", "filter", Word("all")),
   svc_active |-> Colour("active_color", "active", "33aa33"),
   svc_failed |-> Colour("failed_color", "failed", "cc3333"),
   svc_inactive |-> Colour("inactive_color", "inactive", "888888"),
   svc_activating |-> Colour("activating_color", "activating", "3399cc"),
   svc_reloading |-> Colour("reloading_color", "reloading", "3399cc"),
   svc_deactivating |-> Colour("deactivating_color", "deactivating", "ccaa33"),
   svc_maintenance |-> Colour("maintenance_color", "maintenance", "888888")]

Alerts ==
  [cpu_crit |-> Flag("cpu_crit", FALSE, TRUE),
   mem_crit |-> Flag("mem_crit", FALSE, TRUE),
   disk_crit |-> Flag("disk_crit", FALSE, TRUE),
   temp_crit |-> Flag("temp_crit", FALSE, TRUE),
   service_failed |-> Flag("service_failed", FALSE, TRUE),
   service_inactive |-> Flag("service_inactive", FALSE, FALSE),
   enabled |-> Flag("enabled", TRUE, TRUE),
   alert_bg_c |-> Colour("background_color", "background_color", "990000"),
   alert_fg_c |-> Colour("text_color", "text_color", "ffffff"),
   hold_sec |-> Num("hold_sec", "hold_sec", 0, U8, {}, 0, U8),
   temp_crit_c |-> Num("temp_crit_c", "temp_crit_c", 80, U8, {}, 0, U8)]

AlertSources == {"cpu_crit", "mem_crit", "disk_crit", "temp_crit", "service_failed",
                 "service_inactive"}

Display ==
  [bright |-> Num("brightness", "default_brightness", 4, U8, {"auto"}, 0, 100),
   bright_auto |-> Among("brightness", "default_brightness", "test", {"auto"}, FALSE, FALSE),
   auto_bright |-> Flag("auto_brightness", FALSE, FALSE),
   sleep |-> Num("sleep_timeout", "sleep_timeout_sec", 4, U16, {"", "never"}, 0, U16),
   dismiss_on_tap |-> Flag("dismiss_alert_on_tap", TRUE, TRUE),
   wake_on_alert |-> Flag("wake_on_alert", TRUE, TRUE),
   auto_day |-> Num("auto_day_level", "auto_day_pct", 5, U8, {}, 0, 100),
   auto_night |-> Num("auto_night_level", "auto_night_pct", 2, U8, {}, 0, 100),
   auto_day_hour |-> Num("auto_day_hour", "auto_day_hour", 7, U8, {}, 0, 23),
   auto_night_hour |-> Num("auto_night_hour", "auto_night_hour", 21, U8, {}, 0, 23)]

-----------------------------------------------------------------------------
(* parse_status_config_from_str                                            *)

\* What a section that is there says of a setting: get(key).or_else(get(alias)).
Setting(text, s, rule) ==
  IF rule.key \in Keys(text, s) THEN Convert(rule, Get(text, s, rule.key))
  ELSE IF rule.alias \in Keys(text, s) THEN Convert(rule, Get(text, s, rule.alias))
  ELSE rule.absent

\* One section's rules.
Read(text, s, rules) ==
  IF HasSection(text, s) THEN [k \in DOMAIN rules |-> Setting(text, s, rules[k])]
                         ELSE [k \in DOMAIN rules |-> rules[k].default]

\* warn_at above crit_at: the two change places.
ReadHero(text) ==
  LET h == Read(text, "hero", Hero) IN
    IF h.warn_at > h.crit_at THEN [h EXCEPT !.warn_at = h.crit_at, !.crit_at = h.warn_at] ELSE h

\* alert_mask: the sources that count, none of them when enabled is false.
ReadAlerts(text) ==
  LET a == Read(text, "alerts", Alerts) IN
    [mask |-> {s \in AlertSources : a.enabled /\ a[s]}, alert_bg_c |-> a.alert_bg_c,
     alert_fg_c |-> a.alert_fg_c, hold_sec |-> a.hold_sec, temp_crit_c |-> a.temp_crit_c]

\* [display], or else the [osd] of older files.
DisplaySection(text) == IF HasSection(text, "display") THEN "display" ELSE "osd"

ReadDisplay(text) ==
  LET d == Read(text, DisplaySection(text), Display) IN
    [bright |-> d.bright, sleep |-> d.sleep, auto |-> d.bright_auto \/ d.auto_bright,
     others |-> [k \in {"dismiss_on_tap", "wake_on_alert", "auto_day", "auto_night",
                        "auto_day_hour", "auto_night_hour"} |-> d[k]]]

ReadInterfaces(text) ==
  {<<k, IpModeOf(Get(text, "interfaces", k))>> : k \in Keys(text, "interfaces")}

\* With apply_daemon_behavior_fallback: the host file's legacy keys count when
\* there is no [behavior].
Load(text, host) ==
  [behavior |-> LET b == Read(text, "behavior", Behavior) IN
                  IF HasSection(text, "behavior") THEN b ELSE Over(host, b),
   globals |-> Read(text, "globals", Globals),
   header |-> Read(text, "header", PageHeader),
   hero |-> ReadHero(text),
   secondary |-> Read(text, "secondary", Secondary),
   interfaces |-> ReadInterfaces(text),
   services |-> Read(text, "services", Services),
   alerts |-> ReadAlerts(text),
   display |-> ReadDisplay(text)]

-----------------------------------------------------------------------------
(* apply_osd_levels on the configuration, write_osd_levels on the text     *)

ApplyLevels(cfg, b, s) ==
  [cfg EXCEPT !.display.bright = b, !.display.sleep = s, !.display.auto = (b = 0)]

LevelText(n, zero) == IF n = 0 THEN Word(zero) ELSE Number(n)
Levels2(b, s) ==
  [brightness |-> LevelText(b, "auto"), sleep_timeout |-> LevelText(s, "never")]

DisplayNames == {"display", "osd"}
LevelKeys == {"brightness", "default_brightness", "sleep_timeout", "sleep_timeout_sec",
              "auto_brightness"}
Without(keys, drop) == [k \in DOMAIN keys \ drop |-> keys[k]]

\* Mutant of WriteLevels: only a [display] is looked for.
WriteLevelsNewName(text, b, s) ==
  LET ours == {n \in DOMAIN text : text[n].sec = "display"}
      first == CHOOSE n \in ours : \A m \in ours : n <= m
  IN [n \in DOMAIN text |->
        IF n \notin ours THEN text[n]
        ELSE Block("display", IF n = first THEN Over(Levels2(b, s), Without(text[n].keys, LevelKeys))
                                           ELSE Without(text[n].keys, LevelKeys))]
     \o (IF ours = {} THEN <<Block("display", Levels2(b, s))>> ELSE <<>>)

\* Every display section, under either name, loses its levels and takes the
\* newer name; the first gets the new levels, at the latest where it ends.  A
\* file without one gets one.
WriteLevels(text, b, s) ==
  LET ours == {n \in DOMAIN text : text[n].sec \in DisplayNames}
      first == CHOOSE n \in ours : \A m \in ours : n <= m
  IN [n \in DOMAIN text |->
        IF n \notin ours THEN text[n]
        ELSE Block("display", IF n = first THEN Over(Levels2(b, s), Without(text[n].keys, LevelKeys))
                                           ELSE Without(text[n].keys, LevelKeys))]
     \o (IF ours = {} THEN <<Block("display", Levels2(b, s))>> ELSE <<>>)
=============================================================================
