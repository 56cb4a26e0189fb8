-------------------------------- MODULE MCParts --------------------------------
(***************************************************************************)
(* Five parts of the system that share no state, side by side: a behaviour *)
(* is one of the configuration file, of the choice of a board, of the      *)
(* metrics, of the keyboards with the struct's operations in any order, or *)
(* of the panel's frame parser, while the others stand still.              *)
(***************************************************************************)
EXTENDS ConfigFile, MCDiscover, Metrics, Keyboard, FrameRx

VARIABLE part

\* A level in percent, with a key's older spelling; and the older name of the
\* section, twice, with legacy levels.  A file may also be missing or empty.
MCFiles ==
  { << Block("display", [brightness |-> Number(80), dismiss_alert_on_tap |-> Word("no")]),
       Block("hero", [warn_at |-> Number(95), cpu |-> Word("336699")]),
       Block("interfaces", [eth0 |-> Number(6), eth1 |-> Word("auto")]),
       Block("alerts", [enabled |-> Word("no")]) >>,
    << Block("behavior", [startup_mode |-> Word("tty"), brightness |-> Number(2)]),
       Block("osd", [default_brightness |-> Number(2), auto_brightness |-> Word("yes"),
                     sleep_timeout_sec |-> Number(60)]),
       Block("osd", [sleep_timeout |-> Number(1), auto_day_hour |-> Number(30)]) >> }
MCEdits ==
  { << Block("display", [brightness |-> Word("auto"), sleep_timeout |-> Number(3)]),
       Block("display", [wake_on_alert |-> Word("off")]) >> }
MCHost == [in_terminal |-> FALSE, opens |-> FALSE, fps |-> 10]

MCUnits == <<"cron", "nginx", "ssh">>
\* Without a filter, with templates first and last, and with another mode.
MCConfigs ==
  { [shown |-> TRUE, mode |-> "V4", filter |-> NoFilter],
    [shown |-> TRUE, mode |-> "Auto", filter |-> <<"@", "ssh", "cron">>],
    [shown |-> FALSE, mode |-> "V6", filter |-> <<"nginx", "cron", "@">>] }

\* A plain frame, and frames in which magic bytes occur but never the magic:
\* a seq of 0xAA, a payload that begins like the magic, a CRC that does.
MCContents ==
  { <<1, 2, 3, 0, 7, 7, 7, 8, 9>>,
    <<170, 2, 3, 0, 170, 85, 165, 170, 85>>,
    <<85, 165, 90, 0, 170, 170, 85, 165, 170>> }

CfgRests == CfgInit /\ file = NoFile /\ inPlace = FALSE
DevRests == DevInit /\ settings = (CHOOSE s \in Saved : TRUE) /\ board = (CHOOSE b \in Boards : TRUE)
MetRests == MetInit /\ wanted = (CHOOSE c \in Configs : TRUE)
KbRests == KbInit /\ node = [k \in Kb |-> "absent"]
RxRests == Init /\ content = (CHOOSE c \in Contents : TRUE)

PartsInit ==
  \/ part = "config" /\ CfgInit /\ DevRests /\ MetRests /\ KbRests /\ RxRests
  \/ part = "devices" /\ DevInit /\ CfgRests /\ MetRests /\ KbRests /\ RxRests
  \/ part = "metrics" /\ MetInit /\ CfgRests /\ DevRests /\ KbRests /\ RxRests
  \/ part = "keyboards" /\ KbInit /\ CfgRests /\ DevRests /\ MetRests /\ RxRests
  \/ part = "frames" /\ Init /\ CfgRests /\ DevRests /\ MetRests /\ KbRests

PartsNext ==
  /\ part' = part
  /\ \/ part = "config" /\ CfgNext /\ UNCHANGED <<devicesVars, metricsVars, kbVars, vars>>
     \/ part = "devices" /\ DevNext /\ UNCHANGED <<cfgVars, metricsVars, kbVars, vars>>
     \/ part = "metrics" /\ MetNext /\ UNCHANGED <<cfgVars, devicesVars, kbVars, vars>>
     \/ part = "keyboards" /\ KbNext /\ UNCHANGED <<cfgVars, devicesVars, metricsVars, vars>>
     \/ part = "frames" /\ Next /\ UNCHANGED <<cfgVars, devicesVars, metricsVars, kbVars>>

PartsSpec ==
  /\ PartsInit /\ [][PartsNext]_<<part, cfgVars, devicesVars, metricsVars, kbVars, vars>>
  /\ DevFairness

\* Every variable keeps its type; those of the keyboards are in Session's TypeOK.
PartsTypeOK == CfgTypeOK /\ DevTypeOK /\ MetTypeOK /\ TypeOK
=============================================================================
