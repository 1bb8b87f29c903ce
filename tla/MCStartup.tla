----------------------------- MODULE MCStartup ------------------------------
(***************************************************************************)
(* A small instance of Startup: two files, and two rule files whose paths  *)
(* match one of the files, both, or one of them twice.  The filters share  *)
(* kinds and a sid, within a rule and between the two; the lines differ in *)
(* what the filters and the comparison of events tell apart.  The          *)
(* directories differ in what a rule file may do wrong, one thing at a     *)
(* time, and in the rules that are enabled.                                *)
(***************************************************************************)
EXTENDS Startup

MCFile == {"auth", "syslog"}

MCBad == {"bad"}     \* of the type of the expressions

Ev(sid, kinds, regexOk, exclude) ==
    [sid |-> sid, kinds |-> kinds, regexOk |-> regexOk, exclude |-> exclude]

Custom == [name |-> "custom", yamlOk |-> TRUE, deadtimeOk |-> TRUE, excludeFiles |-> {},
           source |-> "file", paths |-> <<{"syslog"}, {"syslog"}>>,
           events |-> <<Ev(1, {"scan"}, TRUE, {}), Ev(3, {"scan"}, TRUE, {{"home"}})>>]

Sshd == [name |-> "sshd", yamlOk |-> TRUE, deadtimeOk |-> TRUE, excludeFiles |-> {},
         source |-> "file", paths |-> <<{"auth"}, {"auth", "syslog"}>>,
         events |-> <<Ev(1, {"login"}, TRUE, {{"home"}, MCBad}),
                      Ev(2, {"login", "scan"}, TRUE, {})>>]

Wrong(f) == {[f EXCEPT !.yamlOk = FALSE],
             [f EXCEPT !.deadtimeOk = FALSE],
             [f EXCEPT !.excludeFiles = MCBad],
             [f EXCEPT !.events[2].regexOk = FALSE]}

Other(f) == {f,
             [f EXCEPT !.excludeFiles = {"syslog"}],
             [f EXCEPT !.paths = <<{"auth"}>>],
             [f EXCEPT !.source = "wineventlog"]}

Directories == {<<>>, <<Custom>>}
               \cup {<<c, s>> : c \in Wrong(Custom) \cup Other(Custom),
                                s \in Wrong(Sshd) \cup Other(Sshd)}

Config(d, all, listed) ==
    [mainOk |-> TRUE, dirOk |-> TRUE, allRules |-> all, listed |-> listed, files |-> d]

Good == <<Custom, Sshd>>

MCConfigs == {Config(d, TRUE, {}) : d \in Directories}
             \cup {Config(Good, FALSE, l) : l \in SUBSET {"custom", "sshd"}}
             \cup {[Config(Good, TRUE, {}) EXCEPT !.mainOk = FALSE],
                   [Config(Good, TRUE, {}) EXCEPT !.dirOk = FALSE]}

At(kind, ip, time) == [kind |-> kind, ip |-> ip, time |-> time]

MCLine == {At("login", "away", 1), At("login", "home", 1), At("scan", "away", 1),
           At("scan", "away", 2), At("scan", "home", 0)}
=============================================================================
