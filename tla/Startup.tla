------------------------------ MODULE Startup -------------------------------
(***************************************************************************)
(* How the agent comes to its rules (config.go, program.go): LoadConfig    *)
(* reads the main file and the rule files one by one, in the order of      *)
(* their names, drops what it cannot use and goes on, and InternalRun ends *)
(* the process or starts the files crawler with the rules that are left.   *)
(* FileRules is the crawler: what it sends shows what was loaded.          *)
(*                                                                         *)
(* A rule file is a record of what the code tells apart; Bad stands for a  *)
(* regular expression that does not compile.                               *)
(***************************************************************************)
EXTENDS FileRules, Integers

CONSTANTS Bad,
          Configs,     \* the configuration directories there may be
          Timeouts     \* what the option -timeout may be

ASSUME StartupAssumption ==
    /\ Timeouts \subseteq Int
    /\ \A c \in Configs :
           /\ DOMAIN c = {"mainOk", "dirOk", "allRules", "listed", "files"}
           /\ c.files \in Seq(ToSet(c.files))
           /\ \A f \in ToSet(c.files) :
                  /\ DOMAIN f = {"name", "yamlOk", "deadtimeOk", "excludeFiles",
                                 "source", "paths", "events"}
                  /\ f.paths \in Seq(SUBSET File)
                  /\ f.events \in Seq(ToSet(f.events))
                  /\ \A e \in ToSet(f.events) :
                         /\ DOMAIN e = {"sid", "kinds", "regexOk", "exclude"}
                         /\ e.sid \in Nat

VARIABLES config,      \* the directory: the main file, and the files of rules.d
          timeout,     \* the option, in seconds
          ruleFiles,   \* those still to be loaded
          err,         \* the error that LoadConfig will return
          loaded       \* InputConfig.RuleConfigs, with the Source of each

loadVars == <<ruleFiles, err, loaded>>
inputVars == <<config, timeout>>
vars == <<crawlVars, inputVars, loadVars>>

\* Type correctness.
TypeOK == /\ CrawlTypeOK
          /\ pc \in {"main", "load", "assign", "read", "send", "idle", "exited"}
          /\ config \in Configs
          /\ timeout \in Timeouts
          /\ IsSuffix(ruleFiles, config.files)
          /\ err \in BOOLEAN
          /\ Len(loaded) <= Len(config.files) - Len(ruleFiles)
          /\ \A i \in DOMAIN loaded : Len(loaded[i].rule.events) > 0

Init == /\ CrawlInit
        /\ config \in Configs
        /\ timeout \in Timeouts
        /\ pc = "main"
        /\ ruleFiles = <<>>
        /\ err = FALSE
        /\ loaded = <<>>

-----------------------------------------------------------------------------
(* LoadConfig.                                                             *)

\* The main file and the names of the rule files.  No rule files is no error.
LoadMain == /\ pc = "main"
            /\ err' = ~(config.mainOk /\ config.dirOk)
            /\ ruleFiles' = IF err' THEN <<>> ELSE config.files
            /\ pc' = "load"
            /\ UNCHANGED <<inputVars, loaded, rules, todo, assigned, file, lines, events>>

Enabled(f) == config.allRules \/ f.name \in config.listed

Compiled(event) == [sid |-> event.sid, kinds |-> event.kinds,
                    excludedIps |-> UNION (event.exclude \ {Bad})]

\* The events whose expression compiles.  An expression of their exclude filter
\* that does not is left out of the filter.
EventsOf(f) ==
    LET Good == Keep(f.events, {e \in ToSet(f.events) : e.regexOk})
    IN  IF Enabled(f) THEN [i \in 1 .. Len(Good) |-> Compiled(Good[i])] ELSE <<>>

RuleOf(f) == [name |-> f.name, paths |-> f.paths, excluded |-> f.excludeFiles,
              events |-> EventsOf(f)]

Usable(f) == f.yamlOk /\ f.deadtimeOk /\ f.excludeFiles # Bad /\ EventsOf(f) # <<>>

LoadRule_ErrStays ==
    /\ pc = "load"
    /\ ruleFiles # <<>>
    /\ LET f == Head(ruleFiles)
       IN  /\ err' = (err \/ (f.yamlOk /\ ~f.deadtimeOk))
           /\ loaded' = IF Usable(f)
                        THEN Append(loaded, [source |-> f.source, rule |-> RuleOf(f)])
                        ELSE loaded
    /\ ruleFiles' = Tail(ruleFiles)
    /\ UNCHANGED <<crawlVars, inputVars>>

\* A deadtime sets the error of the result, or clears it: only the expressions
\* have an error variable of their own.
LoadRule == /\ pc = "load"
            /\ ruleFiles # <<>>
            /\ LET f == Head(ruleFiles)
               IN  /\ err' = IF f.yamlOk THEN ~f.deadtimeOk ELSE err
                   /\ loaded' = IF Usable(f)
                                THEN Append(loaded, [source |-> f.source, rule |-> RuleOf(f)])
                                ELSE loaded
            /\ ruleFiles' = Tail(ruleFiles)
            /\ UNCHANGED <<crawlVars, inputVars>>

-----------------------------------------------------------------------------
(* InternalRun.                                                            *)

Loaded == pc = "load" /\ ruleFiles = <<>>

Exit == /\ Loaded
        /\ err \/ loaded = <<>>
        /\ pc' = "exited"
        /\ UNCHANGED <<inputVars, loadVars, rules, todo, assigned, file, lines, events>>

FileRulesOf(ls) == LET Files == Keep(ls, {l \in ToSet(ls) : l.source # "wineventlog"})
                   IN  [i \in 1 .. Len(Files) |-> Files[i].rule]

\* Rules for Windows event logs alone leave the files crawler out.
Run == /\ Loaded
       /\ ~err /\ loaded # <<>>
       /\ rules' = FileRulesOf(loaded)
       /\ todo' = AllPaths(rules')
       /\ pc' = IF rules' = <<>> THEN "idle" ELSE "assign"
       /\ UNCHANGED <<inputVars, loadVars, assigned, file, lines, events>>

Crawl == CrawlNext /\ UNCHANGED <<inputVars, loadVars>>

\* An option that is not positive leaves the timeout of the queue 0, and the
\* ticker that the queue makes of it ends the process.
IdleTimeout == IF timeout > 0 THEN timeout ELSE 0
TickerPanics == /\ pc \in {"assign", "read", "send", "idle"}
                /\ IdleTimeout = 0
                /\ pc' = "exited"
                /\ UNCHANGED <<inputVars, loadVars, rules, todo, assigned, file, lines, events>>

\* The process has ended, or has no files crawler.
NoCrawler == pc \in {"exited", "idle"} /\ UNCHANGED vars

Next == LoadMain \/ LoadRule \/ Exit \/ Run \/ TickerPanics \/ Crawl \/ NoCrawler

Spec == Init /\ [][Next]_vars

-----------------------------------------------------------------------------
(* Properties.                                                             *)

\* The rule files that count, as their owner sees them: they can be read, are
\* enabled, and have a deadtime, file exclusion and event that can be used.
Counts(f) == /\ f.yamlOk /\ f.deadtimeOk /\ f.excludeFiles # Bad
             /\ config.allRules \/ f.name \in config.listed
             /\ \E i \in DOMAIN f.events : f.events[i].regexOk

\* The event of a line, by a rule file that is meant for the file.
Declared(f, e, l) ==
    /\ Counts(f) /\ f.source # "wineventlog"
    /\ file \notin f.excludeFiles /\ \E i \in DOMAIN f.paths : file \in f.paths[i]
    /\ e.regexOk /\ l.kind \in e.kinds /\ l.time # BadTime
    /\ \A x \in e.exclude \ {Bad} : l.ip \notin x

\* What is sent is exactly what the configuration asks for: for each line and
\* each event of a rule file that counts for the file there is its event, there
\* is none besides, and no two are the same.  One bad file or event costs no other.
SentIsWhatMatches ==
    pc = "send" =>
        /\ ToSet(events) =
              UNION {{[sid |-> e.sid, ip |-> l.ip, time |-> l.time] :
                         e \in {x \in ToSet(f.events) : Declared(f, x, l)}} :
                     f \in ToSet(config.files), l \in ToSet(lines)}
        /\ IsInjective(events)

\* The agent ends exactly when a directory or the main file cannot be read, no
\* rule file counts, or the deadtime of the last one that can be read is wrong:
\* the error of the others is forgotten.  Besides, a timeout that is not
\* positive ends it once it runs.
IsLastReadable(i) == /\ config.files[i].yamlOk
                     /\ \A j \in i + 1 .. Len(config.files) : ~config.files[j].yamlOk
ExitHasCause ==
    LET MayRun == /\ config.mainOk /\ config.dirOk
                  /\ \E i \in DOMAIN config.files : Counts(config.files[i])
                  /\ \A i \in DOMAIN config.files :
                        IsLastReadable(i) => config.files[i].deadtimeOk
    IN  /\ pc = "exited" => ~MayRun \/ timeout <= 0
        /\ pc \in {"assign", "read", "send", "idle"} => MayRun
=============================================================================
