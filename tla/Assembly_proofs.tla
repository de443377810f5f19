------------------------------ MODULE Assembly_proofs ------------------------------
(***************************************************************************)
(* Theorems about the assembly of outputs, for every bootstrap             *)
(* configuration and every configuration: what Validate and Resolve        *)
(* promise the rest of the program, and that no two outputs are one file.  *)
(***************************************************************************)
EXTENDS Assembly, Library_proofs

\* filepath.Clean of an absolute path leaves the directory one ends in who walks the
\* path as it is written.
LEMMA WalkIsClean ==
    ASSUME NEW p \in Seq(Text)
    PROVE  Walk(p) = CleanAbs(p)
<1> DEFINE K == Kept("root", p)
           Rec(f) == f = [n \in 0..Len(p) |-> IF n = 0 THEN <<>> ELSE WalkStep(f[n - 1], p[n])]
           T == {n \in Nat : n <= Len(p) => \A i \in 1..Len(K[n]) : K[n][i] # ".."}
<1>a. Len(p) \in Nat
  OBVIOUS
<1>b. ASSUME NEW n \in Nat, n + 1 <= Len(p)
      PROVE  K[n] \in Seq(Text) /\ p[n + 1] \in Text /\ K[n + 1] = CleanStep("root", K[n], p[n + 1])
  <2>1. n \in 0..Len(p) /\ n + 1 \in 1..Len(p) /\ n + 1 - 1 = n
    BY <1>a, <1>b
  <2> QED
    BY <2>1, KeptType, KeptDef
<1>1. 0 \in T
  BY KeptDef
<1>2. ASSUME NEW n \in Nat, n \in T PROVE n + 1 \in T
  <2> SUFFICES ASSUME n + 1 <= Len(p) PROVE \A i \in 1..Len(K[n + 1]) : K[n + 1][i] # ".."
    OBVIOUS
  <2>1. \A i \in 1..Len(K[n]) : K[n][i] # ".."
    BY <1>2, <1>a
  <2> DEFINE k == K[n]
             k2 == K[n + 1]
             part == p[n + 1]
  <2>2. k \in Seq(Text) /\ part \in Text /\ k2 = CleanStep("root", k, part)
    BY <1>b
  <2> HIDE DEF k, k2, part, K
  <2>3. CASE k2 = k
    BY <2>1, <2>3 DEF k, k2
  <2>4. CASE k2 = Append(k, part) /\ part # ".."
    <3>1. /\ Len(k2) = Len(k) + 1 /\ k2[Len(k) + 1] = part /\ \A i \in 1..Len(k) : k2[i] = k[i]
          /\ Len(k) \in Nat
      BY <2>2, <2>4
    <3> QED
      BY <2>1, <2>2, <2>4, <3>1 DEF k, k2
  <2>5. CASE k2 = Front(k) /\ k # <<>>
    <3>1. /\ Len(k2) = Len(k) - 1 /\ Len(k) \in Nat
          /\ \A i \in 1..(Len(k) - 1) : k2[i] = k[i]
      BY <2>2, <2>5, FrontFacts
    <3> QED
      BY <2>1, <3>1 DEF k, k2
  <2>6. k2 = k \/ (k2 = Append(k, part) /\ part # "..") \/ (k2 = Front(k) /\ k # <<>>)
    BY <2>2 DEF CleanStep
  <2> QED
    BY <2>3, <2>4, <2>5, <2>6
<1> HIDE DEF T
<1>3. ASSUME NEW n \in 0..Len(p) PROVE \A i \in 1..Len(K[n]) : K[n][i] # ".."
  <2>1. n \in T
    BY <1>1, <1>2, <1>a, NaturalInduction
  <2> QED
    BY <2>1, <1>a DEF T
<1>4. ASSUME NEW n \in Nat, n + 1 <= Len(p)
      PROVE  CleanStep("root", K[n], p[n + 1]) = WalkStep(K[n], p[n + 1])
  <2>1. K[n] # <<>> => Last(K[n]) # ".."
    <3>1. n \in 0..Len(p)
      BY <1>a, <1>4
    <3>2. K[n] # <<>> => Len(K[n]) \in 1..Len(K[n])
      BY <1>b, <1>4, FrontFacts
    <3> QED
      BY <1>3, <3>1, <3>2 DEF Last
  <2> HIDE DEF K
  <2> QED
    BY <2>1 DEF CleanStep, WalkStep
<1>5. Rec(K)
  <2>1. K = [n \in 0..Len(p) |-> IF n = 0 THEN <<>> ELSE CleanStep("root", K[n - 1], p[n])]
    BY KeptIsRecursive
  <2>2. ASSUME NEW n \in 0..Len(p) PROVE K[n] = IF n = 0 THEN <<>> ELSE WalkStep(K[n - 1], p[n])
    <3>1. CASE n = 0
      BY <2>1, <3>1
    <3>2. CASE n # 0
      <4>1. n - 1 \in Nat /\ n - 1 + 1 = n /\ n - 1 + 1 <= Len(p)
        BY <1>a, <3>2
      <4> QED
        BY <1>b, <1>4, <3>2, <4>1
    <3> QED
      BY <3>1, <3>2
  <2> HIDE DEF K
  <2> QED
    BY <2>1, <2>2
<1>6. Rec(Walked(p))
  <2> HIDE DEF K
  <2>1. \E f : Rec(f)
    BY <1>5
  <2> QED
    BY <2>1 DEF Walked
<1> DEFINE U == {n \in Nat : n <= Len(p) => Walked(p)[n] = K[n]}
<1> HIDE DEF K
<1>7. 0 \in U
  BY <1>a, <1>5, <1>6
<1>8. ASSUME NEW n \in Nat, n \in U PROVE n + 1 \in U
  <2> SUFFICES ASSUME n + 1 <= Len(p) PROVE Walked(p)[n + 1] = K[n + 1]
    OBVIOUS
  <2>1. n + 1 \in 0..Len(p) /\ n + 1 # 0 /\ n + 1 - 1 = n
    BY <1>a
  <2>2. Walked(p)[n + 1] = WalkStep(Walked(p)[n], p[n + 1]) /\ K[n + 1] = WalkStep(K[n], p[n + 1])
    BY <2>1, <1>5, <1>6
  <2>3. Walked(p)[n] = K[n]
    BY <1>8, <1>a
  <2> QED
    BY <2>2, <2>3
<1> HIDE DEF U
<1>9. Len(p) \in U
  BY <1>7, <1>8, <1>a, NaturalInduction
<1> QED
  BY <1>9, <1>a DEF U, K, Walk, CleanAbs

-----------------------------------------------------------------------------

\* What Validate and Resolve have let through stays so: nothing changes it.
SettingsInv ==
    /\ config \in Configs
    /\ boot \in Bootstraps
    /\ pc \notin {"boot", "refused"} =>
         /\ ValidateBootstrap(boot)
         /\ \A i \in DOMAIN boot.source :
              /\ boot.source[i].type = "github" => boot.source[i].poll_interval # 0
              /\ boot.source[i].dir = <<>> \/ IsAbs(boot.source[i].dir)
    /\ pc \notin {"boot", "load", "refused"} => LoadConfig(config)
    /\ pc \notin {"boot", "load", "refused", "resolve", "failed"} => Resolves(boot, config)

\* The strings the defaults of bootstrap.go are made of are texts.
LEMMA Literals ==
    /\ "" \in Text /\ "main" \in Text
    /\ <<"">> \in Seq(Text) /\ <<"snapshots">> \in Seq(Text) /\ <<"out">> \in Seq(Text)
    /\ <<"127.0.0.1", "8788">> \in Seq(Text)
<1>1. /\ "" \in Text /\ "main" \in Text /\ "snapshots" \in Text /\ "out" \in Text
      /\ "127.0.0.1" \in Text /\ "8788" \in Text
  BY TextAssumption, Zenon
<1>2. \A a, b \in Text : <<a>> \in Seq(Text) /\ <<a, b>> \in Seq(Text)
  OBVIOUS
<1> QED
  BY <1>1, <1>2, Zenon

\* What applyDefaults makes of a source is a source, polls the API if it is a GitHub
\* one, and names its directory by an absolute path.
LEMMA SourceDefaults ==
    ASSUME NEW s \in Sources
    PROVE  /\ sourceDefaults(s) \in Sources
           /\ sourceDefaults(s).type = "github" => sourceDefaults(s).poll_interval # 0
           /\ sourceDefaults(s).dir = <<>> \/ IsAbs(sourceDefaults(s).dir)
<1> DEFINE cleaned == CleanAbs(BootDir \o s.dir)
<1>1. cleaned \in Seq(Text)
  <2>1. BootDir \o s.dir \in Seq(Text) /\ Len(BootDir \o s.dir) \in 0..Len(BootDir \o s.dir)
    BY BootstrapAssumption DEF Sources
  <2> QED
    BY <2>1, KeptType DEF CleanAbs
<1>2. <<"">> \o cleaned \in Seq(Text) /\ IsAbs(<<"">> \o cleaned)
  <2> DEFINE d == <<"">> \o cleaned
  <2> HIDE DEF cleaned
  <2>1. d \in Seq(Text) /\ d # <<>> /\ Head(d) = ""
    BY <1>1, Literals, Prefixed
  <2> HIDE DEF d
  <2>2. IsAbs(d)
    BY <2>1 DEF IsAbs
  <2> QED
    BY <2>1, <2>2 DEF d
<1> DEFINE dir      == IF s.dir = <<>> \/ IsAbs(s.dir) THEN s.dir ELSE <<"">> \o cleaned
           interval == IF s.poll_interval = 0 /\ s.type = "github" THEN DefaultPollInterval
                                                                   ELSE s.poll_interval
           branch   == IF s.branch = "" THEN "main" ELSE s.branch
<1>3. /\ s.type \in Text /\ s.branch \in Text /\ s.repo \in Seq(Text) /\ s.token_env \in Text
      /\ s.dir \in Seq(Text) /\ s.poll_interval \in Int
  BY DEF Sources
<1>4. sourceDefaults(s) = [s EXCEPT !.branch = branch, !.poll_interval = interval, !.dir = dir]
  BY DEF sourceDefaults
<1>5. dir \in Seq(Text) /\ (dir = <<>> \/ IsAbs(dir))
  <2> HIDE DEF cleaned
  <2>1. CASE s.dir = <<>> \/ IsAbs(s.dir)
    BY <1>3, <2>1
  <2>2. CASE ~(s.dir = <<>> \/ IsAbs(s.dir))
    BY <1>2, <2>2
  <2> QED
    BY <2>1, <2>2
<1>6. interval \in Int /\ (s.type = "github" => interval # 0)
  BY <1>3, BootstrapAssumption
<1>7. branch \in Text
  BY <1>3, Literals
<1> HIDE DEF dir, interval, branch
<1>8. sourceDefaults(s) \in Sources
  BY <1>4, <1>5, <1>6, <1>7 DEF Sources
<1>9. /\ sourceDefaults(s).type = s.type /\ sourceDefaults(s).poll_interval = interval
      /\ sourceDefaults(s).dir = dir
  BY <1>4 DEF Sources
<1> QED
  BY <1>5, <1>6, <1>8, <1>9

\* The same of the whole of a bootstrap configuration.
LEMMA BootDefaults ==
    ASSUME NEW b \in Bootstraps
    PROVE  /\ applyDefaults(b) \in Bootstraps
           /\ \A i \in DOMAIN applyDefaults(b).source :
                /\ applyDefaults(b).source[i].type = "github" => applyDefaults(b).source[i].poll_interval # 0
                /\ applyDefaults(b).source[i].dir = <<>> \/ IsAbs(applyDefaults(b).source[i].dir)
<1> DEFINE root    == CleanAbs(IF IsAbs(b.root) THEN b.root ELSE BootDir \o b.root)
           timeout == IF b.update_timeout = 0 THEN DefaultUpdateTimeout ELSE b.update_timeout
           source  == [i \in DOMAIN b.source |-> sourceDefaults(b.source[i])]
           server  == [i \in DOMAIN b.server |-> serverDefaults(b.server[i])]
<1>0. /\ b.root \in Seq(Text) /\ b.update_timeout \in Int /\ b.source \in Seq(Sources)
      /\ b.server \in Seq(Servers) /\ b.parses \in BOOLEAN /\ b.proxy \in Seq(Proxies)
  BY DEF Bootstraps
<1>1. root \in Seq(Text)
  <2> DEFINE q == IF IsAbs(b.root) THEN b.root ELSE BootDir \o b.root
  <2>1. q \in Seq(Text)
    <3>1. CASE IsAbs(b.root)
      BY <1>0, <3>1
    <3>2. CASE ~IsAbs(b.root)
      <4>1. BootDir \o b.root \in Seq(Text)
        BY <1>0, BootstrapAssumption
      <4> QED
        BY <3>2, <4>1
    <3> QED
      BY <3>1, <3>2
  <2> HIDE DEF q
  <2>2. Len(q) \in 0..Len(q)
    BY <2>1
  <2> QED
    BY <2>1, <2>2, KeptType DEF CleanAbs, q
<1>2. timeout \in Int
  BY <1>0, BootstrapAssumption
<1>3. source \in Seq(Sources) /\ \A i \in DOMAIN source : source[i] = sourceDefaults(b.source[i]) /\ b.source[i] \in Sources
  <2>1. \A i \in 1..Len(b.source) : b.source[i] \in Sources /\ sourceDefaults(b.source[i]) \in Sources
    BY <1>0, SourceDefaults
  <2>2. DOMAIN b.source = 1..Len(b.source) /\ Len(b.source) \in Nat
    BY <1>0
  <2> QED
    BY <2>1, <2>2
<1>4. server \in Seq(Servers)
  <2>1. \A s \in Servers : serverDefaults(s) \in Servers
    <3> SUFFICES ASSUME NEW s \in Servers PROVE serverDefaults(s) \in Servers
      OBVIOUS
    <3> DEFINE listen == IF s.listen = <<>> THEN <<"127.0.0.1", "8788">> ELSE s.listen
    <3>1. s.listen \in Seq(Text)
      BY DEF Servers
    <3>2. listen \in Seq(Text)
      BY <3>1, Literals
    <3>3. serverDefaults(s) = [s EXCEPT !.listen = listen]
      BY DEF serverDefaults
    <3> HIDE DEF listen
    <3> QED
      BY <3>2, <3>3 DEF Servers
  <2>2. \A i \in 1..Len(b.server) : b.server[i] \in Servers
    BY <1>0
  <2>3. DOMAIN b.server = 1..Len(b.server) /\ Len(b.server) \in Nat
    BY <1>0
  <2> QED
    BY <2>1, <2>2, <2>3
<1>a. applyDefaults(b) = [b EXCEPT !.root = root, !.update_timeout = timeout, !.source = source, !.server = server]
  BY DEF applyDefaults
<1>5. applyDefaults(b) = [parses |-> b.parses, root |-> root, update_timeout |-> timeout,
                          source |-> source, server |-> server, proxy |-> b.proxy]
  <2> HIDE DEF root, timeout, source, server
  <2> QED
    BY <1>a DEF Bootstraps
<1> HIDE DEF root, timeout, source, server
<1>6. applyDefaults(b) \in Bootstraps
  BY <1>0, <1>1, <1>2, <1>3, <1>4, <1>5 DEF Bootstraps
<1>7. applyDefaults(b).source = source
  BY <1>5
<1> QED
  BY <1>3, <1>6, <1>7, SourceDefaults

\* Everything after Validate works on a configuration Validate accepted, and everything
\* after Resolve on output directories Resolve accepted: no step changes either.
THEOREM SettingsInvariant == Spec => []SettingsInv
<1>1. Init => SettingsInv
  BY DEF Init, SettingsInv
<1>2. SettingsInv /\ [Next]_vars => SettingsInv'
  <2> SUFFICES ASSUME SettingsInv, [Next]_vars PROVE SettingsInv'
    OBVIOUS
  <2> USE DEF SettingsInv, settings, inputs, Goto, Fail
  <2>1. CASE LoadBootstrap
    <3>1. /\ boot' \in Bootstraps
          /\ \A i \in DOMAIN boot'.source :
               /\ boot'.source[i].type = "github" => boot'.source[i].poll_interval # 0
               /\ boot'.source[i].dir = <<>> \/ IsAbs(boot'.source[i].dir)
      BY <2>1, BootDefaults DEF LoadBootstrap
    <3>2. pc' \in {"load", "refused"} /\ (pc' = "load" => ValidateBootstrap(boot')) /\ config' = config
      BY <2>1 DEF LoadBootstrap
    <3> QED
      BY <3>1, <3>2
  <2>2. CASE Load
    <3>1. pc = "load" /\ pc' \in {"resolve", "refused"} /\ (pc' = "resolve" => LoadConfig(config))
      BY <2>2 DEF Load
    <3>2. config' = config /\ boot' = boot
      BY <2>2 DEF Load
    <3> QED
      BY <3>1, <3>2
  <2>3. CASE Resolve
    <3>1. pc = "resolve" /\ pc' \in {"modules", "failed"} /\ (pc' = "modules" => Resolves(boot, config))
      BY <2>3 DEF Resolve
    <3>2. config' = config /\ boot' = boot
      BY <2>3 DEF Resolve
    <3> QED
      BY <3>1, <3>2
  <2>4. ASSUME config' = config, boot' = boot, pc \notin {"boot", "load", "refused", "resolve", "failed"},
               pc' \notin {"boot", "load", "refused", "resolve"}
        PROVE  SettingsInv'
    BY <2>4
  <2>5. CASE Next /\ ~LoadBootstrap /\ ~Load /\ ~Resolve /\ ~Ended
    <3>1. config' = config /\ boot' = boot /\ pc \in {"modules", "pool", "relays", "assemble", "inject", "close", "finish"}
      BY <2>5 DEF Next, Step, LoadModules, newInjector, buildRelays, assemble, inject, closeOverDetours, insert, finish
    <3>2. pc' = pc \/ pc' \in {"pool", "relays", "assemble", "done", "inject", "finish", "close", "failed"}
      BY <2>5 DEF Next, Step, LoadModules, newInjector, buildRelays, assemble, inject, closeOverDetours, insert, finish
    <3> QED
      BY <2>4, <3>1, <3>2
  <2>6. CASE UNCHANGED vars \/ Ended
    BY <2>6 DEF vars, Ended
  <2> QED
    BY <2>1, <2>2, <2>3, <2>5, <2>6 DEF Next
<1> QED
  BY <1>1, <1>2, PTL DEF Spec

\* filepath.Join of a directory and a configured path is a path, and the one a walk of
\* both ends in.
LEMMA JoinType ==
    ASSUME NEW base \in Seq(Text), NEW p \in Seq(Text)
    PROVE  /\ Join(base, p) \in Seq(Text)
           /\ CleanAbs(Join(base, p)) \in Seq(Text)
           /\ Walk(Join(base, p)) = CleanAbs(Join(base, p))
<1> DEFINE q == Join(base, p)
<1>1. q \in Seq(Text)
  <2>1. base \o p \in Seq(Text)
    OBVIOUS
  <2> QED
    BY <2>1 DEF Join
<1> HIDE DEF q
<1>2. Len(q) \in 0..Len(q)
  BY <1>1
<1> QED
  BY <1>1, <1>2, KeptType, WalkIsClean DEF CleanAbs, q

\* No two configuration files of a bootstrap configuration and a configuration that were
\* accepted are written to one file, and none among the snapshots, however their paths
\* are spelled: Resolve compares what TargetPath has cleaned.
THEOREM TargetsAlwaysApart == Spec => []TargetsApart
<1>1. SettingsInv => TargetsApart
  <2> SUFFICES ASSUME SettingsInv, pc \notin {"boot", "load", "refused", "resolve", "failed"}
               PROVE  TargetsApart
    BY DEF TargetsApart
  <2> DEFINE base == IF config.output_dir = <<>> THEN DefaultOutputDir(boot)
                                                 ELSE Walk(Join(boot.root, config.output_dir))
             place(c) == Walk(Join(base, c.path))
  <2>1. /\ Resolves(boot, config)
        /\ boot.root \in Seq(Text) /\ config.output_dir \in Seq(Text) /\ config.configs \in Seq(ConfigFiles)
    BY DEF SettingsInv, Bootstraps, Configs
  <2>2. base = BaseDir(boot, config) /\ base \in Seq(Text)
    <3>1. CASE config.output_dir = <<>>
      <4>1. DefaultOutputDir(boot) \in Seq(Text)
        <5>1. \A o \in Seq(Text) : boot.root \o o \in Seq(Text)
          BY <2>1
        <5> QED
          BY <5>1, Literals, Zenon DEF DefaultOutputDir
      <4> QED
        BY <3>1, <4>1 DEF BaseDir
    <3>2. CASE config.output_dir # <<>>
      BY <2>1, <3>2, JoinType DEF BaseDir
    <3> QED
      BY <3>1, <3>2
  <2> HIDE DEF base
  <2>3. ASSUME NEW i \in DOMAIN config.configs
        PROVE  place(config.configs[i]) = Targets(boot, config)[i]
    <3>1. config.configs[i].path \in Seq(Text)
      <4>1. config.configs[i] \in ConfigFiles
        BY <2>1
      <4> QED
        BY <4>1 DEF ConfigFiles
    <3> QED
      BY <2>2, <3>1, JoinType DEF Targets, TargetPath
  <2>4. \A i, j \in DOMAIN config.configs : Targets(boot, config)[i] = Targets(boot, config)[j] => i = j
    <3>1. DOMAIN Targets(boot, config) = DOMAIN config.configs
      BY DEF Targets
    <3> QED
      BY <2>1, <3>1 DEF Resolves, IsInjective
  <2>5. \A i \in DOMAIN config.configs : ~IsPrefix(Snapshots(boot), Targets(boot, config)[i])
    BY <2>1 DEF Resolves, Within
  <2>6. \A i, j \in DOMAIN config.configs :
          place(config.configs[i]) = place(config.configs[j]) => i = j
    BY <2>3, <2>4
  <2>7. \A c \in Range(config.configs) : ~IsPrefix(Snapshots(boot), place(c))
    <3> SUFFICES ASSUME NEW i \in DOMAIN config.configs
                 PROVE  ~IsPrefix(Snapshots(boot), place(config.configs[i]))
      BY DEF Range
    <3> QED
      BY <2>3, <2>5
  <2> QED
    BY <2>6, <2>7 DEF TargetsApart, base
<1> QED
  BY <1>1, SettingsInvariant, PTL

\* The hourly schedule waits for a full hour.
LEMMA HourlyOnTheHour ==
    ASSUME NEW now \in 0..(2 * Hour)
    PROVE  ((now + (Hour - (now % Hour))) % Hour) = 0
<1>0. Hour \in Nat /\ Hour > 0
  BY HourAssumption
<1>1. CASE now < Hour
  <2>1. now % Hour = now
    BY <1>0, <1>1
  <2>2. now + (Hour - (now % Hour)) = Hour
    BY <2>1, <1>0
  <2> QED
    BY <1>0, <2>2
<1>2. CASE now >= Hour /\ now < 2 * Hour
  <2>1. now % Hour = now - Hour
    BY <1>0, <1>2
  <2>2. now + (Hour - (now % Hour)) = 2 * Hour
    BY <2>1, <1>0
  <2>3. (2 * Hour) % Hour = 0
    BY <1>0
  <2> QED
    BY <2>2, <2>3
<1>3. CASE now = 2 * Hour
  <2>1. (2 * Hour) % Hour = 0
    BY <1>0
  <2>2. now + (Hour - (now % Hour)) = 3 * Hour
    BY <2>1, <1>0, <1>3
  <2>3. (3 * Hour) % Hour = 0
    BY <1>0
  <2> QED
    BY <2>2, <2>3
<1> QED
  BY <1>0, <1>1, <1>2, <1>3

\* A schedule whose type is in lower case is one the timer understands.
LEMMA LowerCaseKept ==
    ASSUME NEW s \in Schedules, s.type = Lower(s.type)
    PROVE  ScheduleKept(s)
<1> SUFFICES ASSUME validateSchedule(s), NEW now \in 0..(2 * Hour)
             PROVE  IF Lower(s.type) = "interval" THEN nextScheduleDelay(s, now) = s.every
                    ELSE ((now + nextScheduleDelay(s, now)) % Hour) = 0
  BY DEF ScheduleKept
<1>1. CASE s.type = "interval" /\ s.every > 0
  BY <1>1 DEF nextScheduleDelay
<1>2. CASE s.type = "hourly"
  <2>1. nextScheduleDelay(s, now) = Hour - (now % Hour)
    BY <1>2 DEF nextScheduleDelay
  <2>2. ((now + nextScheduleDelay(s, now)) % Hour) = 0
    BY <2>1, HourlyOnTheHour
  <2> QED
    BY <1>2, <2>2
<1> QED
  BY <1>1, <1>2 DEF validateSchedule

\* A path checkRepoRelPath accepts is never above the repository.
LEMMA RepoPathStays ==
    ASSUME NEW p \in Seq(Text), p # <<>> => checkRepoRelPath(p)
    PROVE  NeverAbove(p)
<1>1. CASE p = <<>>
  <2>1. Len(p) = 0
    BY <1>1
  <2>2. Clean(p) = <<>>
    BY <2>1, KeptDef DEF Clean
  <2> QED
    BY <2>2, RelativeStaysBelow DEF Escapes
<1>2. CASE p # <<>>
  BY <1>2, RelativeStaysBelow DEF checkRepoRelPath
<1> QED
  BY <1>1, <1>2

\* What the rest of the program takes for granted of an accepted configuration is so:
\* modules and selectors name what there is, a schedule in lower case is one the timer
\* has, the timeout and the poll interval are positive, and no path leaves its
\* repository.
THEOREM AcceptedConfigAlwaysHolds == Spec => []AcceptedConfigHolds
<1>1. SettingsInv => AcceptedConfigHolds
  <2> SUFFICES ASSUME SettingsInv, pc \notin {"boot", "load", "refused"} PROVE AcceptedConfigHolds
    BY DEF AcceptedConfigHolds
  <2>1. /\ config \in Configs /\ boot \in Bootstraps /\ Validate(config) /\ ValidateBootstrap(boot)
        /\ \A i \in DOMAIN boot.source :
             /\ boot.source[i].type = "github" => boot.source[i].poll_interval # 0
             /\ boot.source[i].dir = <<>> \/ IsAbs(boot.source[i].dir)
    BY DEF SettingsInv, LoadConfig
  <2>2. Used \subseteq NamesOf(config.modules)
    BY <2>1 DEF Used, Validate, validateConfigs
  <2>3. ASSUME NEW m \in Range(config.modules), NEW rule \in Range(m.selectors)
        PROVE  /\ Range(rule.from) \subseteq NamesOf(config.subscriptions)
               /\ Range(rule.relays) \subseteq NamesOf(config.relays)
    BY <2>1 DEF Validate, validateModules, validateSelectors, validateFrom
  <2>4. ASSUME NEW m \in Range(config.modules) PROVE NeverAbove(m.file)
    <3>1. m \in Modules
      BY <2>1 DEF Configs, Range
    <3>2. m.file \in Seq(Text) /\ (m.file # <<>> => checkRepoRelPath(m.file))
      BY <2>1, <3>1 DEF Validate, validateModules, Modules
    <3> QED
      BY <3>2, RepoPathStays
  <2>5. ASSUME NEW s \in Range(config.subscriptions) PROVE NeverAbove(s.path)
    <3>1. s \in Subscriptions
      BY <2>1 DEF Configs, Range
    <3>2. s.path \in Seq(Text) /\ (s.path # <<>> => checkRepoRelPath(s.path))
      BY <2>1, <3>1 DEF Validate, validateSubscriptions, Subscriptions
    <3> QED
      BY <3>2, RepoPathStays
  <2>6. config.update_schedule.type = Lower(config.update_schedule.type) => ScheduleKept(config.update_schedule)
    <3>1. config.update_schedule \in Schedules
      BY <2>1 DEF Configs
    <3> QED
      BY <3>1, LowerCaseKept
  <2>7. boot.update_timeout > 0
    BY <2>1 DEF ValidateBootstrap
  <2>8. ASSUME NEW s \in Range(boot.source)
        PROVE  IF s.type = "github" THEN s.poll_interval > 0 ELSE IsAbs(s.dir)
    <3>1. /\ validateSource(s) /\ s \in Sources /\ (s.type = "github" => s.poll_interval # 0)
          /\ s.dir = <<>> \/ IsAbs(s.dir)
      BY <2>1 DEF ValidateBootstrap, Range, Bootstraps
    <3>2. s.poll_interval \in Int
      BY <3>1 DEF Sources
    <3> QED
      <4>1. CASE s.type = "github"
        <5>1. s.poll_interval >= 0 /\ s.poll_interval # 0
          BY <3>1, <4>1 DEF validateSource
        <5> QED
          BY <3>2, <4>1, <5>1
      <4>2. CASE s.type # "github"
        BY <3>1, <4>2 DEF validateSource
      <4> QED
        BY <4>1, <4>2
  <2> QED
    BY <2>2, <2>3, <2>4, <2>5, <2>6, <2>7, <2>8 DEF AcceptedConfigHolds
<1> QED
  BY <1>1, SettingsInvariant, PTL

\* The nodes that keep their place when a tag is taken once: the first of each tag.
FirstPlaces(list) == {i \in DOMAIN list : \A j \in 1..(i - 1) : list[j].tag # list[i].tag}

\* What FirstOfTag is, without the operator that keeps TLC from working it out twice.
LEMMA FirstOfTagDef ==
    ASSUME NEW list
    PROVE  FirstOfTag(list) = Select(list, FirstPlaces(list))
BY DEF FirstOfTag, Once, FirstPlaces

\* The first node of each tag, in the order of the list: no tag twice, and none lost.
LEMMA FirstOfTagFacts ==
    ASSUME NEW list \in Seq(Nodes)
    PROVE  /\ FirstOfTag(list) \in Seq(Nodes)
           /\ Tags(FirstOfTag(list)) = Tags(list)
           /\ \E at \in [1..Len(FirstOfTag(list)) -> 1..Len(list)] :
                /\ \A k \in DOMAIN at : /\ FirstOfTag(list)[k] = list[at[k]]
                                        /\ \A j \in 1..(at[k] - 1) : list[j].tag # list[at[k]].tag
                /\ \A j, k \in DOMAIN at : j < k => at[j] < at[k]
           /\ \A j, k \in 1..Len(FirstOfTag(list)) : FirstOfTag(list)[j].tag = FirstOfTag(list)[k].tag => j = k
<1> DEFINE first == FirstOfTag(list)
           I == FirstPlaces(list)
<1>0. Len(list) \in Nat /\ DOMAIN list = 1..Len(list)
  OBVIOUS
<1>1. first \in Seq(Nodes)
  BY FirstOfTagDef, SelectElements
<1>a. PICK at : Picks(list, I, first, at)
  BY FirstOfTagDef, SelectPositions
<1>2. /\ at \in [1..Len(first) -> 1..Len(list)]
      /\ \A k \in DOMAIN at : at[k] \in I /\ first[k] = list[at[k]]
      /\ \A j, k \in DOMAIN at : j < k => at[j] < at[k]
      /\ \A i \in 1..Len(list) : i \in I => \E k \in DOMAIN at : at[k] = i
  <2> HIDE DEF first
  <2> QED
    BY <1>a DEF Picks
<1>3. \A i \in I : i \in 1..Len(list) /\ \A j \in 1..(i - 1) : list[j].tag # list[i].tag
  BY DEF FirstPlaces
<1> HIDE DEF first
<1>4. DOMAIN at = 1..Len(first) /\ Len(first) \in Nat /\ DOMAIN first = 1..Len(first)
  BY <1>1, <1>2
<1>5. ASSUME NEW i \in 1..Len(list) PROVE \E k \in 1..Len(first) : first[k].tag = list[i].tag
  <2> DEFINE same == {j \in 1..Len(list) : list[j].tag = list[i].tag}
  <2>1. PICK m \in same : \A j \in same : m <= j
    <3>1. same \subseteq Nat /\ same # {}
      OBVIOUS
    <3> QED
      BY <3>1, LeastElement
  <2>2. m \in I
    BY <1>0, <2>1 DEF FirstPlaces
  <2>3. PICK k \in DOMAIN at : at[k] = m
    BY <1>2, <2>1, <2>2
  <2>4. first[k] = list[m] /\ list[m].tag = list[i].tag
    BY <1>2, <2>1, <2>3
  <2> QED
    BY <1>4, <2>4
<1> HIDE DEF I
<1>6. Tags(first) = Tags(list)
  <2>1. ASSUME NEW k \in 1..Len(first) PROVE \E i \in 1..Len(list) : list[i].tag = first[k].tag
    BY <1>2, <1>4
  <2>2. \A t : t \in Tags(first) <=> \E k \in 1..Len(first) : first[k].tag = t
    BY <1>4 DEF Tags
  <2>3. \A t : t \in Tags(list) <=> \E i \in 1..Len(list) : list[i].tag = t
    BY <1>0 DEF Tags
  <2>4. \A t : t \in Tags(first) => t \in Tags(list)
    BY <2>1, <2>2, <2>3
  <2>5. \A t : t \in Tags(list) => t \in Tags(first)
    BY <1>5, <2>2, <2>3
  <2> QED
    BY <2>4, <2>5
<1>7. \A k \in DOMAIN at : /\ first[k] = list[at[k]]
                           /\ \A j \in 1..(at[k] - 1) : list[j].tag # list[at[k]].tag
  BY <1>2, <1>3
<1>8. ASSUME NEW j \in 1..Len(first), NEW k \in 1..Len(first), j < k PROVE first[j].tag # first[k].tag
  <2>1. at[j] < at[k] /\ at[j] \in 1..Len(list) /\ at[k] \in 1..Len(list)
    BY <1>2, <1>4, <1>8
  <2>2. at[j] \in 1..(at[k] - 1)
    BY <2>1
  <2> QED
    BY <1>4, <1>7, <2>2
<1>9. ASSUME NEW j \in 1..Len(first), NEW k \in 1..Len(first), first[j].tag = first[k].tag PROVE j = k
  <2>1. j < k \/ k < j \/ j = k
    BY <1>4
  <2> QED
    BY <1>8, <1>9, <2>1
<1>10. \E f \in [1..Len(first) -> 1..Len(list)] :
          /\ \A k \in DOMAIN f : /\ first[k] = list[f[k]]
                                 /\ \A j \in 1..(f[k] - 1) : list[j].tag # list[f[k]].tag
          /\ \A j, k \in DOMAIN f : j < k => f[j] < f[k]
  BY <1>2, <1>7
<1> QED
  BY <1>1, <1>6, <1>9, <1>10 DEF first

\* What Init chose and no step changes: configuration, named nodes and module files.
InputsInv ==
    /\ config \in Configs
    /\ nodes \in [NamesOf(config.subscriptions) -> Seq(Nodes)]
    /\ \A s \in DOMAIN nodes : \A i \in DOMAIN nodes[s] :
         nodes[s][i].tag # None => belongsTo(nodes[s][i].tag, s)
    /\ DOMAIN files = NamesOf(config.modules) /\ \A m \in DOMAIN files : IsFile(files[m])

\* What FetchAll returned for each enabled subscription, in their order.
Fetched == [i \in DOMAIN Enabled |-> nodes[Enabled[i].name]]

\* The enabled subscriptions are some of the configuration's, in its order.
LEMMA EnabledFacts ==
    ASSUME InputsInv
    PROVE  /\ Enabled \in Seq(Subscriptions)
           /\ \E at \in [1..Len(Enabled) -> 1..Len(config.subscriptions)] :
                /\ \A k \in DOMAIN at : Enabled[k] = config.subscriptions[at[k]]
                /\ \A j, k \in DOMAIN at : j < k => at[j] < at[k]
           /\ Fetched \in Seq(Seq(Nodes)) /\ Len(Fetched) = Len(Enabled)
           /\ \A k \in 1..Len(Enabled) : Fetched[k] = nodes[Enabled[k].name] /\ Enabled[k].name \in DOMAIN nodes
<1> DEFINE list == config.subscriptions
           I == {i \in DOMAIN list : list[i].enable}
<1>1. list \in Seq(Subscriptions)
  BY DEF InputsInv, Configs
<1>2. Enabled = Select(list, I)
  BY DEF Enabled
<1> HIDE DEF I, list
<1>3. Enabled \in Seq(Subscriptions)
  BY <1>1, <1>2, SelectElements
<1>a. PICK at : Picks(list, I, Enabled, at)
  BY <1>1, <1>2, SelectPositions
<1>4. /\ at \in [1..Len(Enabled) -> 1..Len(list)]
      /\ \A k \in DOMAIN at : at[k] \in I /\ Enabled[k] = list[at[k]]
      /\ \A j, k \in DOMAIN at : j < k => at[j] < at[k]
  BY <1>a DEF Picks
<1>5. ASSUME NEW k \in 1..Len(Enabled) PROVE Enabled[k].name \in DOMAIN nodes
  <2>1. Enabled[k] = list[at[k]] /\ at[k] \in DOMAIN list
    BY <1>1, <1>4
  <2>2. DOMAIN nodes = {list[i].name : i \in DOMAIN list}
    BY DEF InputsInv, NamesOf, list
  <2> QED
    BY <2>1, <2>2
<1>6. DOMAIN Enabled = 1..Len(Enabled) /\ Len(Enabled) \in Nat
  BY <1>3
<1>7. \A n \in DOMAIN nodes : nodes[n] \in Seq(Nodes)
  BY DEF InputsInv
<1>8. Fetched = [k \in 1..Len(Enabled) |-> nodes[Enabled[k].name]]
  BY <1>6 DEF Fetched
<1>9. \A k \in 1..Len(Enabled) : nodes[Enabled[k].name] \in Seq(Nodes)
  BY <1>5, <1>7
<1>10. Fetched \in Seq(Seq(Nodes)) /\ Len(Fetched) = Len(Enabled)
  BY <1>6, <1>8, <1>9
<1>11. \E f \in [1..Len(Enabled) -> 1..Len(list)] :
          /\ \A k \in DOMAIN f : Enabled[k] = list[f[k]]
          /\ \A j, k \in DOMAIN f : j < k => f[j] < f[k]
  BY <1>4
<1> QED
  BY <1>3, <1>5, <1>8, <1>10, <1>11 DEF list

\* The nodes with a tag, subscription after subscription.
LEMMA OfferedDef ==
    Offered = Select(Concat(Fetched), {i \in DOMAIN Concat(Fetched) : Concat(Fetched)[i].tag # None})
BY DEF Offered, Once, Fetched

\* The pool holds named nodes, no tag twice.
LEMMA PoolFacts ==
    ASSUME InputsInv
    PROVE  /\ newPool \in Seq(Nodes)
           /\ \A k \in 1..Len(newPool) : newPool[k].tag # None
           /\ \A j, k \in 1..Len(newPool) : newPool[j].tag = newPool[k].tag => j = k
<1> DEFINE all == Concat(Fetched)
           I == {i \in DOMAIN all : all[i].tag # None}
<1>1. Fetched \in Seq(Seq(Nodes))
  BY EnabledFacts
<1>2. all \in Seq(Nodes)
  BY <1>1, ConcatElements
<1>3. Offered = Select(all, I)
  BY OfferedDef
<1> HIDE DEF all, I
<1>4. Offered \in Seq(Nodes) /\ \A k \in 1..Len(Offered) : \E i \in 1..Len(all) : i \in I /\ Offered[k] = all[i]
  <2>1. /\ Select(all, I) \in Seq(Nodes)
        /\ \A k \in 1..Len(Select(all, I)) : \E i \in 1..Len(all) : i \in I /\ Select(all, I)[k] = all[i]
    BY <1>2, SelectElements
  <2> QED
    BY <1>3, <2>1
<1>5. \A k \in 1..Len(Offered) : Offered[k].tag # None
  BY <1>4 DEF I
<1>6. newPool = FirstOfTag(Offered)
  BY DEF newPool
<1> HIDE DEF newPool
<1>7. /\ newPool \in Seq(Nodes) /\ Tags(newPool) = Tags(Offered)
      /\ \A j, k \in 1..Len(newPool) : newPool[j].tag = newPool[k].tag => j = k
  BY <1>4, <1>6, FirstOfTagFacts
<1>8. \A k \in 1..Len(newPool) : newPool[k].tag # None
  <2>1. None \notin Tags(Offered)
    BY <1>4, <1>5 DEF Tags
  <2>2. \A k \in 1..Len(newPool) : newPool[k].tag \in Tags(newPool)
    BY <1>7 DEF Tags
  <2> QED
    BY <1>7, <2>1, <2>2
<1> QED
  BY <1>7, <1>8

\* What a selector takes of each enabled subscription.
Parts(sel) ==
    [i \in DOMAIN Enabled |-> IF Enabled[i].name \in Range(sel.from) THEN From(sel, Enabled[i]) ELSE <<>>]

\* What resolve is, said by its parts.
LEMMA ResolveDef ==
    ASSUME NEW sel
    PROVE  resolve(sel) = Concat(Parts(sel))
BY DEF resolve, Parts

\* What a selector takes of a subscription is nodes of the pool, in its order.
LEMMA PartsFacts ==
    ASSUME InputsInv, pool \in Seq(Nodes), NEW sel
    PROVE  /\ Parts(sel) \in Seq(Seq(Nodes)) /\ Len(Parts(sel)) = Len(Enabled)
           /\ \A a \in 1..Len(Enabled) : \A b \in 1..Len(Parts(sel)[a]) :
                \E i \in 1..Len(pool) : Parts(sel)[a][b] = pool[i] /\ belongsTo(pool[i].tag, Enabled[a].name)
<1>1. Enabled \in Seq(Subscriptions)
  BY EnabledFacts
<1>2. DOMAIN Enabled = 1..Len(Enabled) /\ Len(Enabled) \in Nat
  BY <1>1
<1>3. ASSUME NEW a \in 1..Len(Enabled)
      PROVE  /\ From(sel, Enabled[a]) \in Seq(Nodes)
             /\ \A b \in 1..Len(From(sel, Enabled[a])) :
                  \E i \in 1..Len(pool) : From(sel, Enabled[a])[b] = pool[i] /\ belongsTo(pool[i].tag, Enabled[a].name)
  <2> DEFINE s == Enabled[a]
             I == {i \in DOMAIN pool : /\ belongsTo(pool[i].tag, s.name)
                                       /\ matches(pool[i].tag, sel.include, sel.exclude)}
  <2>1. From(sel, s) = Select(pool, I)
    BY DEF From
  <2>2. \A i \in I : belongsTo(pool[i].tag, s.name)
    OBVIOUS
  <2> HIDE DEF s, I
  <2>3. /\ Select(pool, I) \in Seq(Nodes)
        /\ \A k \in 1..Len(Select(pool, I)) : \E i \in 1..Len(pool) : i \in I /\ Select(pool, I)[k] = pool[i]
    BY SelectElements
  <2>4. /\ From(sel, s) \in Seq(Nodes)
        /\ \A k \in 1..Len(From(sel, s)) : \E i \in 1..Len(pool) : From(sel, s)[k] = pool[i] /\ belongsTo(pool[i].tag, s.name)
    BY <2>1, <2>2, <2>3
  <2> QED
    BY <2>4 DEF s
<1>4. Parts(sel) = [a \in 1..Len(Enabled) |-> IF Enabled[a].name \in Range(sel.from) THEN From(sel, Enabled[a]) ELSE <<>>]
  BY <1>2 DEF Parts
<1>5. \A a \in 1..Len(Enabled) : Parts(sel)[a] = From(sel, Enabled[a]) \/ Parts(sel)[a] = <<>>
  BY <1>4
<1>6. <<>> \in Seq(Nodes) /\ Len(<<>>) = 0
  OBVIOUS
<1>7. \A a \in 1..Len(Enabled) : Parts(sel)[a] \in Seq(Nodes)
  BY <1>3, <1>5, <1>6
<1>8. Parts(sel) \in Seq(Seq(Nodes)) /\ Len(Parts(sel)) = Len(Enabled)
  <2> DEFINE part(a) == IF Enabled[a].name \in Range(sel.from) THEN From(sel, Enabled[a]) ELSE <<>>
  <2>1. \A a \in 1..Len(Enabled) : part(a) \in Seq(Nodes)
    BY <1>4, <1>7
  <2>2. Parts(sel) = [a \in 1..Len(Enabled) |-> part(a)]
    BY <1>4
  <2> HIDE DEF part
  <2> QED
    BY <1>2, <2>1, <2>2
<1>9. ASSUME NEW a \in 1..Len(Enabled), NEW b \in 1..Len(Parts(sel)[a])
      PROVE  \E i \in 1..Len(pool) : Parts(sel)[a][b] = pool[i] /\ belongsTo(pool[i].tag, Enabled[a].name)
  <2>1. CASE Parts(sel)[a] = From(sel, Enabled[a])
    <3> DEFINE from == From(sel, Enabled[a])
    <3>1. \A x \in 1..Len(from) : \E i \in 1..Len(pool) : from[x] = pool[i] /\ belongsTo(pool[i].tag, Enabled[a].name)
      BY <1>3
    <3>2. Parts(sel)[a] = from /\ b \in 1..Len(Parts(sel)[a])
      BY <2>1
    <3> HIDE DEF from
    <3> QED
      BY <3>1, <3>2
  <2>2. CASE Parts(sel)[a] = <<>>
    BY <1>6, <1>9, <2>2
  <2> QED
    BY <1>5, <2>1, <2>2
<1> QED
  BY <1>8, <1>9

\* A selector takes nodes of the pool.
LEMMA ResolveFacts ==
    ASSUME InputsInv, pool \in Seq(Nodes), NEW sel
    PROVE  /\ resolve(sel) \in Seq(Nodes)
           /\ \A k \in 1..Len(resolve(sel)) : \E i \in 1..Len(pool) : resolve(sel)[k] = pool[i]
<1> DEFINE parts == Parts(sel)
<1>1. /\ parts \in Seq(Seq(Nodes)) /\ Len(parts) = Len(Enabled)
      /\ \A a \in 1..Len(Enabled) : \A b \in 1..Len(parts[a]) : \E i \in 1..Len(pool) : parts[a][b] = pool[i]
  BY PartsFacts
<1>2. resolve(sel) = Concat(parts)
  BY ResolveDef
<1> HIDE DEF parts
<1>3. /\ Concat(parts) \in Seq(Nodes)
      /\ \A k \in 1..Len(Concat(parts)) : \E a \in 1..Len(parts) : \E b \in 1..Len(parts[a]) : Concat(parts)[k] = parts[a][b]
  <2>0. parts \in Seq(Seq(Nodes))
    BY <1>1
  <2> QED
    BY <2>0, ConcatElements
<1>4. ASSUME NEW k \in 1..Len(Concat(parts)) PROVE \E i \in 1..Len(pool) : Concat(parts)[k] = pool[i]
  <2>1. PICK a \in 1..Len(parts) : \E b \in 1..Len(parts[a]) : Concat(parts)[k] = parts[a][b]
    BY <1>3, Zenon
  <2>2. PICK b \in 1..Len(parts[a]) : Concat(parts)[k] = parts[a][b]
    BY <2>1, Zenon
  <2>3. \E i \in 1..Len(pool) : parts[a][b] = pool[i]
    BY <1>1, Zenon
  <2> QED
    BY <2>2, <2>3, Zenon
<1> QED
  BY <1>2, <1>3, <1>4

\* Several selectors together take nodes of the pool.
LEMMA ResolveUnionFacts ==
    ASSUME pool \in Seq(Nodes), NEW sels
    PROVE  /\ resolveUnion(sels) \in Seq(Nodes)
           /\ \A k \in 1..Len(resolveUnion(sels)) : \E i \in 1..Len(pool) : resolveUnion(sels)[k] = pool[i]
<1> DEFINE matched == UNION {Tags(resolve(sel)) : sel \in Range(sels)}
           I == {i \in DOMAIN pool : pool[i].tag \in matched}
<1>1. resolveUnion(sels) = Select(pool, I)
  BY DEF resolveUnion, Once
<1> HIDE DEF I
<1>2. /\ Select(pool, I) \in Seq(Nodes)
      /\ \A k \in 1..Len(Select(pool, I)) : \E i \in 1..Len(pool) : i \in I /\ Select(pool, I)[k] = pool[i]
  BY SelectElements
<1> QED
  BY <1>1, <1>2

\* A relay's nodes have a tag, no tag twice, and a node of the pool for their detour.
LEMMA RelayFacts ==
    ASSUME pool \in Seq(Nodes), \A i \in 1..Len(pool) : pool[i].tag # None, NEW r
    PROVE  /\ relayNodes(r) \in Seq(Nodes)
           /\ \A k \in 1..Len(relayNodes(r)) : relayNodes(r)[k].tag # None /\ relayNodes(r)[k].detour \in Tags(pool)
           /\ \A j, k \in 1..Len(relayNodes(r)) : relayNodes(r)[j].tag = relayNodes(r)[k].tag => j = k
<1> DEFINE tmpls == resolveUnion(r.via)
           ups   == resolveUnion(r.upstream)
           row(i) == [j \in DOMAIN ups |-> Relayed(tmpls[i], ups[j])]
           rows  == [i \in DOMAIN tmpls |-> row(i)]
           pairs == Pairs(tmpls, ups)
<1>1. /\ tmpls \in Seq(Nodes) /\ \A k \in 1..Len(tmpls) : \E i \in 1..Len(pool) : tmpls[k] = pool[i]
      /\ ups \in Seq(Nodes) /\ \A k \in 1..Len(ups) : \E i \in 1..Len(pool) : ups[k] = pool[i]
  BY ResolveUnionFacts
<1>2. relayNodes(r) = FirstOfTag(pairs)
  BY DEF relayNodes, Once
<1>3. pairs = Concat(rows)
  BY DEF Pairs
<1> HIDE DEF tmpls, ups, pairs
<1>4. /\ DOMAIN tmpls = 1..Len(tmpls) /\ DOMAIN ups = 1..Len(ups) /\ Len(tmpls) \in Nat /\ Len(ups) \in Nat
      /\ DOMAIN pool = 1..Len(pool)
  BY <1>1
<1>5. ASSUME NEW t \in Nodes, NEW u \in Nodes, t.tag # None
      PROVE  Relayed(t, u) \in Nodes /\ Relayed(t, u).tag # None /\ Relayed(t, u).detour = u.tag
  <2>1. t.tag \in TagType /\ u.tag \in TagType /\ t.type \in Text /\ t.detour \in TagType
    BY DEF Nodes
  <2> DEFINE tag == t.tag \o u.tag
  <2>2. tag \in TagType /\ tag # None
    <3>1. \A x, y \in Seq(Text) : x \o y \in Seq(Text) /\ Len(x \o y) = Len(x) + Len(y)
      BY ConcatProperties
    <3>2. \A x \in Seq(Text) : Len(x) \in Nat /\ (x = <<>> <=> Len(x) = 0)
      OBVIOUS
    <3>3. tag \in Seq(Text) /\ Len(tag) = Len(t.tag) + Len(u.tag)
      BY <2>1, <3>1 DEF TagType
    <3>4. Len(t.tag) \in Nat /\ Len(t.tag) # 0 /\ Len(u.tag) \in Nat
      BY <2>1, <1>5, <3>2 DEF TagType, None
    <3> HIDE DEF tag
    <3>5. Len(tag) # 0
      <4>1. \A m, n \in Nat : m # 0 => m + n # 0
        OBVIOUS
      <4> QED
        BY <3>3, <3>4, <4>1, Zenon
    <3>6. tag # <<>>
      BY <3>2, <3>3, <3>5, Zenon
    <3> QED
      BY <3>3, <3>6 DEF TagType, None
  <2>3. Relayed(t, u) = [t EXCEPT !.tag = tag, !.detour = u.tag]
    BY DEF Relayed
  <2> HIDE DEF tag
  <2>4. Relayed(t, u) = [tag |-> tag, type |-> t.type, detour |-> u.tag]
    BY <2>3 DEF Nodes
  <2> QED
    BY <2>1, <2>2, <2>4 DEF Nodes
<1>6. ASSUME NEW i \in 1..Len(tmpls)
      PROVE  /\ row(i) \in Seq(Nodes) /\ Len(row(i)) = Len(ups)
             /\ \A j \in 1..Len(ups) : row(i)[j].tag # None /\ row(i)[j].detour \in Tags(pool)
  <2>1. tmpls[i] \in Nodes /\ tmpls[i].tag # None
    BY <1>1
  <2>2. ASSUME NEW j \in 1..Len(ups) PROVE ups[j] \in Nodes /\ ups[j].tag \in Tags(pool)
    <3>1. ups[j] \in Nodes
      BY <1>1
    <3>2. PICK m \in 1..Len(pool) : ups[j] = pool[m]
      BY <1>1, Zenon
    <3>3. pool[m].tag \in Tags(pool)
      BY <1>4 DEF Tags
    <3> QED
      BY <3>1, <3>2, <3>3
  <2> DEFINE cell(j) == Relayed(tmpls[i], ups[j])
  <2>3. \A j \in 1..Len(ups) : cell(j) \in Nodes /\ cell(j).tag # None /\ cell(j).detour \in Tags(pool)
    BY <1>5, <2>1, <2>2
  <2>4. row(i) = [j \in 1..Len(ups) |-> cell(j)]
    BY <1>4
  <2> HIDE DEF cell
  <2> QED
    BY <1>4, <2>3, <2>4
<1> HIDE DEF row
<1>7. rows \in Seq(Seq(Nodes)) /\ Len(rows) = Len(tmpls) /\ \A i \in 1..Len(tmpls) : rows[i] = row(i)
  BY <1>4, <1>6
<1> HIDE DEF rows
<1>8. /\ pairs \in Seq(Nodes)
      /\ \A k \in 1..Len(pairs) : \E a \in 1..Len(rows) : \E b \in 1..Len(rows[a]) : pairs[k] = rows[a][b]
  <2>0. rows \in Seq(Seq(Nodes))
    BY <1>7
  <2>1. Concat(rows) \in Seq(Nodes)
    BY <2>0, ConcatElements
  <2>2. \A k \in 1..Len(Concat(rows)) : \E a \in 1..Len(rows) : \E b \in 1..Len(rows[a]) : Concat(rows)[k] = rows[a][b]
    BY <2>0, ConcatElements
  <2> QED
    BY <1>3, <2>1, <2>2
<1>9. ASSUME NEW k \in 1..Len(pairs) PROVE pairs[k].tag # None /\ pairs[k].detour \in Tags(pool)
  <2>1. PICK a \in 1..Len(rows) : \E b \in 1..Len(rows[a]) : pairs[k] = rows[a][b]
    BY <1>8, Zenon
  <2>2. PICK b \in 1..Len(rows[a]) : pairs[k] = rows[a][b]
    BY <2>1, Zenon
  <2>3. a \in 1..Len(tmpls) /\ rows[a] = row(a) /\ b \in 1..Len(ups)
    BY <1>6, <1>7, <2>1, <2>2
  <2>4. row(a)[b].tag # None /\ row(a)[b].detour \in Tags(pool)
    BY <1>6, <2>3, Zenon
  <2> QED
    BY <2>2, <2>3, <2>4
<1>10. /\ FirstOfTag(pairs) \in Seq(Nodes)
       /\ \E at \in [1..Len(FirstOfTag(pairs)) -> 1..Len(pairs)] : \A k \in DOMAIN at : FirstOfTag(pairs)[k] = pairs[at[k]]
       /\ \A j, k \in 1..Len(FirstOfTag(pairs)) : FirstOfTag(pairs)[j].tag = FirstOfTag(pairs)[k].tag => j = k
  BY <1>8, FirstOfTagFacts
<1>11. \A k \in 1..Len(FirstOfTag(pairs)) : \E i \in 1..Len(pairs) : FirstOfTag(pairs)[k] = pairs[i]
  BY <1>10
<1> QED
  BY <1>2, <1>9, <1>10, <1>11

Building == pc \in {"relays", "assemble", "inject", "close", "finish"}

\* The injector holds what newPool and relayNodes give, and byTag the first node of
\* each tag, nodes of the pool before those of relays.
InjectorInv ==
    /\ pc \in {"boot", "load", "resolve", "modules", "pool"} => relays = <<>>
    /\ Building =>
        /\ pool = newPool
        /\ Len(relays) \in 0..Len(config.relays) /\ (pc # "relays" => Len(relays) = Len(config.relays))
        /\ relays = [i \in 1..Len(relays) |-> relayNodes(config.relays[i])]
        /\ byTag \in [Tags(AllRelays) \cup Tags(pool) -> Nodes]
        /\ \A i \in DOMAIN pool : byTag[pool[i].tag] = pool[i]
        /\ \A i \in DOMAIN AllRelays :
             /\ AllRelays[i].tag \notin Tags(pool)
             /\ \A j \in 1..(i - 1) : AllRelays[j].tag # AllRelays[i].tag
             => byTag[AllRelays[i].tag] = AllRelays[i]

\* No step changes the inputs but node-box.json, which gets its defaults.
LEMMA InputsInvariant == Spec => []InputsInv
<1>1. Init => InputsInv
  BY DEF Init, InputsInv
<1>2. InputsInv /\ [Next]_vars => InputsInv'
  <2> SUFFICES ASSUME InputsInv, [Next]_vars PROVE InputsInv'
    OBVIOUS
  <2>1. UNCHANGED <<config, nodes, files>>
    BY DEF Next, Step, Ended, vars, inputs, settings, LoadBootstrap, Load, Resolve, LoadModules, newInjector,
           buildRelays, assemble, inject, closeOverDetours, insert, finish
  <2> QED
    BY <2>1 DEF InputsInv
<1> QED
  BY <1>1, <1>2, PTL DEF Spec

\* The pool depends on nothing but the configuration and the nodes.
LEMMA PoolUnmoved ==
    ASSUME UNCHANGED <<config, nodes>>
    PROVE  newPool' = newPool
BY DEF newPool, Offered, Enabled, FirstOfTag, Select, Selected, Concat, Joined, Once, Tags, None

\* What is generated for a relay depends on nothing but these and the pool.
LEMMA RelayUnmoved ==
    ASSUME UNCHANGED <<config, pool>>, NEW i
    PROVE  relayNodes(config.relays[i])' = relayNodes(config.relays[i])
BY DEF relayNodes, resolveUnion, resolve, From, Enabled, FirstOfTag, Pairs, Relayed, Select, Selected, Concat, Joined, Once, Tags, Range, belongsTo, matches, Hit

\* Nodes with a tag of their own are found by it.
LEMMA IndexedFacts ==
    ASSUME NEW list \in Seq(Nodes), \A j, k \in 1..Len(list) : list[j].tag = list[k].tag => j = k
    PROVE  /\ Indexed(list) \in [Tags(list) -> Nodes]
           /\ \A i \in 1..Len(list) : Indexed(list)[list[i].tag] = list[i]
<1>0. DOMAIN list = 1..Len(list) /\ Len(list) \in Nat
  OBVIOUS
<1>1. ASSUME NEW i \in 1..Len(list)
      PROVE  Max({j \in DOMAIN list : list[j].tag = list[i].tag}) = i
  <2> DEFINE same == {j \in DOMAIN list : list[j].tag = list[i].tag}
  <2>1. same = {i}
    BY <1>0
  <2>2. same \subseteq 0..Len(list) /\ same # {}
    BY <1>0
  <2> HIDE DEF same
  <2>3. Max(same) \in same
    BY <1>0, <2>2, MaxFacts
  <2>4. Max(same) = i
    BY <2>1, <2>3
  <2> QED
    BY <2>4 DEF same
<1>2. ASSUME NEW i \in 1..Len(list)
      PROVE  list[i].tag \in Tags(list) /\ Indexed(list)[list[i].tag] = list[i] /\ list[i] \in Nodes
  <2>1. list[i].tag \in Tags(list)
    BY <1>0 DEF Tags
  <2>2. Indexed(list)[list[i].tag] = list[Max({j \in DOMAIN list : list[j].tag = list[i].tag})]
    BY <2>1 DEF Indexed
  <2> QED
    BY <1>1, <2>1, <2>2
<1>3. \A t \in Tags(list) : Indexed(list)[t] \in Nodes
  <2> SUFFICES ASSUME NEW t \in Tags(list) PROVE Indexed(list)[t] \in Nodes
    OBVIOUS
  <2>1. PICK i \in 1..Len(list) : list[i].tag = t
    BY <1>0 DEF Tags
  <2> QED
    BY <1>2, <2>1
<1>4. Indexed(list) = [t \in Tags(list) |-> Indexed(list)[t]]
  BY DEF Indexed
<1> QED
  BY <1>2, <1>3, <1>4

\* The relays' nodes have a tag and a node of the pool for their detour.
LEMMA AllRelaysFacts ==
    ASSUME InputsInv, pool = newPool, Len(relays) \in Nat,
           relays = [i \in 1..Len(relays) |-> relayNodes(config.relays[i])]
    PROVE  /\ relays \in Seq(Seq(Nodes)) /\ AllRelays \in Seq(Nodes)
           /\ \A k \in 1..Len(AllRelays) : AllRelays[k].tag # None /\ AllRelays[k].detour \in Tags(pool)
<1>1. pool \in Seq(Nodes) /\ \A i \in 1..Len(pool) : pool[i].tag # None
  BY PoolFacts
<1>2. ASSUME NEW i \in 1..Len(relays)
      PROVE  /\ relays[i] \in Seq(Nodes)
             /\ \A k \in 1..Len(relays[i]) : relays[i][k].tag # None /\ relays[i][k].detour \in Tags(pool)
  <2> DEFINE g == relayNodes(config.relays[i])
  <2>1. g \in Seq(Nodes) /\ \A k \in 1..Len(g) : g[k].tag # None /\ g[k].detour \in Tags(pool)
    BY <1>1, RelayFacts
  <2> HIDE DEF g
  <2>2. relays[i] = g
    <3>1. \A f : f = [j \in 1..Len(relays) |-> relayNodes(config.relays[j])] => f[i] = relayNodes(config.relays[i])
      OBVIOUS
    <3> QED
      BY <3>1 DEF g
  <2> QED
    BY <2>1, <2>2
<1>3. relays \in Seq(Seq(Nodes))
  <2>1. DOMAIN relays = 1..Len(relays)
    OBVIOUS
  <2>2. \A n \in Nat : \A f : f = [i \in 1..n |-> f[i]] /\ (\A i \in 1..n : f[i] \in Seq(Nodes)) => f \in Seq(Seq(Nodes))
    OBVIOUS
  <2>3. relays = [i \in 1..Len(relays) |-> relays[i]]
    OBVIOUS
  <2> QED
    BY <1>2, <2>2, <2>3
<1>4. AllRelays = Concat(relays)
  BY DEF AllRelays
<1> HIDE DEF AllRelays
<1>5. Concat(relays) \in Seq(Nodes)
  BY <1>3, ConcatElements
<1>6. \A k \in 1..Len(Concat(relays)) : \E a \in 1..Len(relays) : \E b \in 1..Len(relays[a]) : Concat(relays)[k] = relays[a][b]
  BY <1>3, ConcatElements
<1>7. \A k \in 1..Len(Concat(relays)) : Concat(relays)[k].tag # None /\ Concat(relays)[k].detour \in Tags(pool)
  BY <1>2, <1>6
<1> QED
  BY <1>3, <1>4, <1>5, <1>7

\* The generated nodes depend on nothing but the list of them.
LEMMA AllRelaysUnmoved ==
    ASSUME UNCHANGED relays
    PROVE  AllRelays' = AllRelays
BY DEF AllRelays, Concat, Joined, Once

\* A step that leaves the injector and its inputs alone leaves the invariant alone.
LEMMA InjectorUnmoved ==
    ASSUME InjectorInv, Building, UNCHANGED <<config, nodes, derived>>,
           pc' \notin {"boot", "load", "resolve", "modules", "pool"},
           Building' => Len(relays) = Len(config.relays) \/ pc' = "relays"
    PROVE  InjectorInv'
<1> SUFFICES ASSUME Building' PROVE InjectorInv'
  BY DEF InjectorInv
<1>1. newPool' = newPool
  BY PoolUnmoved
<1>2. UNCHANGED <<config, pool, relays, byTag>>
  BY DEF derived
<1>3. \A i : relayNodes(config.relays[i])' = relayNodes(config.relays[i])
  BY <1>2, RelayUnmoved
<1>4. AllRelays' = AllRelays
  BY <1>2, AllRelaysUnmoved
<1>5. relays' = [i \in 1..Len(relays') |-> relayNodes(config.relays[i])']
  <2>1. relays = [i \in 1..Len(relays) |-> relayNodes(config.relays[i])]
    BY DEF InjectorInv
  <2>2. [i \in 1..Len(relays) |-> relayNodes(config.relays[i])'] = [i \in 1..Len(relays) |-> relayNodes(config.relays[i])]
    BY <1>3
  <2> QED
    BY <1>2, <2>1, <2>2
<1>6. Len(relays') \in 0..Len(config'.relays) /\ (pc' # "relays" => Len(relays') = Len(config'.relays))
  BY <1>2 DEF InjectorInv
<1>7. (pool = newPool)'
  BY <1>1, <1>2 DEF InjectorInv
<1>8. (byTag \in [Tags(AllRelays) \cup Tags(pool) -> Nodes])'
  BY <1>2, <1>4 DEF InjectorInv, Tags
<1>9. (\A i \in DOMAIN pool : byTag[pool[i].tag] = pool[i])'
  BY <1>2 DEF InjectorInv
<1>10. (\A i \in DOMAIN AllRelays :
             /\ AllRelays[i].tag \notin Tags(pool)
             /\ \A j \in 1..(i - 1) : AllRelays[j].tag # AllRelays[i].tag
             => byTag[AllRelays[i].tag] = AllRelays[i])'
  BY <1>2, <1>4 DEF InjectorInv, Tags
<1> QED
  BY <1>5, <1>6, <1>7, <1>8, <1>9, <1>10 DEF InjectorInv

\* No lists make an empty list.
LEMMA EmptyConcat == Concat(<<>>) = <<>>
<1>1. <<>> \in Seq(Seq(Nodes))
  OBVIOUS
<1>2. Joined(<<>>)[0] = <<>>
  BY <1>1, JoinedDef
<1>3. Len(<<>>) = 0
  OBVIOUS
<1> QED
  BY <1>2, <1>3, ConcatDef

\* newInjector starts without relays, and finds every node of the pool by its tag.
LEMMA InjectorStarts ==
    ASSUME InputsInv, InjectorInv, newInjector
    PROVE  InjectorInv'
<1>1. /\ pc = "pool" /\ pc' = "relays" /\ UNCHANGED <<config, nodes, relays>>
      /\ pool' = newPool /\ byTag' = Indexed(pool')
  BY DEF newInjector, inputs, settings, Goto
<1>2. relays' = <<>>
  BY <1>1 DEF InjectorInv
<1>3. newPool' = newPool
  BY <1>1, PoolUnmoved
<1>4. AllRelays' = <<>>
  BY <1>2, EmptyConcat DEF AllRelays
<1>5. /\ newPool \in Seq(Nodes)
      /\ \A j, k \in 1..Len(newPool) : newPool[j].tag = newPool[k].tag => j = k
  BY PoolFacts
<1> HIDE DEF newPool
<1>6. /\ Indexed(newPool) \in [Tags(newPool) -> Nodes]
      /\ \A i \in 1..Len(newPool) : Indexed(newPool)[newPool[i].tag] = newPool[i]
  BY <1>5, IndexedFacts
<1>7. byTag' = Indexed(newPool)
  BY <1>1
<1>8. Tags(AllRelays)' = {} /\ Tags(pool)' = Tags(newPool)
  BY <1>1, <1>4 DEF Tags
<1>9. (byTag \in [Tags(AllRelays) \cup Tags(pool) -> Nodes])'
  BY <1>6, <1>7, <1>8
<1>10. (\A i \in DOMAIN pool : byTag[pool[i].tag] = pool[i])'
  BY <1>1, <1>5, <1>6, <1>7
<1>11. DOMAIN AllRelays' = {}
  BY <1>4
<1>12. (relays = [i \in 1..Len(relays) |-> relayNodes(config.relays[i])])' /\ Len(relays)' = 0
  BY <1>2
<1>13. config.relays \in Seq(Relays)
  BY DEF InputsInv, Configs
<1>14. (Len(relays) \in 0..Len(config.relays))'
  BY <1>1, <1>12, <1>13
<1> QED
  BY <1>1, <1>2, <1>3, <1>9, <1>10, <1>11, <1>12, <1>14 DEF InjectorInv, Building

\* The tags of two lists, one behind the other, are those of both.
LEMMA TagsConcat ==
    ASSUME NEW a \in Seq(Nodes), NEW b \in Seq(Nodes)
    PROVE  Tags(a \o b) = Tags(a) \cup Tags(b)
<1> DEFINE ab == a \o b
           m == Len(a)
           n == Len(b)
<1>1. /\ m \in Nat /\ n \in Nat /\ DOMAIN a = 1..m /\ DOMAIN b = 1..n /\ DOMAIN ab = 1..(m + n)
      /\ \A i \in 1..(m + n) : ab[i] = IF i <= m THEN a[i] ELSE b[i - m]
  BY ConcatProperties
<1> HIDE DEF ab, m, n
<1>2. ASSUME NEW i \in 1..(m + n) PROVE ab[i].tag \in Tags(a) \cup Tags(b)
  <2>1. CASE i <= m
    <3>1. i \in 1..m
      BY <1>1, <2>1
    <3> QED
      BY <1>1, <2>1, <3>1 DEF Tags
  <2>2. CASE ~(i <= m)
    <3>1. i - m \in 1..n
      BY <1>1, <2>2
    <3> QED
      BY <1>1, <2>2, <3>1 DEF Tags
  <2> QED
    BY <2>1, <2>2
<1>3. ASSUME NEW i \in 1..m PROVE a[i].tag \in Tags(ab)
  <2>1. i \in 1..(m + n) /\ ab[i] = a[i]
    BY <1>1
  <2> QED
    BY <1>1, <2>1 DEF Tags
<1>4. ASSUME NEW i \in 1..n PROVE b[i].tag \in Tags(ab)
  <2>1. m + i \in 1..(m + n) /\ ~(m + i <= m) /\ (m + i) - m = i
    BY <1>1
  <2>2. ab[m + i] = b[i]
    BY <1>1, <2>1
  <2> QED
    BY <1>1, <2>1, <2>2 DEF Tags
<1>5. Tags(ab) \subseteq Tags(a) \cup Tags(b)
  <2> SUFFICES ASSUME NEW t \in Tags(ab) PROVE t \in Tags(a) \cup Tags(b)
    OBVIOUS
  <2>1. PICK i \in 1..(m + n) : ab[i].tag = t
    BY <1>1 DEF Tags
  <2> QED
    BY <1>2, <2>1
<1>6. Tags(a) \subseteq Tags(ab)
  <2> SUFFICES ASSUME NEW t \in Tags(a) PROVE t \in Tags(ab)
    OBVIOUS
  <2>1. PICK i \in 1..m : a[i].tag = t
    BY <1>1 DEF Tags
  <2> QED
    BY <1>3, <2>1
<1>7. Tags(b) \subseteq Tags(ab)
  <2> SUFFICES ASSUME NEW t \in Tags(b) PROVE t \in Tags(ab)
    OBVIOUS
  <2>1. PICK i \in 1..n : b[i].tag = t
    BY <1>1 DEF Tags
  <2> QED
    BY <1>4, <2>1
<1> QED
  BY <1>5, <1>6, <1>7 DEF ab

\* The next relay's nodes go behind the others, and under their tags where these are new.
LEMMA InjectorGrows ==
    ASSUME InputsInv, InjectorInv, buildRelays
    PROVE  InjectorInv'
<1>1. pc = "relays" /\ Building /\ UNCHANGED <<config, nodes, pool>>
  BY DEF buildRelays, inputs, settings, Building
<1>2. CASE Len(relays) = Len(config.relays)
  <2>1. pc' = "assemble" /\ UNCHANGED derived
    BY <1>2 DEF buildRelays, Goto, derived
  <2> QED
    BY <1>1, <1>2, <2>1, InjectorUnmoved
<1>3. CASE Len(relays) # Len(config.relays) /\ pc' = "failed"
  BY <1>3 DEF InjectorInv, Building
<1>4. CASE Len(relays) # Len(config.relays) /\ pc' # "failed"
  <2> DEFINE n == Len(relays)
             g == relayNodes(config.relays[n + 1])
  <2>1. /\ relays' = Append(relays, g) /\ pc' = "relays"
        /\ byTag' = [t \in DOMAIN byTag \cup Tags(g) |-> IF t \in DOMAIN byTag THEN byTag[t] ELSE Indexed(g)[t]]
    BY <1>1, <1>4 DEF buildRelays, Fail, Goto
  <2>2. /\ pool = newPool /\ n \in 0..Len(config.relays)
        /\ relays = [i \in 1..n |-> relayNodes(config.relays[i])]
        /\ byTag \in [Tags(AllRelays) \cup Tags(pool) -> Nodes]
        /\ \A i \in DOMAIN pool : byTag[pool[i].tag] = pool[i]
        /\ \A i \in DOMAIN AllRelays :
             /\ AllRelays[i].tag \notin Tags(pool)
             /\ \A j \in 1..(i - 1) : AllRelays[j].tag # AllRelays[i].tag
             => byTag[AllRelays[i].tag] = AllRelays[i]
    BY <1>1 DEF InjectorInv
  <2>3. /\ config.relays \in Seq(Relays) /\ Len(config.relays) \in Nat
    BY DEF InputsInv, Configs
  <2>4. n \in Nat /\ n + 1 \in 0..Len(config.relays)
    BY <1>4, <2>2, <2>3
  <2>5. pool \in Seq(Nodes) /\ \A i \in 1..Len(pool) : pool[i].tag # None
    BY <2>2, PoolFacts
  <2>6. relays \in Seq(Seq(Nodes)) /\ AllRelays \in Seq(Nodes)
    BY <2>2, <2>4, AllRelaysFacts
  <2>7. g \in Seq(Nodes) /\ \A j, k \in 1..Len(g) : g[j].tag = g[k].tag => j = k
    BY <2>5, RelayFacts
  <2>8. Len(relays') = n + 1 /\ relays' \in Seq(Seq(Nodes)) /\ relays'[n + 1] = g /\ \A i \in 1..n : relays'[i] = relays[i]
    <3> HIDE DEF g
    <3> QED
      BY <2>1, <2>6, <2>7
  <2>9. (relays = [i \in 1..Len(relays) |-> relayNodes(config.relays[i])])'
    <3>1. \A i : relayNodes(config.relays[i])' = relayNodes(config.relays[i])
      BY <1>1, RelayUnmoved
    <3>2. ASSUME NEW i \in 1..(n + 1) PROVE relays'[i] = relayNodes(config.relays[i])
      <4>1. CASE i = n + 1
        BY <2>8, <4>1
      <4>2. CASE i # n + 1
        <5>1. i \in 1..n
          BY <2>4, <4>2
        <5>2. relays[i] = relayNodes(config.relays[i])
          <6>1. \A f : f = [j \in 1..n |-> relayNodes(config.relays[j])] => f[i] = relayNodes(config.relays[i])
            BY <5>1
          <6> QED
            BY <2>2, <6>1
        <5> QED
          BY <2>8, <5>1, <5>2
      <4> QED
        BY <4>1, <4>2
    <3>3. relays' = [i \in 1..(n + 1) |-> relays'[i]]
      BY <2>8
    <3>4. relays' = [i \in 1..(n + 1) |-> relayNodes(config.relays[i])]
      BY <3>2, <3>3
    <3>5. [i \in 1..(n + 1) |-> relayNodes(config.relays[i])] = [i \in 1..(n + 1) |-> relayNodes(config.relays[i])']
      BY <3>1
    <3> QED
      BY <2>8, <3>4, <3>5
  <2> DEFINE old == AllRelays
             new == AllRelays'
             l   == Len(old)
  <2> HIDE DEF g
  <2>10. new = old \o g
    <3>1. Concat(relays') = Concat(relays) \o g
      BY <2>1, <2>6, <2>7, ConcatAppend
    <3> QED
      BY <3>1 DEF AllRelays
  <2>11. Tags(new) = Tags(old) \cup Tags(g)
    BY <2>6, <2>7, <2>10, TagsConcat
  <2> HIDE DEF old, new
  <2>12. old \in Seq(Nodes) /\ DOMAIN byTag = Tags(old) \cup Tags(pool)
    BY <2>2, <2>6 DEF old
  <2>13. Indexed(g) \in [Tags(g) -> Nodes] /\ \A i \in 1..Len(g) : Indexed(g)[g[i].tag] = g[i]
    BY <2>7, IndexedFacts
  <2>14. /\ \A t \in DOMAIN byTag : byTag[t] \in Nodes
         /\ \A i \in DOMAIN pool : byTag[pool[i].tag] = pool[i]
         /\ \A i \in DOMAIN old :
             /\ old[i].tag \notin Tags(pool)
             /\ \A j \in 1..(i - 1) : old[j].tag # old[i].tag
             => byTag[old[i].tag] = old[i]
    BY <2>2 DEF old
  <2>15. byTag' \in [Tags(new) \cup Tags(pool) -> Nodes]
    <3>1. DOMAIN byTag \cup Tags(g) = Tags(new) \cup Tags(pool)
      BY <2>11, <2>12
    <3>2. \A t \in DOMAIN byTag \cup Tags(g) : (IF t \in DOMAIN byTag THEN byTag[t] ELSE Indexed(g)[t]) \in Nodes
      BY <2>13, <2>14
    <3> QED
      BY <2>1, <3>1, <3>2
  <2>16. \A t \in DOMAIN byTag : byTag'[t] = byTag[t]
    BY <2>1
  <2>17. \A i \in DOMAIN pool : byTag'[pool[i].tag] = pool[i]
    BY <2>12, <2>14, <2>16 DEF Tags
  <2>18. ASSUME NEW i \in DOMAIN new, new[i].tag \notin Tags(pool), \A j \in 1..(i - 1) : new[j].tag # new[i].tag
         PROVE  byTag'[new[i].tag] = new[i]
    <3>0. l \in Nat /\ DOMAIN old = 1..l /\ Len(g) \in Nat
      BY <2>7, <2>12
    <3>1. i \in 1..(l + Len(g)) /\ \A k \in 1..(l + Len(g)) : new[k] = IF k <= l THEN old[k] ELSE g[k - l]
      BY <2>7, <2>10, <2>12, <2>18, ConcatProperties
    <3> HIDE DEF l
    <3>2. CASE i <= l
      <4>1. i \in 1..l /\ \A j \in 1..(i - 1) : j \in 1..(l + Len(g)) /\ j <= l
        BY <3>0, <3>1, <3>2
      <4>2. new[i] = old[i] /\ \A j \in 1..(i - 1) : new[j] = old[j]
        BY <3>1, <3>2, <4>1
      <4>3. byTag[old[i].tag] = old[i] /\ old[i].tag \in DOMAIN byTag
        BY <2>12, <2>14, <2>18, <3>0, <4>1, <4>2 DEF Tags
      <4> QED
        BY <2>16, <4>2, <4>3
    <3>3. CASE ~(i <= l)
      <4>1. i - l \in 1..Len(g) /\ new[i] = g[i - l]
        BY <3>0, <3>1, <3>3
      <4>2. new[i].tag \notin Tags(old)
        <5> SUFFICES ASSUME NEW k \in 1..l PROVE old[k].tag # new[i].tag
          BY <3>0 DEF Tags
        <5>1. k \in 1..(i - 1) /\ new[k] = old[k]
          BY <3>0, <3>1, <3>3
        <5> QED
          BY <2>18, <5>1
      <4>3. new[i].tag \notin DOMAIN byTag /\ new[i].tag \in Tags(g)
        <5>1. g[i - l].tag \in Tags(g)
          BY <2>7, <4>1 DEF Tags
        <5> QED
          BY <2>12, <2>18, <4>1, <4>2, <5>1
      <4> QED
        BY <2>1, <2>13, <4>1, <4>3
    <3> QED
      BY <3>2, <3>3
  <2>19. (pool = newPool)'
    BY <1>1, <2>2, PoolUnmoved
  <2>20. (Len(relays) \in 0..Len(config.relays))'
    BY <1>1, <2>4, <2>8
  <2>21. (byTag \in [Tags(AllRelays) \cup Tags(pool) -> Nodes])'
    BY <1>1, <2>15 DEF new, Tags
  <2>22. (\A i \in DOMAIN pool : byTag[pool[i].tag] = pool[i])'
    BY <1>1, <2>17
  <2>23. (\A i \in DOMAIN AllRelays :
             /\ AllRelays[i].tag \notin Tags(pool)
             /\ \A j \in 1..(i - 1) : AllRelays[j].tag # AllRelays[i].tag
             => byTag[AllRelays[i].tag] = AllRelays[i])'
    BY <1>1, <2>18 DEF new, Tags
  <2> QED
    BY <2>1, <2>9, <2>19, <2>20, <2>21, <2>22, <2>23 DEF InjectorInv, Building
<1> QED
  BY <1>2, <1>3, <1>4

\* The injector is what its inputs make of it, from the pool on to the last output.
LEMMA InjectorInvariant == Spec => []InjectorInv
<1>1. Init => InjectorInv
  BY DEF Init, InjectorInv, Building
<1>2. InputsInv /\ InjectorInv /\ [Next]_vars => InjectorInv'
  <2> SUFFICES ASSUME InputsInv, InjectorInv, [Next]_vars PROVE InjectorInv'
    OBVIOUS
  <2>1. CASE newInjector
    BY <2>1, InjectorStarts
  <2>2. CASE buildRelays
    BY <2>2, InjectorGrows
  <2>3. CASE LoadBootstrap \/ Load \/ Resolve \/ LoadModules
    <3>1. relays' = relays /\ pc \in {"boot", "load", "resolve", "modules"} /\ ~Building'
      BY <2>3 DEF LoadBootstrap, Load, Resolve, LoadModules, derived, Goto, Fail, Building
    <3> QED
      BY <3>1 DEF InjectorInv
  <2>4. CASE assemble \/ inject \/ closeOverDetours \/ insert \/ finish
    <3>1. /\ UNCHANGED <<config, nodes, derived>> /\ pc \in {"assemble", "inject", "close", "finish"}
          /\ pc' \in {"assemble", "inject", "close", "finish", "done", "failed"}
      BY <2>4 DEF assemble, inject, closeOverDetours, insert, finish, inputs, settings, Goto, Fail
    <3>2. Building /\ Len(relays) = Len(config.relays)
      BY <3>1 DEF Building, InjectorInv
    <3> QED
      BY <3>1, <3>2, InjectorUnmoved
  <2>5. CASE Ended \/ UNCHANGED vars
    <3>1. UNCHANGED <<config, nodes, pc, derived>>
      BY <2>5 DEF Ended, vars, inputs, settings
    <3>2. CASE Building
      <4>1. Building' => Len(relays) = Len(config.relays) \/ pc' = "relays"
        BY <3>1 DEF InjectorInv, Building
      <4>2. pc' \notin {"boot", "load", "resolve", "modules", "pool"}
        BY <3>1, <3>2 DEF Building
      <4> QED
        BY <3>1, <3>2, <4>1, <4>2, InjectorUnmoved
    <3>3. CASE ~Building
      BY <3>1, <3>3 DEF InjectorInv, Building, derived
    <3> QED
      BY <3>2, <3>3
  <2> QED
    BY <2>1, <2>2, <2>3, <2>4, <2>5 DEF Next, Step
<1> QED
  BY <1>1, <1>2, InputsInvariant, PTL DEF Spec

\* In an output whose modules are all JSON objects.
InHand ==
    /\ InputsInv /\ LoadConfig(config)
    /\ out \in DOMAIN config.configs /\ \A m \in Range(cf.modules) : Decoded(m)

\* An output of an accepted configuration uses modules that are configured.
LEMMA ConfigFileFacts ==
    ASSUME InputsInv, LoadConfig(config), out \in DOMAIN config.configs
    PROVE  /\ cf \in ConfigFiles /\ cf.modules \in Seq(Text)
           /\ Range(cf.modules) \subseteq NamesOf(config.modules)
<1>1. config.configs \in Seq(ConfigFiles) /\ cf \in Range(config.configs)
  BY DEF InputsInv, Configs, cf, Range
<1>2. cf \in ConfigFiles
  BY <1>1 DEF cf
<1>3. Range(cf.modules) \subseteq NamesOf(config.modules)
  BY <1>1 DEF LoadConfig, Validate, validateConfigs
<1> HIDE DEF cf
<1> QED
  BY <1>2, <1>3 DEF ConfigFiles

\* The document that is assembled has entries in its arrays.
LEMMA AssembledFacts ==
    ASSUME InHand
    PROVE  IsDocument(Assembled)
<1> SUFFICES ASSUME NEW k \in DOMAIN Assembled, Assembled[k].kind = "array"
             PROVE  /\ Assembled[k].items \in Seq(Entries)
                    /\ \A i \in DOMAIN Assembled[k].items :
                         Assembled[k].items[i].kind # "object" => Assembled[k].items[i].tag = None
  BY DEF IsDocument
<1> DEFINE m == CHOOSE m \in Range(cf.modules) : k \in KeysOf(m)
<1>1. Assembled[k] = files[m].doc[k] /\ \E n \in Range(cf.modules) : k \in KeysOf(n)
  BY DEF Assembled
<1>2. m \in Range(cf.modules) /\ k \in KeysOf(m)
  BY <1>1
<1> HIDE DEF m
<1>3. m \in DOMAIN files
  BY <1>2, ConfigFileFacts DEF InHand, InputsInv
<1>4. IsFile(files[m]) /\ files[m].kind = "object"
  BY <1>2, <1>3 DEF InHand, InputsInv, Decoded
<1>5. IsDocument(files[m].doc)
  BY <1>4 DEF IsFile
<1> QED
  BY <1>1, <1>2, <1>5 DEF IsDocument, KeysOf

\* The items of a document are entries; what is no object has no tag.
LEMMA ItemsFacts ==
    ASSUME NEW d, IsDocument(d), NEW k
    PROVE  /\ Items(d, k) \in Seq(Entries)
           /\ \A i \in 1..Len(Items(d, k)) : Items(d, k)[i].kind # "object" => Items(d, k)[i].tag = None
<1>1. CASE k \in DOMAIN d /\ d[k].kind = "array"
  <2>1. Items(d, k) = d[k].items
    BY <1>1 DEF Items
  <2>2. Items(d, k) \in Seq(Entries) /\ \A i \in DOMAIN Items(d, k) : Items(d, k)[i].kind # "object" => Items(d, k)[i].tag = None
    BY <1>1, <2>1 DEF IsDocument
  <2> QED
    BY <2>2
<1>2. CASE ~(k \in DOMAIN d /\ d[k].kind = "array")
  BY <1>2 DEF Items
<1> QED
  BY <1>1, <1>2

\* The rules of an output's modules are rules of the configuration.
LEMMA RulesFacts ==
    ASSUME InputsInv, LoadConfig(config), out \in DOMAIN config.configs
    PROVE  rulesFor \in Seq(SelectorRules)
<1>1. cf.modules \in Seq(Text) /\ Range(cf.modules) \subseteq NamesOf(config.modules)
  BY ConfigFileFacts
<1>2. config.modules \in Seq(Modules)
  BY DEF InputsInv, Configs
<1> DEFINE own(i) == Find(config.modules, cf.modules[i]).selectors
           lists == [i \in DOMAIN cf.modules |-> own(i)]
<1>3. ASSUME NEW i \in DOMAIN cf.modules PROVE own(i) \in Seq(SelectorRules)
  <2>1. cf.modules[i] \in NamesOf(config.modules)
    BY <1>1 DEF Range
  <2>2. \E j \in DOMAIN config.modules : config.modules[j].name = cf.modules[i]
    BY <2>1 DEF NamesOf
  <2>3. Find(config.modules, cf.modules[i]) \in Modules
    BY <1>2, <2>2 DEF Find
  <2> QED
    BY <2>3 DEF Modules
<1>4. DOMAIN cf.modules = 1..Len(cf.modules) /\ Len(cf.modules) \in Nat
  BY <1>1
<1> HIDE DEF own, cf
<1>5. lists \in Seq(Seq(SelectorRules))
  BY <1>3, <1>4
<1>6. rulesFor = Concat(lists)
  BY DEF rulesFor, own
<1> HIDE DEF lists
<1> QED
  BY <1>5, <1>6, ConcatElements

\* What a rule adds is found by its tag.
LEMMA MembersFacts ==
    ASSUME InputsInv, InjectorInv, Building, pc # "relays", NEW rule \in SelectorRules
    PROVE  /\ members(rule) \in Seq(Nodes)
           /\ Tags(members(rule)) \subseteq DOMAIN byTag
           /\ \E chains \in Seq(Nodes) : Tags(chains) \subseteq Tags(AllRelays) /\ members(rule) = chains \o resolve(rule)
<1>1. /\ pool = newPool /\ Len(relays) = Len(config.relays) /\ Len(relays) \in Nat
      /\ relays = [i \in 1..Len(relays) |-> relayNodes(config.relays[i])]
      /\ DOMAIN byTag = Tags(AllRelays) \cup Tags(pool)
  BY DEF InjectorInv, InputsInv, Configs
<1>2. pool \in Seq(Nodes)
  BY <1>1, PoolFacts
<1>3. relays \in Seq(Seq(Nodes)) /\ AllRelays \in Seq(Nodes)
  BY <1>1, AllRelaysFacts
<1> DEFINE own(i) == IF config.relays[i].name \in Range(rule.relays) THEN relays[i] ELSE <<>>
           lists == [i \in DOMAIN config.relays |-> own(i)]
           chains == Concat(lists)
           taken == resolve(rule)
<1>4. DOMAIN config.relays = 1..Len(relays)
  BY <1>1 DEF InputsInv, Configs
<1>5. \A i \in 1..Len(relays) : own(i) \in Seq(Nodes) /\ (own(i) = relays[i] \/ own(i) = <<>>)
  BY <1>3
<1>6. members(rule) = chains \o taken
  BY DEF members
<1> HIDE DEF own
<1>7. lists \in Seq(Seq(Nodes)) /\ Len(lists) = Len(relays) /\ \A i \in 1..Len(relays) : lists[i] = own(i)
  BY <1>1, <1>4, <1>5
<1> HIDE DEF lists
<1>8. /\ chains \in Seq(Nodes)
      /\ \A k \in 1..Len(chains) : \E a \in 1..Len(lists) : \E b \in 1..Len(lists[a]) : chains[k] = lists[a][b]
  <2>1. lists \in Seq(Seq(Nodes))
    BY <1>7
  <2> QED
    BY <2>1, ConcatElements
<1>9. taken \in Seq(Nodes) /\ \A k \in 1..Len(taken) : \E i \in 1..Len(pool) : taken[k] = pool[i]
  BY <1>2, ResolveFacts
<1>10. \A a \in 1..Len(relays) : \A b \in 1..Len(relays[a]) : \E k \in 1..Len(AllRelays) : AllRelays[k] = relays[a][b]
  BY <1>3, ConcatElements DEF AllRelays
<1> HIDE DEF chains, taken
<1>11. ASSUME NEW k \in 1..Len(chains) PROVE chains[k].tag \in Tags(AllRelays)
  <2>1. PICK a \in 1..Len(lists) : \E b \in 1..Len(lists[a]) : chains[k] = lists[a][b]
    BY <1>8
  <2>2. PICK b \in 1..Len(lists[a]) : chains[k] = lists[a][b]
    BY <2>1
  <2>3. a \in 1..Len(relays) /\ lists[a] = own(a)
    BY <1>7
  <2>4. own(a) # <<>>
    BY <2>2, <2>3
  <2>5. own(a) = relays[a]
    BY <1>5, <2>3, <2>4
  <2>6. PICK j \in 1..Len(AllRelays) : AllRelays[j] = relays[a][b]
    BY <1>10, <2>2, <2>3, <2>5
  <2>7. AllRelays[j].tag \in Tags(AllRelays)
    BY <1>3 DEF Tags
  <2> QED
    BY <2>2, <2>3, <2>5, <2>6, <2>7
<1>12. ASSUME NEW k \in 1..Len(taken) PROVE taken[k].tag \in Tags(pool)
  BY <1>2, <1>9 DEF Tags
<1>13. Tags(chains) \subseteq Tags(AllRelays)
  BY <1>8, <1>11 DEF Tags
<1>14. Tags(taken) \subseteq Tags(pool)
  BY <1>9, <1>12 DEF Tags
<1>15. chains \o taken \in Seq(Nodes) /\ Tags(chains \o taken) = Tags(chains) \cup Tags(taken)
  BY <1>8, <1>9, TagsConcat
<1>16. \E c \in Seq(Nodes) : Tags(c) \subseteq Tags(AllRelays) /\ members(rule) = c \o resolve(rule)
  BY <1>6, <1>8, <1>13 DEF taken
<1> QED
  BY <1>1, <1>6, <1>13, <1>14, <1>15, <1>16

\* The tags of the rules' members are tags of the injector.
LEMMA WantedFacts ==
    ASSUME InHand, InjectorInv, Building, pc # "relays"
    PROVE  /\ rulesFor \in Seq(SelectorRules) /\ Wanted \subseteq DOMAIN byTag /\ None \notin DOMAIN byTag
           /\ \A n \in 1..Len(rulesFor) : members(rulesFor[n]) \in Seq(Nodes) /\ Tags(members(rulesFor[n])) \subseteq Wanted
<1>1. rulesFor \in Seq(SelectorRules)
  BY RulesFacts DEF InHand
<1>2. \A rule \in Range(rulesFor) : rule \in SelectorRules
  BY <1>1 DEF Range
<1>3. \A rule \in Range(rulesFor) : members(rule) \in Seq(Nodes) /\ Tags(members(rule)) \subseteq DOMAIN byTag
  BY <1>2, MembersFacts DEF InHand
<1>4. Wanted \subseteq DOMAIN byTag
  BY <1>3 DEF Wanted
<1>5. None \notin DOMAIN byTag
  <2>1. /\ pool = newPool /\ Len(relays) \in Nat /\ relays = [i \in 1..Len(relays) |-> relayNodes(config.relays[i])]
        /\ DOMAIN byTag = Tags(AllRelays) \cup Tags(pool)
    BY DEF InjectorInv
  <2>2. pool \in Seq(Nodes) /\ \A i \in 1..Len(pool) : pool[i].tag # None
    BY <2>1, PoolFacts DEF InHand
  <2>3. AllRelays \in Seq(Nodes) /\ \A i \in 1..Len(AllRelays) : AllRelays[i].tag # None
    BY <2>1, AllRelaysFacts DEF InHand
  <2>4. None \notin Tags(pool)
    BY <2>2 DEF Tags
  <2>5. None \notin Tags(AllRelays)
    BY <2>3 DEF Tags
  <2> QED
    BY <2>1, <2>4, <2>5
<1>6. \A n \in 1..Len(rulesFor) : rulesFor[n] \in Range(rulesFor)
  BY <1>1 DEF Range
<1>7. \A rule \in Range(rulesFor) : Tags(members(rule)) \subseteq Wanted
  BY DEF Wanted
<1> QED
  BY <1>1, <1>3, <1>4, <1>5, <1>6, <1>7

\* Two entries are one but for their members.
SameEntry(a, b) == a.kind = b.kind /\ a.tag = b.tag /\ a.type = b.type /\ a.detour = b.detour

\* The tags of a list's first nodes, and the places of those that are new.
FirstTags(list) == [i \in DOMAIN FirstOfTag(list) |-> FirstOfTag(list)[i].tag]
NewPlaces(object, list) == {i \in DOMAIN FirstOfTag(list) : FirstOfTag(list)[i].tag \notin Range(object.members)}

\* What addMembers adds, said by the places of the new tags.
LEMMA FreshDef ==
    ASSUME NEW object, NEW list
    PROVE  Fresh(object, list) = Select(FirstTags(list), NewPlaces(object, list))
BY DEF Fresh, Once, FirstTags, NewPlaces

\* addMembers appends tags of its list's nodes, each that is no member yet.
LEMMA FreshFacts ==
    ASSUME NEW object, NEW list \in Seq(Nodes)
    PROVE  /\ Fresh(object, list) \in Seq(TagType)
           /\ Range(Fresh(object, list)) \subseteq Tags(list)
           /\ \A t \in Tags(list) : t \in Range(object.members) \cup Range(Fresh(object, list))
           /\ Range(Fresh(object, list)) \cap Range(object.members) = {}
<1> DEFINE first == FirstOfTag(list)
           tags == FirstTags(list)
           I == NewPlaces(object, list)
           fresh == Fresh(object, list)
<1>1. first \in Seq(Nodes) /\ Tags(first) = Tags(list)
  BY FirstOfTagFacts
<1>2. fresh = Select(tags, I)
  BY FreshDef
<1>3. tags = [i \in DOMAIN first |-> first[i].tag] /\ I = {i \in DOMAIN first : first[i].tag \notin Range(object.members)}
  BY DEF FirstTags, NewPlaces
<1> HIDE DEF first, tags, I, fresh
<1>4. DOMAIN first = 1..Len(first) /\ Len(first) \in Nat /\ \A i \in 1..Len(first) : first[i].tag \in TagType
  <2>1. DOMAIN first = 1..Len(first) /\ Len(first) \in Nat /\ \A i \in 1..Len(first) : first[i] \in Nodes
    BY <1>1
  <2>2. \A n \in Nodes : n.tag \in TagType
    BY DEF Nodes
  <2> QED
    BY <2>1, <2>2
<1>5. tags \in Seq(TagType) /\ Len(tags) = Len(first) /\ \A i \in 1..Len(first) : tags[i] = first[i].tag
  BY <1>3, <1>4
<1>6. /\ Select(tags, I) \in Seq(TagType)
      /\ \A k \in 1..Len(Select(tags, I)) : \E i \in 1..Len(tags) : i \in I /\ Select(tags, I)[k] = tags[i]
      /\ \A i \in 1..Len(tags) : i \in I => \E k \in 1..Len(Select(tags, I)) : Select(tags, I)[k] = tags[i]
  BY <1>5, SelectElements
<1>7. DOMAIN fresh = 1..Len(fresh)
  BY <1>2, <1>6
<1>8. ASSUME NEW k \in 1..Len(fresh) PROVE fresh[k] \in Tags(list) /\ fresh[k] \notin Range(object.members)
  <2>1. PICK i \in 1..Len(tags) : i \in I /\ fresh[k] = tags[i]
    BY <1>2, <1>6
  <2>2. i \in DOMAIN first /\ fresh[k] = first[i].tag /\ first[i].tag \notin Range(object.members)
    BY <1>3, <1>4, <1>5, <2>1
  <2>3. first[i].tag \in Tags(first)
    BY <2>2 DEF Tags
  <2> QED
    BY <1>1, <2>2, <2>3
<1>9. ASSUME NEW t \in Tags(list), t \notin Range(object.members) PROVE t \in Range(fresh)
  <2>1. PICK i \in DOMAIN first : first[i].tag = t
    BY <1>1 DEF Tags
  <2>2. i \in I /\ i \in 1..Len(tags) /\ tags[i] = t
    BY <1>3, <1>4, <1>5, <1>9, <2>1
  <2>3. PICK k \in 1..Len(fresh) : fresh[k] = t
    BY <1>2, <1>6, <2>2
  <2> QED
    BY <1>7, <2>3 DEF Range
<1>10. Range(fresh) \subseteq Tags(list) /\ Range(fresh) \cap Range(object.members) = {}
  BY <1>7, <1>8 DEF Range
<1> QED
  BY <1>2, <1>6, <1>9, <1>10 DEF fresh

\* It changes nothing but the members.
LEMMA AddMembersFacts ==
    ASSUME NEW object \in Entries, NEW list \in Seq(Nodes)
    PROVE  /\ addMembers(object, list) \in Entries
           /\ SameEntry(addMembers(object, list), object)
           /\ addMembers(object, list).members = object.members \o Fresh(object, list)
           /\ Range(addMembers(object, list).members) = Range(object.members) \cup Range(Fresh(object, list))
<1> DEFINE fresh == Fresh(object, list)
           both == object.members \o fresh
<1>1. fresh \in Seq(TagType) /\ object.members \in Seq(TagType)
  BY FreshFacts DEF Entries
<1>2. addMembers(object, list) = [object EXCEPT !.members = both]
  BY DEF addMembers
<1> HIDE DEF fresh
<1>3. both \in Seq(TagType)
  BY <1>1
<1>4. Range(both) = Range(object.members) \cup Range(fresh)
  BY <1>1, RangeConcatenation
<1> HIDE DEF both
<1>5. addMembers(object, list) \in Entries /\ addMembers(object, list).members = both /\ SameEntry(addMembers(object, list), object)
  BY <1>2, <1>3 DEF Entries, SameEntry
<1> QED
  BY <1>4, <1>5 DEF both, fresh

\* A rule changes the first of the objects it names, and only its members.
LEMMA ApplyRuleFacts ==
    ASSUME NEW list \in Seq(Entries), NEW rule, members(rule) \in Seq(Nodes),
           \E i \in 1..Len(list) : IsNamed(list[i], rule.tag)
    PROVE  /\ applyRule(list, rule) \in Seq(Entries) /\ Len(applyRule(list, rule)) = Len(list)
           /\ \E m \in 1..Len(list) :
                /\ IsNamed(list[m], rule.tag)
                /\ applyRule(list, rule)[m] = addMembers(list[m], members(rule))
                /\ \A i \in 1..Len(list) : i # m => applyRule(list, rule)[i] = list[i]
<1> DEFINE named == {j \in DOMAIN list : IsNamed(list[j], rule.tag)}
           m == Min(named)
           more == addMembers(list[m], members(rule))
           new == applyRule(list, rule)
<1>1. named \subseteq Nat /\ named # {} /\ DOMAIN list = 1..Len(list) /\ Len(list) \in Nat
  OBVIOUS
<1>2. new = [list EXCEPT ![m] = more]
  BY DEF applyRule, Once
<1>3. m \in named
  BY <1>1, MinFacts
<1>4. m \in 1..Len(list) /\ IsNamed(list[m], rule.tag)
  BY <1>1, <1>3
<1> HIDE DEF m, new
<1>5. more \in Entries
  BY <1>4, AddMembersFacts
<1> HIDE DEF more
<1>6. /\ new \in Seq(Entries) /\ Len(new) = Len(list)
      /\ new[m] = more /\ \A i \in 1..Len(list) : i # m => new[i] = list[i]
  BY <1>1, <1>2, <1>4, <1>5
<1>7. \E x \in 1..Len(list) :
        /\ IsNamed(list[x], rule.tag)
        /\ new[x] = addMembers(list[x], members(rule))
        /\ \A i \in 1..Len(list) : i # x => new[i] = list[i]
  BY <1>4, <1>6 DEF more
<1> QED
  BY <1>6, <1>7 DEF new

\* The loop over the rules is defined for every list of them.
LEMMA AppliedIsRecursive ==
    ASSUME NEW list, NEW rules \in Seq(SelectorRules)
    PROVE  Applied(list, rules) =
             [k \in 0..Len(rules) |-> IF k = 0 THEN list ELSE applyRule(Applied(list, rules)[k - 1], rules[k])]
<1> DEFINE Stage(f, k) == applyRule(f[k - 1], rules[k])
           Rec(f, n) == f = [k \in 0..n |-> IF k = 0 THEN list ELSE Stage(f, k)]
           T == {n \in Nat : \E f : Rec(f, n)}
<1>1. 0 \in T
  <2>1. Rec([k \in 0..0 |-> list], 0)
    OBVIOUS
  <2> QED
    BY <2>1
<1>2. ASSUME NEW n \in Nat, n \in T PROVE n + 1 \in T
  <2>1. PICK f : Rec(f, n)
    BY <1>2
  <2> DEFINE g == [k \in 0..(n + 1) |-> IF k = n + 1 THEN Stage(f, n + 1) ELSE f[k]]
  <2>2. \A k \in 0..n : f[k] = IF k = 0 THEN list ELSE Stage(f, k)
    BY <2>1
  <2>3. ASSUME NEW k \in 0..(n + 1) PROVE g[k] = IF k = 0 THEN list ELSE Stage(g, k)
    <3>1. CASE k = n + 1
      <4>1. k - 1 = n /\ k # 0 /\ g[n] = f[n]
        BY <3>1
      <4> QED
        BY <3>1, <4>1
    <3>2. CASE k # n + 1 /\ k # 0
      <4>1. k \in 0..n /\ k - 1 \in 0..n
        BY <3>2
      <4>2. g[k] = f[k] /\ g[k - 1] = f[k - 1]
        BY <4>1
      <4> QED
        BY <2>2, <3>2, <4>1, <4>2
    <3>3. CASE k = 0
      BY <2>2, <3>3
    <3> QED
      BY <3>1, <3>2, <3>3
  <2>4. Rec(g, n + 1)
    BY <2>3
  <2> HIDE DEF g, Rec
  <2>5. \E h : Rec(h, n + 1)
    BY <2>4
  <2> QED
    BY <2>5
<1> HIDE DEF T
<1>3. Len(rules) \in T
  BY <1>1, <1>2, NaturalInduction
<1>4. \E f : Rec(f, Len(rules))
  BY <1>3 DEF T
<1>5. Rec(Applied(list, rules), Len(rules))
  BY <1>4 DEF Applied
<1> QED
  BY <1>5

\* Of entries that rules have been applied to: what they are but for their members, whose
\* these are, and, of one that a single rule names, what these are.
AppliedUpTo(list, applied) ==
    /\ applied \in Seq(Entries) /\ Len(applied) = Len(list)
    /\ \A i \in 1..Len(list) :
         /\ SameEntry(applied[i], list[i])
         /\ Range(list[i].members) \subseteq Range(applied[i].members)
         /\ Range(applied[i].members) \subseteq Range(list[i].members) \cup Wanted
         /\ \A r \in SelectorRules :
              (\A n \in 1..Len(rulesFor) : IsNamed(list[i], rulesFor[n].tag) => rulesFor[n] = r) =>
                 \/ applied[i].members = list[i].members
                 \/ applied[i].members = list[i].members \o Fresh(list[i], members(r))

\* One rule more.
LEMMA AppliedNext ==
    ASSUME InHand, InjectorInv, Building, pc # "relays", NEW list \in Seq(Entries),
           \A n \in 1..Len(rulesFor) : \E i \in 1..Len(list) : IsNamed(list[i], rulesFor[n].tag),
           NEW old, AppliedUpTo(list, old), NEW n \in 1..Len(rulesFor)
    PROVE  AppliedUpTo(list, applyRule(old, rulesFor[n]))
<1> DEFINE rule == rulesFor[n]
           new == applyRule(old, rule)
           chosen == members(rule)
<1>0. /\ rulesFor \in Seq(SelectorRules) /\ rule \in SelectorRules
      /\ chosen \in Seq(Nodes) /\ Tags(chosen) \subseteq Wanted
  BY WantedFacts
<1>1. /\ old \in Seq(Entries) /\ Len(old) = Len(list)
      /\ \A i \in 1..Len(list) : SameEntry(old[i], list[i])
  BY DEF AppliedUpTo
<1>2. \A i \in 1..Len(list) : IsNamed(old[i], rule.tag) <=> IsNamed(list[i], rule.tag)
  BY <1>1 DEF SameEntry, IsNamed
<1>3. \E i \in 1..Len(old) : IsNamed(old[i], rule.tag)
  BY <1>1, <1>2
<1> HIDE DEF chosen
<1>4. /\ new \in Seq(Entries) /\ Len(new) = Len(list)
      /\ \E m \in 1..Len(list) :
           /\ IsNamed(old[m], rule.tag)
           /\ new[m] = addMembers(old[m], chosen)
           /\ \A i \in 1..Len(list) : i # m => new[i] = old[i]
  <2>1. members(rule) \in Seq(Nodes)
    BY <1>0 DEF chosen
  <2> QED
    BY <1>1, <1>3, <2>1, ApplyRuleFacts DEF chosen
<1>5. PICK m \in 1..Len(list) :
           /\ IsNamed(old[m], rule.tag)
           /\ new[m] = addMembers(old[m], chosen)
           /\ \A i \in 1..Len(list) : i # m => new[i] = old[i]
  BY <1>4
<1> HIDE DEF new
<1> DEFINE fresh == Fresh(old[m], chosen)
<1>6. /\ SameEntry(new[m], old[m])
      /\ new[m].members = old[m].members \o fresh
      /\ Range(new[m].members) = Range(old[m].members) \cup Range(fresh)
  <2>1. old[m] \in Entries
    BY <1>1
  <2> QED
    BY <1>0, <1>5, <2>1, AddMembersFacts
<1>7. /\ fresh \in Seq(TagType) /\ Range(fresh) \subseteq Tags(chosen)
      /\ Range(fresh) \cap Range(old[m].members) = {}
  BY <1>0, FreshFacts
<1> HIDE DEF fresh
<1>8. SameEntry(new[m], list[m])
  BY <1>1, <1>6 DEF SameEntry
<1>9. Range(new[m].members) \subseteq Range(list[m].members) \cup Wanted
  <2>1. Range(old[m].members) \subseteq Range(list[m].members) \cup Wanted
    BY DEF AppliedUpTo
  <2> QED
    BY <1>0, <1>6, <1>7, <2>1
<1>10. Range(list[m].members) \subseteq Range(new[m].members)
  <2>1. Range(list[m].members) \subseteq Range(old[m].members)
    BY DEF AppliedUpTo
  <2> QED
    BY <1>6, <2>1
<1>11. ASSUME NEW r \in SelectorRules,
              \A k \in 1..Len(rulesFor) : IsNamed(list[m], rulesFor[k].tag) => rulesFor[k] = r
       PROVE  \/ new[m].members = list[m].members
              \/ new[m].members = list[m].members \o Fresh(list[m], members(r))
  <2>1. rule = r
    BY <1>2, <1>5, <1>11
  <2>2. members(r) = chosen
    BY <2>1 DEF chosen
  <2>3. \/ old[m].members = list[m].members
        \/ old[m].members = list[m].members \o Fresh(list[m], members(r))
    BY <1>11 DEF AppliedUpTo
  <2>4. list[m] \in Entries /\ old[m].members \in Seq(TagType)
    <3>1. old[m] \in Entries
      BY <1>1
    <3>2. \A e \in Entries : e.members \in Seq(TagType)
      BY DEF Entries
    <3> QED
      BY <3>1, <3>2
  <2>5. CASE old[m].members = list[m].members
    <3>1. fresh = Fresh(list[m], chosen)
      <4>1. NewPlaces(old[m], chosen) = NewPlaces(list[m], chosen)
        BY <2>5 DEF NewPlaces
      <4> QED
        BY <4>1, FreshDef DEF fresh
    <3> QED
      BY <1>6, <2>2, <2>5, <3>1
  <2>6. CASE old[m].members = list[m].members \o Fresh(list[m], members(r))
    <3>1. Tags(chosen) \subseteq Range(old[m].members)
      <4>1. \A t \in Tags(chosen) : t \in Range(list[m].members) \cup Range(Fresh(list[m], chosen))
        BY <1>0, FreshFacts
      <4>2. Fresh(list[m], chosen) \in Seq(TagType) /\ list[m].members \in Seq(TagType)
        BY <1>0, <2>4, FreshFacts DEF Entries
      <4>3. Range(list[m].members \o Fresh(list[m], chosen)) = Range(list[m].members) \cup Range(Fresh(list[m], chosen))
        BY <4>2, RangeConcatenation
      <4> QED
        BY <2>2, <2>6, <4>1, <4>3
    <3>2. Range(fresh) = {}
      BY <1>7, <3>1
    <3>3. fresh = <<>>
      <4>1. fresh \in Seq(TagType)
        BY <1>7
      <4>2. DOMAIN fresh = {}
        BY <3>2 DEF Range
      <4> QED
        BY <4>1, <4>2
    <3>4. new[m].members = old[m].members
      BY <1>6, <2>4, <3>3
    <3> QED
      BY <2>6, <3>4
  <2> QED
    BY <2>3, <2>5, <2>6
<1>12. ASSUME NEW i \in 1..Len(list)
       PROVE  /\ SameEntry(new[i], list[i])
              /\ Range(list[i].members) \subseteq Range(new[i].members)
              /\ Range(new[i].members) \subseteq Range(list[i].members) \cup Wanted
              /\ \A r \in SelectorRules :
                   (\A k \in 1..Len(rulesFor) : IsNamed(list[i], rulesFor[k].tag) => rulesFor[k] = r) =>
                      \/ new[i].members = list[i].members
                      \/ new[i].members = list[i].members \o Fresh(list[i], members(r))
  <2>1. CASE i = m
    BY <1>8, <1>9, <1>10, <1>11, <2>1
  <2>2. CASE i # m
    BY <1>5, <2>2 DEF AppliedUpTo
  <2> QED
    BY <2>1, <2>2
<1>13. AppliedUpTo(list, new)
  BY <1>4, <1>12 DEF AppliedUpTo, new
<1> QED
  BY <1>13 DEF new

\* All rules of an output.
LEMMA AppliedFacts ==
    ASSUME InHand, InjectorInv, Building, pc # "relays", NEW list \in Seq(Entries),
           \A n \in 1..Len(rulesFor) : \E i \in 1..Len(list) : IsNamed(list[i], rulesFor[n].tag)
    PROVE  AppliedUpTo(list, Applied(list, rulesFor)[Len(rulesFor)])
<1> DEFINE K == Applied(list, rulesFor)
           T == {n \in Nat : n <= Len(rulesFor) => AppliedUpTo(list, K[n])}
<1>a. rulesFor \in Seq(SelectorRules) /\ Len(rulesFor) \in Nat
  BY WantedFacts
<1>b. K = [k \in 0..Len(rulesFor) |-> IF k = 0 THEN list ELSE applyRule(K[k - 1], rulesFor[k])]
  BY <1>a, AppliedIsRecursive
<1> HIDE DEF K
<1>c. K[0] = list /\ \A n \in 1..Len(rulesFor) : K[n] = applyRule(K[n - 1], rulesFor[n])
  <2>1. K[0] = list
    BY <1>a, <1>b
  <2>2. ASSUME NEW n \in 1..Len(rulesFor) PROVE K[n] = applyRule(K[n - 1], rulesFor[n])
    <3>1. n \in 0..Len(rulesFor) /\ n # 0
      BY <1>a
    <3> QED
      BY <1>b, <3>1
  <2> QED
    BY <2>1, <2>2
<1>1. 0 \in T
  <2>1. AppliedUpTo(list, list)
    BY DEF AppliedUpTo, SameEntry
  <2> QED
    BY <1>c, <2>1
<1>2. ASSUME NEW n \in Nat, n \in T PROVE n + 1 \in T
  <2> SUFFICES ASSUME n + 1 <= Len(rulesFor) PROVE AppliedUpTo(list, K[n + 1])
    OBVIOUS
  <2>1. PICK m \in Nat : m = n + 1
    OBVIOUS
  <2>2. m \in 1..Len(rulesFor) /\ m - 1 = n /\ AppliedUpTo(list, K[n])
    BY <1>2, <1>a, <2>1
  <2>3. AppliedUpTo(list, applyRule(K[n], rulesFor[m]))
    BY <2>2, AppliedNext
  <2> QED
    BY <1>c, <2>1, <2>2, <2>3
<1> HIDE DEF T
<1>3. Len(rulesFor) \in T
  BY <1>1, <1>2, <1>a, NaturalInduction
<1> QED
  BY <1>3, <1>a DEF T, K

\* The document after the rules of its modules.
Ruled == WithItems(Assembled, "outbounds", Applied(Items(Assembled, "outbounds"), rulesFor)[Len(rulesFor)])

\* A node whose upstream is where it has to be.
Settled(tag) == byTag[tag].detour \in needed \cup (present \ DOMAIN byTag) \cup {None}

\* needed lies between what the rules name and what they reach, and what is not in the
\* queue is settled.
ClosureInv ==
    /\ rulesFor # <<>>
    /\ \A rule \in Range(rulesFor) : \E o \in Range(Items(Assembled, "outbounds")) : IsNamed(o, rule.tag)
    /\ present = Literal
    /\ Wanted \subseteq needed /\ needed \subseteq Reached
    /\ todo \subseteq needed /\ \A tag \in needed \ todo : Settled(tag)

\* The document in hand at each step of an output.
DocumentInv ==
    /\ out \in Nat \ {0}
    /\ pc \in {"inject", "close", "finish"} => out \in DOMAIN config.configs /\ \A m \in Range(cf.modules) : Decoded(m)
    /\ pc = "inject" => doc = Assembled
    /\ pc = "close" => doc = Ruled /\ ClosureInv
    /\ pc = "finish" /\ rulesFor # <<>> => doc = Inserted(Ruled, added) /\ todo = {} /\ ClosureInv

\* What the module files make of an output depends on nothing but them.
LEMMA DocumentUnmoved ==
    ASSUME UNCHANGED <<config, files, out>>
    PROVE  Assembled' = Assembled /\ rulesFor' = rulesFor /\ Literal' = Literal
BY DEF Assembled, KeysOf, cf, Range, rulesFor, Find, Concat, Joined, Once, Literal, documentTags, ItemsOf, Items

\* What the rules of an output name depends on nothing but them and the injector.
LEMMA WantedUnmoved ==
    ASSUME UNCHANGED <<config, files, out, pool, relays, byTag>>
    PROVE  Wanted' = Wanted /\ Reached' = Reached
BY DEF Wanted, Reached, Reaches, rulesFor, Find, cf, members, resolve, From, Enabled, Concat, Joined, Once, Select, Selected,
       Range, belongsTo, matches, Hit, Tags

\* The document after its rules depends on nothing but them and the injector.
LEMMA RuledUnmoved ==
    ASSUME UNCHANGED <<config, files, out, pool, relays>>
    PROVE  Ruled' = Ruled
BY DEF Ruled, WithItems, Applied, applyRule, addMembers, Fresh, FirstOfTag, IsNamed, Min,
       Assembled, KeysOf, Items,
       rulesFor, Find, cf, members, resolve, From, Enabled, Concat, Joined, Once, Select, Selected,
       Range, belongsTo, matches, Hit, Tags

\* What is to be inserted depends on nothing but the injector and the two maps.
LEMMA AddedUnmoved ==
    ASSUME UNCHANGED <<pool, relays, needed, present>>
    PROVE  added' = added
BY DEF added, AsItem, FirstOfTag, candidates, AllRelays, Concat, Joined, Once, Select, Selected, Tags, None

\* What inject leaves to be closed.
LEMMA InjectStarts ==
    ASSUME InHand, InjectorInv, DocumentInv, inject, pc' = "close"
    PROVE  DocumentInv'
<1>1. /\ pc = "inject" /\ UNCHANGED <<config, nodes, files, out, pool, relays, byTag>> /\ rulesFor # <<>>
      /\ "outbounds" \in DOMAIN doc /\ doc["outbounds"].kind = "array"
      /\ \A rule \in Range(rulesFor) : \E o \in Range(doc["outbounds"].items) : IsNamed(o, rule.tag)
      /\ doc' = WithItems(doc, "outbounds", Applied(doc["outbounds"].items, rulesFor)[Len(rulesFor)])
      /\ needed' = Wanted /\ todo' = Wanted /\ present' = documentTags(doc)
  BY DEF inject, Goto, Fail, inputs, settings, derived
<1>2. Building /\ pc # "relays" /\ doc = Assembled
  BY <1>1 DEF Building, DocumentInv
<1>3. Items(Assembled, "outbounds") = doc["outbounds"].items
  BY <1>1, <1>2 DEF Items
<1>4. doc' = Ruled
  BY <1>1, <1>2, <1>3 DEF Ruled
<1>5. doc' = Ruled'
  BY <1>1, <1>4, RuledUnmoved
<1>6. rulesFor' = rulesFor /\ Assembled' = Assembled /\ Literal' = Literal /\ Wanted' = Wanted /\ Reached' = Reached
  BY <1>1, DocumentUnmoved, WantedUnmoved
<1>7. Wanted \subseteq DOMAIN byTag
  BY <1>2, WantedFacts
<1>8. Wanted \subseteq Reached
  BY <1>7 DEF Reached, Reaches
<1>9. present' = Literal
  BY <1>1, <1>2 DEF Literal
<1>10. (\A rule \in Range(rulesFor) : \E o \in Range(Items(Assembled, "outbounds")) : IsNamed(o, rule.tag))'
  <2>1. \A rule \in Range(rulesFor) : \E o \in Range(Items(Assembled, "outbounds")) : IsNamed(o, rule.tag)
    BY <1>1, <1>3
  <2> QED
    BY <1>6, <2>1 DEF Items, Range, IsNamed
<1>11. ClosureInv'
  BY <1>1, <1>6, <1>8, <1>9, <1>10 DEF ClosureInv
<1>12. (out \in Nat \ {0} /\ out \in DOMAIN config.configs /\ \A m \in Range(cf.modules) : Decoded(m))'
  BY <1>1, <1>2 DEF DocumentInv, cf, Decoded, Range
<1> QED
  BY <1>5, <1>11, <1>12 DEF DocumentInv

\* One step of the closure keeps needed within what the rules reach.
LEMMA ClosureContinues ==
    ASSUME DocumentInv, closeOverDetours, pc' = "close"
    PROVE  DocumentInv'
<1>1. pc = "close" /\ UNCHANGED <<config, nodes, files, out, pool, relays, byTag, doc, present>>
  BY DEF closeOverDetours, inputs, settings, derived
<1>2. rulesFor' = rulesFor /\ Assembled' = Assembled /\ Literal' = Literal /\ Wanted' = Wanted /\ Reached' = Reached /\ Ruled' = Ruled
  BY <1>1, DocumentUnmoved, WantedUnmoved, RuledUnmoved
<1>3. doc = Ruled /\ ClosureInv
  BY <1>1 DEF DocumentInv
<1>4. PICK tag \in todo :
        LET detour == byTag[tag].detour IN
        \/ /\ detour = None \/ detour \in needed \/ (~Known(detour) /\ detour \in present)
           /\ todo' = todo \ {tag} /\ needed' = needed
        \/ /\ Known(detour)
           /\ needed' = needed \cup {detour}
           /\ todo' = (todo \ {tag}) \cup {detour}
  BY <1>1 DEF closeOverDetours, Fail, Goto
<1>5. needed \subseteq needed' /\ needed' \subseteq Reached /\ todo' \subseteq needed'
      /\ byTag[tag].detour \in needed' \cup (present \ DOMAIN byTag) \cup {None}
      /\ \A t \in needed' \ todo' : t = tag \/ t \in needed \ todo
  <2>1. tag \in Reached /\ needed \subseteq Reached /\ todo \subseteq needed
    BY <1>3, <1>4 DEF ClosureInv
  <2>2. Known(byTag[tag].detour) => byTag[tag].detour \in Reached
    BY <2>1 DEF Known, Reached, Reaches
  <2> QED
    BY <1>4, <2>1, <2>2 DEF Known
<1>6. \A t \in needed' \ todo' : byTag[t].detour \in needed' \cup (present \ DOMAIN byTag) \cup {None}
  BY <1>3, <1>5 DEF ClosureInv, Settled
<1>7. (\A rule \in Range(rulesFor) : \E o \in Range(Items(Assembled, "outbounds")) : IsNamed(o, rule.tag))'
  <2>1. \A rule \in Range(rulesFor) : \E o \in Range(Items(Assembled, "outbounds")) : IsNamed(o, rule.tag)
    BY <1>3 DEF ClosureInv
  <2> QED
    BY <1>2, <2>1 DEF Items, Range, IsNamed
<1>8. ClosureInv'
  BY <1>1, <1>2, <1>3, <1>5, <1>6, <1>7 DEF ClosureInv, Settled
<1>9. (out \in Nat \ {0} /\ out \in DOMAIN config.configs /\ \A m \in Range(cf.modules) : Decoded(m))'
  BY <1>1 DEF DocumentInv, cf, Decoded, Range
<1> QED
  BY <1>1, <1>2, <1>3, <1>8, <1>9 DEF DocumentInv

\* What insert adds is what is needed then.
LEMMA InsertEnds ==
    ASSUME DocumentInv, insert
    PROVE  DocumentInv'
<1>1. /\ pc = "close" /\ pc' = "finish" /\ todo = {} /\ doc' = Inserted(doc, added)
      /\ UNCHANGED <<config, nodes, files, out, pool, relays, byTag, needed, present, todo>>
  BY DEF insert, inputs, settings, derived, Goto
<1>2. rulesFor' = rulesFor /\ Assembled' = Assembled /\ Literal' = Literal /\ Wanted' = Wanted /\ Reached' = Reached /\ Ruled' = Ruled
      /\ added' = added
  BY <1>1, DocumentUnmoved, WantedUnmoved, RuledUnmoved, AddedUnmoved
<1>3. doc = Ruled /\ ClosureInv
  BY <1>1 DEF DocumentInv
<1>4. doc' = Inserted(Ruled', added')
  BY <1>1, <1>2, <1>3
<1>5. (doc = Inserted(Ruled, added))'
  BY <1>4 DEF Inserted, Extended, OfType, WithItems, Items, Select, Selected, Once
<1>6. (\A rule \in Range(rulesFor) : \E o \in Range(Items(Assembled, "outbounds")) : IsNamed(o, rule.tag))'
  <2>1. \A rule \in Range(rulesFor) : \E o \in Range(Items(Assembled, "outbounds")) : IsNamed(o, rule.tag)
    BY <1>3 DEF ClosureInv
  <2> QED
    BY <1>2, <2>1 DEF Items, Range, IsNamed
<1>7. ClosureInv'
  BY <1>1, <1>2, <1>3, <1>6 DEF ClosureInv, Settled
<1>8. (out \in Nat \ {0} /\ out \in DOMAIN config.configs /\ \A m \in Range(cf.modules) : Decoded(m))'
  BY <1>1 DEF DocumentInv, cf, Decoded, Range
<1> QED
  BY <1>1, <1>5, <1>7, <1>8 DEF DocumentInv

\* A step that leaves the output in hand alone.
LEMMA DocumentStays ==
    ASSUME DocumentInv, UNCHANGED <<config, files, pool, relays, byTag, pc, out, work>>
    PROVE  DocumentInv'
<1>1. UNCHANGED <<doc, needed, present, todo>>
  BY DEF work
<1>2. /\ rulesFor' = rulesFor /\ Assembled' = Assembled /\ Literal' = Literal
      /\ Wanted' = Wanted /\ Reached' = Reached /\ Ruled' = Ruled /\ added' = added
  BY <1>1, DocumentUnmoved, WantedUnmoved, RuledUnmoved, AddedUnmoved
<1>3. ClosureInv => ClosureInv'
  <2> SUFFICES ASSUME ClosureInv PROVE ClosureInv'
    OBVIOUS
  <2>1. (\A rule \in Range(rulesFor) : \E o \in Range(Items(Assembled, "outbounds")) : IsNamed(o, rule.tag))'
    <3>1. \A rule \in Range(rulesFor) : \E o \in Range(Items(Assembled, "outbounds")) : IsNamed(o, rule.tag)
      BY DEF ClosureInv
    <3> QED
      BY <1>2, <3>1 DEF Items, Range, IsNamed
  <2> QED
    BY <1>1, <1>2, <2>1 DEF ClosureInv, Settled
<1>4. (doc = Inserted(Ruled, added)) => (doc = Inserted(Ruled, added))'
  <2> SUFFICES ASSUME doc = Inserted(Ruled, added) PROVE (doc = Inserted(Ruled, added))'
    OBVIOUS
  <2>1. doc' = Inserted(Ruled', added')
    BY <1>1, <1>2
  <2> QED
    BY <2>1 DEF Inserted, Extended, OfType, WithItems, Items, Select, Selected, Once
<1>5. (\A m \in Range(cf.modules) : Decoded(m)) => (\A m \in Range(cf.modules) : Decoded(m))'
  BY DEF cf, Decoded, Range
<1> QED
  BY <1>1, <1>2, <1>3, <1>4, <1>5 DEF DocumentInv

\* The document in hand is, at each step of an output, what the steps before it make of
\* the module files.
LEMMA DocumentInvariant == Spec => []DocumentInv
<1>1. Init => DocumentInv
  BY DEF Init, DocumentInv
<1>2. InputsInv /\ SettingsInv /\ InjectorInv /\ DocumentInv /\ [Next]_vars => DocumentInv'
  <2> SUFFICES ASSUME InputsInv, SettingsInv, InjectorInv, DocumentInv, [Next]_vars PROVE DocumentInv'
    OBVIOUS
  <2> USE DEF Goto, Fail
  <2>1. CASE LoadBootstrap \/ Load \/ Resolve \/ LoadModules \/ newInjector \/ buildRelays
    <3>1. out' = out /\ pc' \notin {"inject", "close", "finish"}
      BY <2>1 DEF LoadBootstrap, Load, Resolve, LoadModules, newInjector, buildRelays
    <3> QED
      BY <3>1 DEF DocumentInv
  <2>2. CASE assemble /\ pc' # "inject"
    <3>1. out' = out /\ pc' \notin {"inject", "close", "finish"}
      BY <2>2 DEF assemble
    <3> QED
      BY <3>1 DEF DocumentInv
  <2>3. CASE assemble /\ pc' = "inject"
    <3>1. /\ UNCHANGED <<config, nodes, files, out>> /\ out <= Len(config.configs) /\ doc' = Assembled
          /\ \A m \in Range(cf.modules) : Decoded(m)
      <4>1. UNCHANGED <<config, nodes, files>>
        BY <2>3 DEF assemble, inputs, settings
      <4>2. ~(out > Len(config.configs)) /\ out' = out /\ doc' = Assembled /\ \A m \in Range(cf.modules) : Decoded(m)
        BY <2>3 DEF assemble
      <4>3. out \in Nat /\ Len(config.configs) \in Nat
        BY DEF DocumentInv, InputsInv, Configs
      <4> QED
        BY <4>1, <4>2, <4>3
    <3>2. out \in 1..Len(config.configs) /\ DOMAIN config.configs = 1..Len(config.configs)
      BY <3>1 DEF DocumentInv, InputsInv, Configs
    <3>3. doc' = Assembled'
      BY <3>1, DocumentUnmoved
    <3>4. (out \in Nat \ {0} /\ out \in DOMAIN config.configs /\ \A m \in Range(cf.modules) : Decoded(m))'
      BY <3>1, <3>2 DEF DocumentInv, cf, Decoded, Range
    <3> QED
      BY <2>3, <3>3, <3>4 DEF DocumentInv
  <2>4. CASE inject
    <3>1. pc = "inject" /\ UNCHANGED <<config, files, out>> /\ pc' \in {"finish", "failed", "close"}
      BY <2>4 DEF inject, inputs, settings
    <3>2. LoadConfig(config)
      BY <3>1 DEF SettingsInv
    <3>3. InHand
      BY <3>1, <3>2 DEF InHand, DocumentInv
    <3>4. CASE pc' = "close"
      BY <2>4, <3>3, <3>4, InjectStarts
    <3>5. CASE pc' = "finish"
      <4>1. rulesFor = <<>>
        BY <2>4, <3>5 DEF inject
      <4>2. rulesFor' = <<>>
        BY <3>1, <4>1, DocumentUnmoved
      <4>3. (out \in Nat \ {0} /\ out \in DOMAIN config.configs /\ \A m \in Range(cf.modules) : Decoded(m))'
        BY <3>1 DEF DocumentInv, cf, Decoded, Range
      <4> QED
        BY <3>5, <4>2, <4>3 DEF DocumentInv
    <3>6. CASE pc' = "failed"
      BY <3>1, <3>6 DEF DocumentInv
    <3> QED
      BY <3>1, <3>4, <3>5, <3>6
  <2>5. CASE closeOverDetours /\ pc' = "close"
    BY <2>5, ClosureContinues
  <2>6. CASE closeOverDetours /\ pc' # "close"
    <3>1. out' = out /\ pc' = "failed"
      BY <2>6 DEF closeOverDetours
    <3> QED
      BY <3>1 DEF DocumentInv
  <2>7. CASE insert
    BY <2>7, InsertEnds
  <2>8. CASE finish
    <3>1. pc' \in {"assemble", "failed"} /\ (out' = out + 1 \/ out' = out)
      BY <2>8 DEF finish
    <3> QED
      BY <3>1 DEF DocumentInv
  <2>9. CASE Ended \/ UNCHANGED vars
    <3>1. UNCHANGED <<config, files, pool, relays, byTag, pc, out, work>>
      BY <2>9 DEF Ended, vars, inputs, settings, derived
    <3> QED
      BY <3>1, DocumentStays
  <2> QED
    BY <2>1, <2>2, <2>3, <2>4, <2>5, <2>6, <2>7, <2>8, <2>9 DEF Next, Step
<1> QED
  BY <1>1, <1>2, InputsInvariant, SettingsInvariant, InjectorInvariant, PTL DEF Spec

\* What Inserted makes of a document's two arrays.
LEMMA InsertedItems ==
    ASSUME NEW d, IsDocument(d), NEW items \in Seq(Entries)
    PROVE  /\ OfType(items, FALSE) \in Seq(Entries) /\ OfType(items, TRUE) \in Seq(Entries)
           /\ Items(Inserted(d, items), "outbounds") = Items(d, "outbounds") \o OfType(items, FALSE)
           /\ Items(Inserted(d, items), "endpoints") = Items(d, "endpoints") \o OfType(items, TRUE)
<1> DEFINE a == OfType(items, FALSE)
           b == OfType(items, TRUE)
           x == Items(d, "outbounds")
           y == Items(d, "endpoints")
           d1 == Extended(d, "outbounds", a)
           d2 == Extended(d1, "endpoints", b)
<1>1. a \in Seq(Entries) /\ b \in Seq(Entries)
  BY SelectElements DEF OfType
<1>2. x \in Seq(Entries) /\ y \in Seq(Entries)
  BY ItemsFacts
<1>3. Inserted(d, items) = d2
  BY DEF Inserted, Once
<1> HIDE DEF a, b, d2
<1>4. Items(d1, "outbounds") = x \o a /\ Items(d1, "endpoints") = y
  <2>1. CASE a = <<>>
    BY <1>2, <2>1 DEF Extended
  <2>2. CASE a # <<>>
    <3>1. d1 = WithItems(d, "outbounds", x \o a)
      BY <2>2 DEF Extended
    <3> QED
      BY <3>1 DEF WithItems, Items
  <2> QED
    BY <2>1, <2>2
<1> HIDE DEF d1, x, y
<1>5. Items(d2, "outbounds") = x \o a /\ Items(d2, "endpoints") = y \o b
  <2>1. CASE b = <<>>
    <3>1. d2 = d1
      BY <2>1 DEF d2, Extended
    <3>2. y \o b = y
      BY <1>2, <2>1
    <3> QED
      BY <1>4, <3>1, <3>2
  <2>2. CASE b # <<>>
    <3>1. d2 = WithItems(d1, "endpoints", y \o b)
      BY <1>4, <2>2 DEF Extended, d2
    <3> QED
      BY <1>4, <3>1 DEF WithItems, Items
  <2> QED
    BY <2>1, <2>2
<1> QED
  BY <1>1, <1>3, <1>5 DEF a, b, x, y

\* A loop that copies nothing of a list and all of the one behind it copies that one.
LEMMA SelectSuffix ==
    ASSUME NEW S, NEW p \in Seq(S), NEW q \in Seq(S), NEW I,
           \A i \in 1..Len(p) : i \notin I, \A i \in 1..Len(q) : Len(p) + i \in I
    PROVE  Select(p \o q, I) = q
<1> DEFINE list == p \o q
           K == Selected(list, I)
           m == Len(p)
           n == Len(q)
           T == {i \in Nat : i <= m => K[i] = <<>>}
           U == {i \in Nat : i <= n => K[m + i] \in Seq(S) /\ Len(K[m + i]) = i /\ \A j \in 1..i : K[m + i][j] = q[j]}
<1>1. /\ list \in Seq(S) /\ m \in Nat /\ n \in Nat /\ Len(list) = m + n
      /\ \A i \in 1..n : list[m + i] = q[i]
  <2>1. list \in Seq(S) /\ Len(list) = m + n /\ \A i \in 1..(m + n) : list[i] = IF i <= m THEN p[i] ELSE q[i - m]
    BY ConcatProperties
  <2>2. ASSUME NEW i \in 1..n PROVE list[m + i] = q[i]
    <3>1. m + i \in 1..(m + n) /\ ~(m + i <= m) /\ (m + i) - m = i
      OBVIOUS
    <3> HIDE DEF list, m, n
    <3> QED
      BY <2>1, <3>1
  <2> QED
    BY <2>1, <2>2
<1> HIDE DEF list
<1>2. /\ K[0] = <<>>
      /\ \A i \in 1..Len(list) : /\ i \in I => K[i] = Append(K[i - 1], list[i])
                                 /\ i \notin I => K[i] = K[i - 1]
  BY <1>1, SelectedDef
<1> HIDE DEF K, m, n
<1>3. 0 \in T
  BY <1>2
<1>4. ASSUME NEW i \in Nat, i \in T PROVE i + 1 \in T
  <2> SUFFICES ASSUME i + 1 <= m PROVE K[i + 1] = <<>>
    OBVIOUS
  <2>1. PICK j \in Nat : j = i + 1
    OBVIOUS
  <2>2. j \in 1..m /\ j \in 1..Len(list) /\ j - 1 = i /\ K[i] = <<>>
    BY <1>1, <1>4, <2>1
  <2>3. j \notin I
    BY <2>2 DEF m
  <2> QED
    BY <1>2, <2>1, <2>2, <2>3
<1> HIDE DEF T
<1>5. m \in T
  BY <1>1, <1>3, <1>4, NaturalInduction
<1>6. K[m] = <<>>
  BY <1>1, <1>5 DEF T
<1>7. 0 \in U
  <2>1. m + 0 = m
    BY <1>1
  <2>2. <<>> \in Seq(S) /\ Len(<<>>) = 0
    OBVIOUS
  <2>3. K[m + 0] = <<>>
    BY <1>6, <2>1
  <2> DEFINE none == K[m + 0]
  <2> HIDE DEF none
  <2>4. none \in Seq(S) /\ Len(none) = 0 /\ \A j \in 1..0 : none[j] = q[j]
    BY <2>2, <2>3 DEF none
  <2> QED
    BY <2>4 DEF none
<1>8. ASSUME NEW i \in Nat, i \in U PROVE i + 1 \in U
  <2> SUFFICES ASSUME i + 1 <= n
               PROVE  K[m + (i + 1)] \in Seq(S) /\ Len(K[m + (i + 1)]) = i + 1 /\ \A j \in 1..(i + 1) : K[m + (i + 1)][j] = q[j]
    OBVIOUS
  <2>1. PICK j \in Nat : j = m + (i + 1)
    BY <1>1
  <2>2. j \in 1..Len(list) /\ j - 1 = m + i /\ i + 1 \in 1..n /\ i <= n
    BY <1>1, <2>1
  <2>3. j \in I
    BY <2>1, <2>2 DEF m, n
  <2>4. list[j] = q[i + 1] /\ q[i + 1] \in S
    BY <1>1, <2>1, <2>2 DEF n
  <2> DEFINE old == K[m + i]
  <2>5. old \in Seq(S) /\ Len(old) = i /\ \A k \in 1..i : old[k] = q[k]
    BY <1>8, <2>2
  <2>6. K[j] = Append(old, q[i + 1])
    BY <1>2, <2>2, <2>3, <2>4
  <2> HIDE DEF old
  <2>7. K[j] \in Seq(S) /\ Len(K[j]) = i + 1 /\ \A k \in 1..(i + 1) : K[j][k] = q[k]
    BY <2>4, <2>5, <2>6
  <2> QED
    BY <2>1, <2>7
<1> HIDE DEF U
<1>9. n \in U
  BY <1>1, <1>7, <1>8, NaturalInduction
<1>10. K[m + n] \in Seq(S) /\ Len(K[m + n]) = n /\ \A j \in 1..n : K[m + n][j] = q[j]
  BY <1>1, <1>9 DEF U
<1>11. K[m + n] = q
  <2> DEFINE rest == K[m + n]
  <2>1. rest \in Seq(S) /\ Len(rest) = n /\ \A j \in 1..n : rest[j] = q[j]
    BY <1>10
  <2>2. q \in Seq(S) /\ Len(q) = n
    BY DEF n
  <2> HIDE DEF rest
  <2>3. rest = q
    BY <2>1, <2>2
  <2> QED
    BY <2>3 DEF rest
<1>12. Select(list, I) = K[Len(list)]
  BY SelectDef DEF K
<1> QED
  BY <1>1, <1>11, <1>12 DEF list

\* Nodes with a tag that is needed and not there, and where they are among the first of
\* their tag.
AddedPlaces == {i \in DOMAIN FirstOfTag(candidates) : FirstOfTag(candidates)[i].tag \in needed \ present}
AsItems == [i \in DOMAIN FirstOfTag(candidates) |-> AsItem(FirstOfTag(candidates)[i])]

\* What is added, said by the places of what is needed.
LEMMA AddedDef == added = Select(AsItems, AddedPlaces)
BY DEF added, Once, AsItems, AddedPlaces

\* What is added are candidates, in their order, the first of each tag that is needed
\* and not there.
LEMMA AddedFacts ==
    ASSUME candidates \in Seq(Nodes)
    PROVE  /\ added \in Seq(Entries)
           /\ \E at \in [1..Len(added) -> 1..Len(candidates)] :
                /\ \A k \in 1..Len(added) : /\ added[k] = AsItem(candidates[at[k]])
                                            /\ candidates[at[k]].tag \in needed \ present
                                            /\ \A j \in 1..(at[k] - 1) : candidates[j].tag # candidates[at[k]].tag
                /\ \A j, k \in 1..Len(added) : j < k => at[j] < at[k]
           /\ \A t \in Tags(candidates) : t \in needed \ present => \E k \in 1..Len(added) : added[k].tag = t
<1> DEFINE first == FirstOfTag(candidates)
<1>1. first \in Seq(Nodes) /\ Tags(first) = Tags(candidates)
  BY FirstOfTagFacts
<1>2. PICK f \in [1..Len(first) -> 1..Len(candidates)] :
                /\ \A k \in DOMAIN f : /\ first[k] = candidates[f[k]]
                                       /\ \A j \in 1..(f[k] - 1) : candidates[j].tag # candidates[f[k]].tag
                /\ \A j, k \in DOMAIN f : j < k => f[j] < f[k]
  BY FirstOfTagFacts
<1>3. AsItems = [i \in DOMAIN first |-> AsItem(first[i])] /\ AddedPlaces = {i \in DOMAIN first : first[i].tag \in needed \ present}
  BY DEF AsItems, AddedPlaces
<1> HIDE DEF first
<1>4. DOMAIN first = 1..Len(first) /\ Len(first) \in Nat /\ DOMAIN f = 1..Len(first)
  BY <1>1, <1>2
<1>5. \A n \in Nodes : AsItem(n) \in Entries /\ AsItem(n).tag = n.tag
  BY DEF Nodes, AsItem, Entries, Kinds, TagType
<1>6. AsItems \in Seq(Entries) /\ Len(AsItems) = Len(first) /\ \A i \in 1..Len(first) : AsItems[i] = AsItem(first[i])
  <2>1. \A i \in 1..Len(first) : AsItem(first[i]) \in Entries
    BY <1>1, <1>5
  <2> QED
    BY <1>3, <1>4, <2>1
<1>7. PICK g : Picks(AsItems, AddedPlaces, added, g)
  BY <1>6, AddedDef, SelectPositions
<1>8. added \in Seq(Entries)
  BY <1>6, AddedDef, SelectElements
<1>9. /\ g \in [1..Len(added) -> 1..Len(AsItems)] /\ Len(added) \in Nat
      /\ \A k \in 1..Len(added) : g[k] \in AddedPlaces /\ added[k] = AsItems[g[k]]
      /\ \A j, k \in 1..Len(added) : j < k => g[j] < g[k]
      /\ \A i \in 1..Len(AsItems) : i \in AddedPlaces => \E k \in 1..Len(added) : g[k] = i
  BY <1>7, <1>8 DEF Picks
<1> HIDE DEF added
<1> DEFINE at == [k \in 1..Len(added) |-> f[g[k]]]
<1>10. ASSUME NEW k \in 1..Len(added)
       PROVE  /\ at[k] \in 1..Len(candidates) /\ added[k] = AsItem(candidates[at[k]])
              /\ candidates[at[k]].tag \in needed \ present
              /\ \A j \in 1..(at[k] - 1) : candidates[j].tag # candidates[at[k]].tag
  <2>1. g[k] \in AddedPlaces /\ g[k] \in 1..Len(first) /\ added[k] = AsItems[g[k]]
    BY <1>6, <1>9
  <2>2. first[g[k]] = candidates[f[g[k]]] /\ at[k] = f[g[k]] /\ AsItems[g[k]] = AsItem(first[g[k]])
    BY <1>2, <1>4, <1>6, <2>1
  <2>3. first[g[k]].tag \in needed \ present
    BY <1>3, <2>1
  <2>4. at[k] \in 1..Len(candidates) /\ \A j \in 1..(at[k] - 1) : candidates[j].tag # candidates[at[k]].tag
    BY <1>2, <1>4, <2>1, <2>2
  <2> QED
    BY <2>1, <2>2, <2>3, <2>4
<1>11. ASSUME NEW j \in 1..Len(added), NEW k \in 1..Len(added), j < k PROVE at[j] < at[k]
  <2>1. g[j] \in 1..Len(first) /\ g[k] \in 1..Len(first) /\ g[j] < g[k]
    BY <1>6, <1>9, <1>11
  <2> QED
    BY <1>2, <1>4, <2>1
<1>12. ASSUME NEW t \in Tags(candidates), t \in needed \ present PROVE \E k \in 1..Len(added) : added[k].tag = t
  <2>1. PICK i \in DOMAIN first : first[i].tag = t
    BY <1>1 DEF Tags
  <2>2. i \in AddedPlaces /\ i \in 1..Len(AsItems) /\ AsItems[i].tag = t
    BY <1>1, <1>3, <1>4, <1>5, <1>6, <1>12, <2>1
  <2>3. PICK k \in 1..Len(added) : g[k] = i
    BY <1>9, <2>2
  <2> QED
    BY <1>9, <2>2, <2>3
<1>13. at \in [1..Len(added) -> 1..Len(candidates)]
  BY <1>10
<1> HIDE DEF at
<1>14. \E h \in [1..Len(added) -> 1..Len(candidates)] :
                /\ \A k \in 1..Len(added) : /\ added[k] = AsItem(candidates[h[k]])
                                            /\ candidates[h[k]].tag \in needed \ present
                                            /\ \A j \in 1..(h[k] - 1) : candidates[j].tag # candidates[h[k]].tag
                /\ \A j, k \in 1..Len(added) : j < k => h[j] < h[k]
  BY <1>10, <1>11, <1>13
<1> QED
  BY <1>8, <1>12, <1>14

\* An output whose rules have been applied and whose nodes have been inserted.
Finished == InHand /\ InjectorInv /\ DocumentInv /\ pc = "finish" /\ rulesFor # <<>>

\* The outbounds after the rules, and what is added to the two arrays.
RuledItems == Applied(Items(Assembled, "outbounds"), rulesFor)[Len(rulesFor)]
AddedTo(k) == OfType(added, k = "endpoints")

\* The tags of the candidates are those of the injector.
LEMMA CandidatesFacts ==
    ASSUME InputsInv, InjectorInv, Building
    PROVE  /\ AllRelays \in Seq(Nodes) /\ pool \in Seq(Nodes)
           /\ candidates \in Seq(Nodes) /\ Tags(candidates) = DOMAIN byTag
<1>1. /\ pool = newPool /\ Len(relays) \in Nat /\ relays = [i \in 1..Len(relays) |-> relayNodes(config.relays[i])]
      /\ DOMAIN byTag = Tags(AllRelays) \cup Tags(pool)
  BY DEF InjectorInv
<1>2. pool \in Seq(Nodes)
  BY <1>1, PoolFacts
<1>3. AllRelays \in Seq(Nodes)
  BY <1>1, AllRelaysFacts
<1>4. candidates \in Seq(Nodes)
  BY <1>2, <1>3 DEF candidates
<1>5. Tags(candidates) = Tags(AllRelays) \cup Tags(pool)
  BY <1>2, <1>3, TagsConcat DEF candidates
<1> QED
  BY <1>1, <1>2, <1>3, <1>4, <1>5

\* Without a tag that is a relay's and the pool's, the first candidate of a tag is the one
\* the injector finds by it.
LEMMA FirstIsFound ==
    ASSUME InputsInv, InjectorInv, Building, NoCollision, NEW i \in 1..Len(candidates),
           \A j \in 1..(i - 1) : candidates[j].tag # candidates[i].tag
    PROVE  byTag[candidates[i].tag] = candidates[i]
<1> DEFINE chains == AllRelays
           l == Len(chains)
           n == Len(pool)
           both == candidates
<1>1. chains \in Seq(Nodes) /\ pool \in Seq(Nodes) /\ both = chains \o pool
  BY CandidatesFacts DEF candidates
<1> HIDE DEF chains, both
<1>2. /\ l \in Nat /\ n \in Nat /\ Len(both) = l + n
      /\ \A k \in 1..(l + n) : both[k] = IF k <= l THEN chains[k] ELSE pool[k - l]
      /\ DOMAIN chains = 1..l /\ DOMAIN pool = 1..n
  BY <1>1, ConcatProperties
<1>a. i \in 1..(l + n) /\ \A j \in 1..(i - 1) : both[j].tag # both[i].tag
  BY <1>2 DEF both
<1> HIDE DEF l, n
<1>3. CASE i <= l
  <2>1. i \in DOMAIN chains /\ both[i] = chains[i]
    BY <1>2, <1>3, <1>a
  <2>2. chains[i].tag \notin Tags(pool)
    BY <2>1 DEF NoCollision, Tags, chains
  <2>3. \A j \in 1..(i - 1) : chains[j].tag # chains[i].tag
    <3> SUFFICES ASSUME NEW j \in 1..(i - 1) PROVE chains[j].tag # chains[i].tag
      OBVIOUS
    <3>1. both[j] = chains[j]
      BY <1>2, <1>3, <1>a
    <3> QED
      BY <1>a, <2>1, <3>1
  <2>4. byTag[chains[i].tag] = chains[i]
    BY <2>1, <2>2, <2>3 DEF InjectorInv, chains
  <2> QED
    BY <2>1, <2>4 DEF both
<1>4. CASE ~(i <= l)
  <2>1. i - l \in 1..n /\ both[i] = pool[i - l]
    BY <1>2, <1>4, <1>a
  <2>2. \A k \in 1..n : byTag[pool[k].tag] = pool[k]
    BY <1>2 DEF InjectorInv
  <2> QED
    BY <2>1, <2>2 DEF both
<1> QED
  BY <1>3, <1>4

\* The two arrays of a finished document: the module files' own entries, after the rules,
\* and behind them what has been added.
LEMMA FinishedItems ==
    ASSUME Finished
    PROVE  /\ Items(Assembled, "outbounds") \in Seq(Entries) /\ Items(Assembled, "endpoints") \in Seq(Entries)
           /\ AppliedUpTo(Items(Assembled, "outbounds"), RuledItems)
           /\ added \in Seq(Entries) /\ AddedTo("outbounds") \in Seq(Entries) /\ AddedTo("endpoints") \in Seq(Entries)
           /\ Items(doc, "outbounds") = RuledItems \o AddedTo("outbounds")
           /\ Items(doc, "endpoints") = Items(Assembled, "endpoints") \o AddedTo("endpoints")
<1>0. Building /\ pc # "relays" /\ InputsInv
  BY DEF Finished, Building, InHand
<1> DEFINE plain == Items(Assembled, "outbounds")
           own == Items(Assembled, "endpoints")
<1>1. IsDocument(Assembled)
  BY AssembledFacts DEF Finished
<1>2. /\ plain \in Seq(Entries) /\ own \in Seq(Entries)
      /\ \A i \in 1..Len(plain) : plain[i].kind # "object" => plain[i].tag = None
  BY <1>1, ItemsFacts
<1>3. ClosureInv /\ doc = Inserted(Ruled, added)
  BY DEF Finished, DocumentInv
<1>4. \A n \in 1..Len(rulesFor) : \E i \in 1..Len(plain) : IsNamed(plain[i], rulesFor[n].tag)
  <2> SUFFICES ASSUME NEW n \in 1..Len(rulesFor) PROVE \E i \in 1..Len(plain) : IsNamed(plain[i], rulesFor[n].tag)
    OBVIOUS
  <2>1. rulesFor \in Seq(SelectorRules)
    BY <1>0, WantedFacts DEF Finished
  <2>2. rulesFor[n] \in Range(rulesFor)
    BY <2>1 DEF Range
  <2>3. \E o \in Range(plain) : IsNamed(o, rulesFor[n].tag)
    BY <1>3, <2>2 DEF ClosureInv
  <2> HIDE DEF plain
  <2> QED
    BY <1>2, <2>3 DEF Range
<1>5. AppliedUpTo(plain, RuledItems)
  BY <1>0, <1>2, <1>4, AppliedFacts DEF Finished, RuledItems
<1>6. RuledItems \in Seq(Entries) /\ Len(RuledItems) = Len(plain) /\ \A i \in 1..Len(plain) : SameEntry(RuledItems[i], plain[i])
  BY <1>5 DEF AppliedUpTo
<1>7. Ruled = WithItems(Assembled, "outbounds", RuledItems)
  BY DEF Ruled, RuledItems
<1> HIDE DEF RuledItems, plain, own
<1>8. \A i \in DOMAIN RuledItems : RuledItems[i].kind # "object" => RuledItems[i].tag = None
  BY <1>2, <1>6 DEF SameEntry
<1>9. IsDocument(Ruled)
  BY <1>1, <1>6, <1>7, <1>8 DEF IsDocument, WithItems
<1>10. Items(Ruled, "outbounds") = RuledItems /\ Items(Ruled, "endpoints") = own
  BY <1>7 DEF WithItems, Items, own
<1>11. added \in Seq(Entries)
  BY <1>0, CandidatesFacts, AddedFacts DEF Finished
<1>12. AddedTo("outbounds") = OfType(added, FALSE) /\ AddedTo("endpoints") = OfType(added, TRUE)
  BY DEF AddedTo
<1>13. /\ AddedTo("outbounds") \in Seq(Entries) /\ AddedTo("endpoints") \in Seq(Entries)
       /\ Items(doc, "outbounds") = RuledItems \o AddedTo("outbounds")
       /\ Items(doc, "endpoints") = own \o AddedTo("endpoints")
  BY <1>3, <1>9, <1>10, <1>11, <1>12, InsertedItems
<1> QED
  BY <1>2, <1>5, <1>11, <1>13 DEF plain, own

Keys == {"outbounds", "endpoints"}

\* Nodes that the rules reach are nodes the injector has, and all of them are needed.
LEMMA NeededIsReached ==
    ASSUME Finished
    PROVE  /\ needed = Reached /\ Wanted \subseteq needed /\ present = Literal
           /\ needed \subseteq DOMAIN byTag /\ None \notin DOMAIN byTag
           /\ \A t \in needed : Settled(t)
<1>1. ClosureInv /\ todo = {}
  BY DEF Finished, DocumentInv
<1>2. Building /\ pc # "relays" /\ InHand /\ InjectorInv
  BY DEF Finished, Building
<1>3. None \notin DOMAIN byTag
  BY <1>2, WantedFacts
<1>4. needed \subseteq Reached /\ Wanted \subseteq needed /\ present = Literal /\ \A t \in needed : Settled(t)
  BY <1>1 DEF ClosureInv
<1>5. needed \subseteq DOMAIN byTag
  BY <1>4 DEF Reached
<1>6. ASSUME NEW t \in needed, byTag[t].detour \in DOMAIN byTag PROVE byTag[t].detour \in needed
  BY <1>3, <1>4, <1>6 DEF Settled
<1>7. Reached \subseteq needed
  BY <1>4, <1>5, <1>6 DEF Reached, Reaches
<1> QED
  BY <1>3, <1>4, <1>5, <1>7

\* What is added is an object under a tag that is needed and that no object of the module
\* files has, each tag once and all of them.
LEMMA AddedEntries ==
    ASSUME Finished
    PROVE  /\ added \in Seq(Entries)
           /\ \A k \in 1..Len(added) : /\ added[k].kind = "object" /\ added[k].members = <<>>
                                       /\ added[k].tag \in needed \ Literal /\ added[k].tag # None
           /\ \A j, k \in 1..Len(added) : added[j].tag = added[k].tag => j = k
           /\ \A t \in needed \ Literal : \E k \in 1..Len(added) : added[k].tag = t
           /\ NoCollision => \A k \in 1..Len(added) : added[k].detour = byTag[added[k].tag].detour
<1>1. Building /\ InputsInv /\ InjectorInv
  BY DEF Finished, Building, InHand
<1>2. candidates \in Seq(Nodes) /\ Tags(candidates) = DOMAIN byTag
  BY <1>1, CandidatesFacts
<1>3. needed \subseteq DOMAIN byTag /\ None \notin DOMAIN byTag /\ present = Literal
  BY NeededIsReached
<1>4. /\ added \in Seq(Entries)
      /\ \A t \in Tags(candidates) : t \in needed \ present => \E k \in 1..Len(added) : added[k].tag = t
  BY <1>2, AddedFacts
<1>5. PICK at \in [1..Len(added) -> 1..Len(candidates)] :
                /\ \A k \in 1..Len(added) : /\ added[k] = AsItem(candidates[at[k]])
                                            /\ candidates[at[k]].tag \in needed \ present
                                            /\ \A j \in 1..(at[k] - 1) : candidates[j].tag # candidates[at[k]].tag
                /\ \A j, k \in 1..Len(added) : j < k => at[j] < at[k]
  BY <1>2, AddedFacts
<1> HIDE DEF added, candidates
<1>6. ASSUME NEW k \in 1..Len(added)
      PROVE  /\ added[k].kind = "object" /\ added[k].members = <<>>
             /\ added[k].tag = candidates[at[k]].tag /\ added[k].detour = candidates[at[k]].detour
             /\ added[k].tag \in needed \ Literal /\ added[k].tag # None
  <2>1. added[k] = AsItem(candidates[at[k]]) /\ candidates[at[k]].tag \in needed \ present
    BY <1>5
  <2>2. added[k].kind = "object" /\ added[k].members = <<>> /\ added[k].tag = candidates[at[k]].tag
        /\ added[k].detour = candidates[at[k]].detour
    BY <2>1 DEF AsItem
  <2> QED
    BY <1>3, <2>1, <2>2
<1>7. ASSUME NEW j \in 1..Len(added), NEW k \in 1..Len(added), j < k PROVE added[j].tag # added[k].tag
  <2>1. at[j] < at[k] /\ at[j] \in 1..Len(candidates) /\ at[k] \in 1..Len(candidates)
    BY <1>5, <1>7
  <2>2. at[j] \in 1..(at[k] - 1)
    BY <2>1
  <2>3. candidates[at[j]].tag # candidates[at[k]].tag
    BY <1>5, <2>2
  <2> QED
    BY <1>6, <2>3
<1>8. ASSUME NEW j \in 1..Len(added), NEW k \in 1..Len(added), added[j].tag = added[k].tag PROVE j = k
  <2>1. Len(added) \in Nat
    BY <1>4
  <2>2. j < k \/ k < j \/ j = k
    BY <2>1
  <2> QED
    BY <1>7, <1>8, <2>2
<1>9. ASSUME NoCollision, NEW k \in 1..Len(added) PROVE added[k].detour = byTag[added[k].tag].detour
  <2>1. at[k] \in 1..Len(candidates) /\ \A j \in 1..(at[k] - 1) : candidates[j].tag # candidates[at[k]].tag
    BY <1>5
  <2>2. byTag[candidates[at[k]].tag] = candidates[at[k]]
    BY <1>1, <1>9, <2>1, FirstIsFound
  <2> QED
    BY <1>6, <2>2
<1> QED
  BY <1>2, <1>3, <1>4, <1>6, <1>8, <1>9

\* What goes to one of the arrays is some of what is added, and all goes to one of them.
LEMMA AddedToFacts ==
    ASSUME added \in Seq(Entries)
    PROVE  /\ \A key \in Keys : /\ AddedTo(key) \in Seq(Entries)
                                /\ \A k \in 1..Len(AddedTo(key)) : \E i \in 1..Len(added) : AddedTo(key)[k] = added[i]
           /\ \A i \in 1..Len(added) : \E key \in Keys : \E k \in 1..Len(AddedTo(key)) : AddedTo(key)[k] = added[i]
<1> DEFINE places(e) == {i \in DOMAIN added : (added[i].type \in EndpointTypes) = e}
<1>1. AddedTo("outbounds") = Select(added, places(FALSE)) /\ AddedTo("endpoints") = Select(added, places(TRUE))
  BY DEF AddedTo, OfType
<1>2. \A i \in 1..Len(added) : i \in places(TRUE) \/ i \in places(FALSE)
  OBVIOUS
<1> HIDE DEF places, added
<1>3. ASSUME NEW e \in BOOLEAN
      PROVE  /\ Select(added, places(e)) \in Seq(Entries)
             /\ \A k \in 1..Len(Select(added, places(e))) : \E i \in 1..Len(added) : Select(added, places(e))[k] = added[i]
             /\ \A i \in 1..Len(added) : i \in places(e) => \E k \in 1..Len(Select(added, places(e))) : Select(added, places(e))[k] = added[i]
  BY SelectElements
<1> DEFINE Holds(a, e) == /\ a \in Seq(Entries)
                          /\ \A k \in 1..Len(a) : \E i \in 1..Len(added) : a[k] = added[i]
                          /\ \A i \in 1..Len(added) : i \in places(e) => \E k \in 1..Len(a) : a[k] = added[i]
           A(key) == AddedTo(key)
<1>4. Holds(A("outbounds"), FALSE) /\ Holds(A("endpoints"), TRUE)
  <2>1. Holds(Select(added, places(FALSE)), FALSE) /\ Holds(Select(added, places(TRUE)), TRUE)
    BY <1>3
  <2> HIDE DEF Holds
  <2> QED
    BY <1>1, <2>1
<1> HIDE DEF A
<1>5. \A key \in Keys : /\ A(key) \in Seq(Entries)
                        /\ \A k \in 1..Len(A(key)) : \E i \in 1..Len(added) : A(key)[k] = added[i]
  BY <1>4 DEF Keys
<1>6. \A i \in 1..Len(added) : \E key \in Keys : \E k \in 1..Len(A(key)) : A(key)[k] = added[i]
  BY <1>2, <1>4 DEF Keys
<1> QED
  BY <1>5, <1>6 DEF A

\* The array without what has been added.
Base(k) == IF k = "outbounds" THEN RuledItems ELSE Items(Assembled, "endpoints")

\* An object of the module files keeps its tag when rules apply.
LEMMA BaseFacts ==
    ASSUME Finished, NEW k \in Keys
    PROVE  /\ Base(k) \in Seq(Entries) /\ AddedTo(k) \in Seq(Entries)
           /\ Items(doc, k) = Base(k) \o AddedTo(k)
           /\ \A i \in 1..Len(Base(k)) : Base(k)[i].kind = "object" => Base(k)[i].tag \in Literal \cup {None}
           /\ \A i \in 1..Len(Base(k)) : Base(k)[i].kind # "object" => Base(k)[i].tag = None
<1> DEFINE plain == Items(Assembled, "outbounds")
           own == Items(Assembled, "endpoints")
<1>1. /\ plain \in Seq(Entries) /\ own \in Seq(Entries) /\ AppliedUpTo(plain, RuledItems)
      /\ AddedTo("outbounds") \in Seq(Entries) /\ AddedTo("endpoints") \in Seq(Entries)
      /\ Items(doc, "outbounds") = RuledItems \o AddedTo("outbounds")
      /\ Items(doc, "endpoints") = own \o AddedTo("endpoints")
  BY FinishedItems
<1>2. Range(ItemsOf(Assembled)) = Range(plain) \cup Range(own)
  BY <1>1, RangeConcatenation DEF ItemsOf
<1>3. ASSUME NEW o \in Range(plain) \cup Range(own)
      PROVE  (o.kind = "object" => o.tag \in Literal \cup {None}) /\ (o.kind # "object" => o.tag = None)
  <2>1. o.kind = "object" => o.tag \in Literal \cup {None}
    BY <1>2, <1>3 DEF Literal, documentTags
  <2>2. IsDocument(Assembled)
    BY AssembledFacts DEF Finished
  <2>3. o.kind # "object" => o.tag = None
    BY <1>1, <1>3, <2>2, ItemsFacts DEF Range
  <2> QED
    BY <2>1, <2>3
<1> HIDE DEF plain, own
<1>4. /\ \A i \in 1..Len(plain) : plain[i] \in Range(plain)
      /\ \A i \in 1..Len(own) : own[i] \in Range(own)
  BY <1>1 DEF Range
<1>5. /\ RuledItems \in Seq(Entries) /\ Len(RuledItems) = Len(plain)
      /\ \A i \in 1..Len(plain) : RuledItems[i].kind = plain[i].kind /\ RuledItems[i].tag = plain[i].tag
  BY <1>1 DEF AppliedUpTo, SameEntry
<1>6. CASE k = "outbounds"
  <2>1. Base(k) = RuledItems
    BY <1>6 DEF Base
  <2> HIDE DEF Base
  <2> QED
    BY <1>1, <1>3, <1>4, <1>5, <1>6, <2>1
<1>7. CASE k = "endpoints"
  <2>1. Base(k) = own
    BY <1>7 DEF Base, own
  <2> HIDE DEF Base
  <2> QED
    BY <1>1, <1>3, <1>4, <1>7, <2>1
<1> QED
  BY <1>6, <1>7 DEF Keys

\* What injection adds to an array, each an object that is needed and no module file's.
LEMMA AddedToEntries ==
    ASSUME Finished, NEW k \in Keys, NEW i \in 1..Len(AddedTo(k))
    PROVE  /\ AddedTo(k)[i].kind = "object" /\ AddedTo(k)[i].members = <<>>
           /\ AddedTo(k)[i].tag \in needed \ Literal /\ AddedTo(k)[i].tag # None
           /\ NoCollision => AddedTo(k)[i].detour = byTag[AddedTo(k)[i].tag].detour
<1>1. added \in Seq(Entries)
  BY AddedEntries
<1>2. PICK j \in 1..Len(added) : AddedTo(k)[i] = added[j]
  BY <1>1, AddedToFacts
<1> QED
  BY <1>2, AddedEntries

\* The derived objects of an array are those that injection has added to it.
LEMMA DerivedIsAdded ==
    ASSUME Finished, NEW k \in Keys
    PROVE  Derived(k) = AddedTo(k)
<1> DEFINE p == Base(k)
           q == AddedTo(k)
           list == Items(doc, k)
           I == {i \in DOMAIN list : list[i].kind = "object" /\ list[i].tag \notin Literal \cup {None}}
<1>1. /\ p \in Seq(Entries) /\ q \in Seq(Entries) /\ list = p \o q
      /\ \A i \in 1..Len(p) : p[i].kind = "object" => p[i].tag \in Literal \cup {None}
  BY BaseFacts
<1>2. \A i \in 1..Len(q) : q[i].kind = "object" /\ q[i].tag \notin Literal \cup {None}
  BY AddedToEntries
<1>3. Derived(k) = Select(list, I)
  BY DEF Derived
<1> HIDE DEF p, q, list
<1>4. /\ Len(list) = Len(p) + Len(q) /\ Len(p) \in Nat /\ Len(q) \in Nat /\ DOMAIN list = 1..Len(list)
      /\ \A i \in 1..(Len(p) + Len(q)) : list[i] = IF i <= Len(p) THEN p[i] ELSE q[i - Len(p)]
  BY <1>1, ConcatProperties
<1>5. \A i \in 1..Len(p) : i \notin I
  BY <1>1, <1>4
<1>6. ASSUME NEW i \in 1..Len(q) PROVE Len(p) + i \in I
  <2>1. Len(p) + i \in DOMAIN list /\ ~(Len(p) + i <= Len(p)) /\ (Len(p) + i) - Len(p) = i
    BY <1>4
  <2>2. list[Len(p) + i] = q[i]
    BY <1>4, <2>1
  <2> QED
    BY <1>2, <2>1, <2>2
<1> HIDE DEF I
<1>7. Select(p \o q, I) = q
  BY <1>1, <1>5, <1>6, SelectSuffix
<1> QED
  BY <1>1, <1>3, <1>7 DEF q

\* The tags that injection has added are those needed and no module file's.
LEMMA DerivedTags ==
    ASSUME Finished
    PROVE  {o.tag : o \in AllDerived} = needed \ Literal
<1>1. added \in Seq(Entries) /\ \A t \in needed \ Literal : \E k \in 1..Len(added) : added[k].tag = t
  BY AddedEntries
<1>2. AllDerived = Range(AddedTo("outbounds")) \cup Range(AddedTo("endpoints"))
  BY DerivedIsAdded DEF AllDerived, Keys
<1>3. \A k \in Keys : AddedTo(k) \in Seq(Entries)
  BY <1>1, AddedToFacts
<1>4. \A k \in Keys : Range(AddedTo(k)) = {AddedTo(k)[i] : i \in 1..Len(AddedTo(k))}
  BY <1>3 DEF Range
<1>5. ASSUME NEW o \in AllDerived PROVE o.tag \in needed \ Literal
  <2>1. PICK k \in Keys : \E i \in 1..Len(AddedTo(k)) : o = AddedTo(k)[i]
    BY <1>2, <1>4, <1>5 DEF Keys
  <2> QED
    BY <2>1, AddedToEntries
<1>6. ASSUME NEW t \in needed \ Literal PROVE \E o \in AllDerived : o.tag = t
  <2>1. PICK i \in 1..Len(added) : added[i].tag = t
    BY <1>1
  <2>2. PICK k \in Keys : \E j \in 1..Len(AddedTo(k)) : AddedTo(k)[j] = added[i]
    BY <1>1, AddedToFacts
  <2>3. added[i] \in Range(AddedTo(k))
    BY <1>4, <2>2
  <2> QED
    BY <1>2, <2>1, <2>2, <2>3 DEF Keys
<1> QED
  BY <1>5, <1>6

\* A document that injection is done with satisfies what Finished says of it.
LEMMA InjectedIsFinished ==
    ASSUME InputsInv, SettingsInv, InjectorInv, DocumentInv, Injected
    PROVE  Finished
BY DEF Finished, InHand, Injected, SettingsInv, DocumentInv

\* A node is written exactly when the rules reach it (inject.go:32-34, apply.go:53-57):
\* the closure ends with the least set, and insertion leaves out nothing of it.
THEOREM ReferencedExactly == Spec => []ExactlyReferenced
<1>1. InputsInv /\ SettingsInv /\ InjectorInv /\ DocumentInv => ExactlyReferenced
  <2> SUFFICES ASSUME InputsInv, SettingsInv, InjectorInv, DocumentInv, Injected
               PROVE  {o.tag : o \in AllDerived} = Reached \ Literal
    BY DEF ExactlyReferenced
  <2>1. Finished
    BY InjectedIsFinished
  <2> QED
    BY <2>1, DerivedTags, NeededIsReached
<1> QED
  BY <1>1, InputsInvariant, SettingsInvariant, InjectorInvariant, DocumentInvariant, PTL

\* Where the elements of two lists are when one is put behind the other.
LEMMA TwoParts ==
    ASSUME NEW S, NEW p \in Seq(S), NEW q \in Seq(S), NEW list, list = p \o q
    PROVE  /\ list \in Seq(S) /\ Len(list) = Len(p) + Len(q) /\ DOMAIN list = 1..(Len(p) + Len(q))
           /\ \A i \in 1..(Len(p) + Len(q)) : list[i] = IF i <= Len(p) THEN p[i] ELSE q[i - Len(p)]
<1>1. /\ p \o q \in Seq(S) /\ Len(p \o q) = Len(p) + Len(q) /\ DOMAIN (p \o q) = 1..(Len(p) + Len(q))
      /\ \A i \in 1..(Len(p) + Len(q)) : (p \o q)[i] = IF i <= Len(p) THEN p[i] ELSE q[i - Len(p)]
  OBVIOUS
<1> QED
  BY <1>1

\* A list made of four, and where their elements are in it.
MadeOf(z, p, q, r, s) ==
    /\ DOMAIN z = 1..(Len(p) + Len(q) + Len(r) + Len(s))
    /\ \A i \in 1..Len(p) : z[i] = p[i]
    /\ \A i \in 1..Len(q) : z[Len(p) + i] = q[i]
    /\ \A i \in 1..Len(r) : z[Len(p) + Len(q) + i] = r[i]
    /\ \A i \in 1..Len(s) : z[Len(p) + Len(q) + Len(r) + i] = s[i]

\* Two lists behind one another, each of two behind one another.
LEMMA FourParts ==
    ASSUME NEW S, NEW p \in Seq(S), NEW q \in Seq(S), NEW r \in Seq(S), NEW s \in Seq(S),
           NEW x, x = p \o q, NEW y, y = r \o s, NEW z, z = x \o y
    PROVE  MadeOf(z, p, q, r, s)
<1> DEFINE a == Len(p)
           b == Len(q)
           c == Len(r)
           d == Len(s)
<1>1. /\ x \in Seq(S) /\ Len(x) = a + b
      /\ \A i \in 1..(a + b) : x[i] = IF i <= a THEN p[i] ELSE q[i - a]
  BY TwoParts
<1>2. /\ y \in Seq(S) /\ Len(y) = c + d
      /\ \A i \in 1..(c + d) : y[i] = IF i <= c THEN r[i] ELSE s[i - c]
  BY TwoParts
<1>3. /\ z \in Seq(S) /\ Len(z) = (a + b) + (c + d)
      /\ \A i \in 1..((a + b) + (c + d)) : z[i] = IF i <= a + b THEN x[i] ELSE y[i - (a + b)]
  <2>1. /\ z \in Seq(S) /\ Len(z) = Len(x) + Len(y)
        /\ \A i \in 1..(Len(x) + Len(y)) : z[i] = IF i <= Len(x) THEN x[i] ELSE y[i - Len(x)]
    BY <1>1, <1>2, TwoParts
  <2> QED
    BY <1>1, <1>2, <2>1
<1>4. a \in Nat /\ b \in Nat /\ c \in Nat /\ d \in Nat /\ DOMAIN z = 1..Len(z)
  BY <1>3
<1> HIDE DEF a, b, c, d
<1>5. ASSUME NEW i \in 1..a PROVE z[i] = p[i]
  <2>1. i \in 1..((a + b) + (c + d)) /\ i <= a + b /\ i \in 1..(a + b) /\ i <= a
    BY <1>4
  <2> QED
    BY <1>1, <1>3, <2>1
<1>6. ASSUME NEW i \in 1..b PROVE z[a + i] = q[i]
  <2>1. a + i \in 1..((a + b) + (c + d)) /\ a + i <= a + b /\ a + i \in 1..(a + b) /\ ~(a + i <= a) /\ (a + i) - a = i
    BY <1>4
  <2> QED
    BY <1>1, <1>3, <2>1
<1>7. ASSUME NEW i \in 1..c PROVE z[a + b + i] = r[i]
  <2>1. a + b + i \in 1..((a + b) + (c + d)) /\ ~(a + b + i <= a + b) /\ (a + b + i) - (a + b) = i
        /\ i \in 1..(c + d) /\ i <= c
    BY <1>4
  <2> QED
    BY <1>2, <1>3, <2>1
<1>8. ASSUME NEW i \in 1..d PROVE z[a + b + c + i] = s[i]
  <2>1. a + b + c + i \in 1..((a + b) + (c + d)) /\ ~(a + b + c + i <= a + b) /\ (a + b + c + i) - (a + b) = c + i
        /\ c + i \in 1..(c + d) /\ ~(c + i <= c) /\ (c + i) - c = i
    BY <1>4
  <2> QED
    BY <1>2, <1>3, <2>1
<1>9. DOMAIN z = 1..(a + b + c + d)
  BY <1>3, <1>4
<1> QED
  BY <1>3, <1>5, <1>6, <1>7, <1>8, <1>9 DEF a, b, c, d, MadeOf

\* A tag is added once, to one of the arrays.
LEMMA AddedOnce ==
    ASSUME Finished, NEW k \in Keys, NEW l \in Keys, NEW i \in 1..Len(AddedTo(k)), NEW j \in 1..Len(AddedTo(l)),
           AddedTo(k)[i].tag = AddedTo(l)[j].tag
    PROVE  k = l /\ i = j
<1>1. added \in Seq(Entries) /\ \A x, y \in 1..Len(added) : added[x].tag = added[y].tag => x = y
  BY AddedEntries
<1> DEFINE places(key) == {x \in DOMAIN added : (added[x].type \in EndpointTypes) = (key = "endpoints")}
<1>2. \A key \in Keys : AddedTo(key) = Select(added, places(key)) /\ AddedTo(key) \in Seq(Entries)
  BY <1>1, AddedToFacts DEF AddedTo, OfType
<1>3. \A key \in Keys : \A x \in places(key) : (added[x].type \in EndpointTypes) <=> (key = "endpoints")
  OBVIOUS
<1> HIDE DEF added, places
<1>4. \A key \in Keys : \E at : Picks(added, places(key), Select(added, places(key)), at)
  BY <1>1, SelectPositions
<1>5. PICK f : Picks(added, places(k), AddedTo(k), f)
  BY <1>2, <1>4
<1>6. PICK g : Picks(added, places(l), AddedTo(l), g)
  BY <1>2, <1>4
<1>7. /\ f \in [1..Len(AddedTo(k)) -> 1..Len(added)] /\ f[i] \in places(k) /\ AddedTo(k)[i] = added[f[i]]
      /\ \A x, y \in 1..Len(AddedTo(k)) : x < y => f[x] < f[y]
  BY <1>5 DEF Picks
<1>8. g \in [1..Len(AddedTo(l)) -> 1..Len(added)] /\ g[j] \in places(l) /\ AddedTo(l)[j] = added[g[j]]
  BY <1>6 DEF Picks
<1>9. f[i] = g[j]
  BY <1>1, <1>7, <1>8
<1>10. k = l
  BY <1>3, <1>7, <1>8, <1>9 DEF Keys
<1>11. \A x, y \in 1..Len(AddedTo(k)) : AddedTo(k)[x].tag = AddedTo(k)[y].tag => x = y
  <2> SUFFICES ASSUME NEW x \in 1..Len(AddedTo(k)), NEW y \in 1..Len(AddedTo(k)), AddedTo(k)[x].tag = AddedTo(k)[y].tag
               PROVE  x = y
    OBVIOUS
  <2>1. AddedTo(k)[x] = added[f[x]] /\ AddedTo(k)[y] = added[f[y]] /\ f[x] \in 1..Len(added) /\ f[y] \in 1..Len(added)
    BY <1>5 DEF Picks
  <2>2. f[x] = f[y]
    BY <1>1, <2>1
  <2>3. Len(AddedTo(k)) \in Nat
    BY <1>2
  <2>4. x < y \/ y < x \/ x = y
    BY <2>3
  <2>5. f[x] \in Nat /\ f[y] \in Nat
    BY <2>1
  <2>6. ~(f[x] < f[y]) /\ ~(f[y] < f[x])
    BY <2>2, <2>5
  <2> QED
    BY <1>7, <2>4, <2>6
<1> QED
  BY <1>10, <1>11

\* No other entry of a finished document has the tag of one that was added.
LEMMA AddedAlone ==
    ASSUME Finished, NEW o \in AllDerived
    PROVE  Cardinality({i \in DOMAIN ItemsOf(doc) : ItemsOf(doc)[i].tag = o.tag}) = 1
<1> DEFINE p == Base("outbounds")
           q == AddedTo("outbounds")
           r == Base("endpoints")
           s == AddedTo("endpoints")
           t == o.tag
           list == ItemsOf(doc)
           places == {i \in DOMAIN list : list[i].tag = t}
           a == Len(p)
           b == Len(q)
           c == Len(r)
           d == Len(s)
<1>1. p \in Seq(Entries) /\ q \in Seq(Entries) /\ r \in Seq(Entries) /\ s \in Seq(Entries)
  BY BaseFacts DEF Keys
<1> DEFINE x == Items(doc, "outbounds")
           y == Items(doc, "endpoints")
<1>2. x = p \o q /\ y = r \o s /\ list = x \o y
  BY BaseFacts DEF Keys, ItemsOf
<1>3. AllDerived = Range(q) \cup Range(s)
  BY DerivedIsAdded DEF AllDerived, Keys
<1>4. t \in needed \ Literal /\ t # None
  <2>1. PICK k \in Keys : o \in Range(AddedTo(k)) /\ AddedTo(k) \in Seq(Entries)
    BY <1>1, <1>3 DEF Keys
  <2>2. PICK i \in 1..Len(AddedTo(k)) : o = AddedTo(k)[i]
    BY <2>1 DEF Range
  <2> QED
    BY <2>2, AddedToEntries
<1>5. (\A i \in 1..a : p[i].tag # t) /\ (\A i \in 1..c : r[i].tag # t)
  <2>1. ASSUME NEW k \in Keys, NEW i \in 1..Len(Base(k)) PROVE Base(k)[i].tag # t
    <3>1. Base(k)[i].tag \in Literal \cup {None}
      <4>1. Base(k)[i].kind = "object" => Base(k)[i].tag \in Literal \cup {None}
        BY BaseFacts
      <4>2. Base(k)[i].kind # "object" => Base(k)[i].tag = None
        BY BaseFacts
      <4> QED
        BY <4>1, <4>2
    <3> HIDE DEF t
    <3> QED
      BY <1>4, <3>1
  <2> QED
    BY <2>1 DEF Keys
<1>6. /\ \A i, j \in 1..b : q[i].tag = q[j].tag => i = j
      /\ \A i, j \in 1..d : s[i].tag = s[j].tag => i = j
      /\ \A i \in 1..b : \A j \in 1..d : q[i].tag # s[j].tag
  BY AddedOnce DEF Keys
<1> HIDE DEF p, q, r, s, list, x, y
<1>7. /\ DOMAIN list = 1..(a + b + c + d) /\ a \in Nat /\ b \in Nat /\ c \in Nat /\ d \in Nat
      /\ \A i \in 1..a : list[i] = p[i]
      /\ \A i \in 1..b : list[a + i] = q[i]
      /\ \A i \in 1..c : list[a + b + i] = r[i]
      /\ \A i \in 1..d : list[a + b + c + i] = s[i]
  <2>1. MadeOf(list, p, q, r, s)
    BY <1>1, <1>2, FourParts
  <2> QED
    BY <1>1, <2>1 DEF MadeOf
<1>8. (\E i \in 1..b : q[i].tag = t) \/ (\E i \in 1..d : s[i].tag = t)
  <2>1. Range(q) = {q[i] : i \in 1..b} /\ Range(s) = {s[i] : i \in 1..d}
    BY <1>1 DEF Range
  <2> QED
    BY <1>3, <2>1
<1> HIDE DEF a, b, c, d, t
<1>9. ASSUME NEW i \in places
      PROVE  (\E j \in 1..b : i = a + j /\ q[j].tag = t) \/ (\E j \in 1..d : i = a + b + c + j /\ s[j].tag = t)
  <2>1. i \in 1..(a + b + c + d) /\ list[i].tag = t
    BY <1>7
  <2>2. \/ i \in 1..a \/ i - a \in 1..b \/ i - (a + b) \in 1..c \/ i - (a + b + c) \in 1..d
    BY <1>7, <2>1
  <2>3. i = a + (i - a) /\ i = a + b + (i - (a + b)) /\ i = a + b + c + (i - (a + b + c))
    BY <1>7, <2>1
  <2>4. i \notin 1..a
    BY <1>5, <1>7, <2>1
  <2>5. i - (a + b) \notin 1..c
    BY <1>5, <1>7, <2>1, <2>3
  <2>6. CASE i - a \in 1..b
    BY <1>7, <2>1, <2>3, <2>6
  <2>7. CASE i - (a + b + c) \in 1..d
    BY <1>7, <2>1, <2>3, <2>7
  <2> QED
    BY <2>2, <2>4, <2>5, <2>6, <2>7
<1>10. \E i : places = {i}
  <2>1. CASE \E j \in 1..b : q[j].tag = t
    <3>1. PICK j \in 1..b : q[j].tag = t
      BY <2>1
    <3>2. a + j \in places
      BY <1>7, <3>1
    <3>3. \A i \in places : i = a + j
      BY <1>6, <1>9, <3>1
    <3> QED
      BY <3>2, <3>3
  <2>2. CASE \E j \in 1..d : s[j].tag = t
    <3>1. PICK j \in 1..d : s[j].tag = t
      BY <2>2
    <3>2. a + b + c + j \in places
      BY <1>7, <3>1
    <3>3. \A i \in places : i = a + b + c + j
      BY <1>6, <1>9, <3>1
    <3> QED
      BY <3>2, <3>3
  <2> QED
    BY <1>8, <2>1, <2>2
<1>11. Cardinality(places) = 1
  BY <1>10, FS_Singleton
<1> QED
  BY <1>11 DEF list, t

\* What is needed and what the module files bring is in the document.
LEMMA TagsInDocument ==
    ASSUME Finished
    PROVE  /\ needed \cup Literal \subseteq documentTags(doc)
           /\ \A o \in Range(ItemsOf(doc)) : \E k \in Keys : o \in Range(Base(k)) \cup Range(AddedTo(k))
<1> DEFINE plain == Items(Assembled, "outbounds")
           own == Items(Assembled, "endpoints")
<1>1. plain \in Seq(Entries) /\ own \in Seq(Entries) /\ AppliedUpTo(plain, RuledItems)
  BY FinishedItems
<1>2. /\ \A k \in Keys : Base(k) \in Seq(Entries) /\ AddedTo(k) \in Seq(Entries) /\ Items(doc, k) = Base(k) \o AddedTo(k)
      /\ Base("outbounds") = RuledItems /\ Base("endpoints") = own
  BY BaseFacts DEF Base
<1> HIDE DEF plain, own, Base
<1>3. \A k \in Keys : Items(doc, k) \in Seq(Entries) /\ Range(Items(doc, k)) = Range(Base(k)) \cup Range(AddedTo(k))
  BY <1>2, RangeConcatenation, ConcatProperties
<1>4. Range(ItemsOf(doc)) = Range(Items(doc, "outbounds")) \cup Range(Items(doc, "endpoints"))
  BY <1>3, RangeConcatenation DEF ItemsOf, Keys
<1>5. \A o \in Range(ItemsOf(doc)) : o.kind = "object" /\ o.tag # None => o.tag \in documentTags(doc)
  BY DEF documentTags
<1>6. ASSUME NEW t \in Literal PROVE t \in documentTags(doc)
  <2>1. Range(ItemsOf(Assembled)) = Range(plain) \cup Range(own)
    BY <1>1, RangeConcatenation DEF ItemsOf, plain, own
  <2>2. PICK e \in Range(plain) \cup Range(own) : e.kind = "object" /\ e.tag = t /\ t # None
    BY <2>1 DEF Literal, documentTags
  <2>3. CASE e \in Range(own)
    BY <1>2, <1>3, <1>4, <1>5, <2>2, <2>3 DEF Keys
  <2>4. CASE e \in Range(plain)
    <3>1. PICK i \in 1..Len(plain) : e = plain[i]
      BY <1>1, <2>4 DEF Range
    <3>2. RuledItems \in Seq(Entries) /\ i \in 1..Len(RuledItems) /\ RuledItems[i].kind = "object" /\ RuledItems[i].tag = t
      BY <1>1, <2>2, <3>1 DEF AppliedUpTo, SameEntry
    <3>3. RuledItems[i] \in Range(Base("outbounds"))
      BY <1>2, <3>2 DEF Range
    <3> QED
      BY <1>3, <1>4, <1>5, <2>2, <3>2, <3>3 DEF Keys
  <2> QED
    BY <2>2, <2>3, <2>4
<1>7. ASSUME NEW t \in needed \ Literal PROVE t \in documentTags(doc)
  <2>1. PICK o \in AllDerived : o.tag = t
    BY DerivedTags, <1>7
  <2>2. PICK k \in Keys : o \in Range(AddedTo(k))
    BY DerivedIsAdded DEF AllDerived, Keys
  <2>3. PICK i \in 1..Len(AddedTo(k)) : o = AddedTo(k)[i]
    BY <1>2, <2>2 DEF Range
  <2>4. o.kind = "object" /\ o.tag # None
    BY <2>3, AddedToEntries
  <2>5. o \in Range(ItemsOf(doc))
    BY <1>3, <1>4, <2>2 DEF Keys
  <2> QED
    BY <1>5, <2>1, <2>4, <2>5
<1>8. \A o \in Range(ItemsOf(doc)) : \E k \in Keys : o \in Range(Base(k)) \cup Range(AddedTo(k))
  BY <1>3, <1>4 DEF Keys
<1> QED
  BY <1>6, <1>7, <1>8

\* What a finished document's objects list are tags it holds, if the module files do not
\* list them themselves.
LEMMA ListedIsThere ==
    ASSUME Finished, NEW o \in Range(ItemsOf(doc))
    PROVE  Listed(o) \subseteq LiteralMembers \cup documentTags(doc)
<1> DEFINE plain == Items(Assembled, "outbounds")
           own == Items(Assembled, "endpoints")
<1>1. plain \in Seq(Entries) /\ own \in Seq(Entries) /\ AppliedUpTo(plain, RuledItems)
  BY FinishedItems
<1>2. /\ \A k \in Keys : Base(k) \in Seq(Entries) /\ AddedTo(k) \in Seq(Entries)
      /\ Base("outbounds") = RuledItems /\ Base("endpoints") = own
  BY BaseFacts DEF Base
<1>3. Range(ItemsOf(Assembled)) = Range(plain) \cup Range(own)
  BY <1>1, RangeConcatenation DEF ItemsOf
<1>4. \A e \in Range(plain) \cup Range(own) : Listed(e) \subseteq LiteralMembers
  BY <1>3 DEF LiteralMembers
<1>5. PICK k \in Keys : o \in Range(Base(k)) \cup Range(AddedTo(k))
  BY TagsInDocument
<1> HIDE DEF plain, own, Base
<1>6. CASE o \in Range(AddedTo(k))
  <2>1. PICK i \in 1..Len(AddedTo(k)) : o = AddedTo(k)[i]
    BY <1>2, <1>6 DEF Range
  <2>2. o.members = <<>>
    BY <2>1, AddedToEntries
  <2>3. Listed(o) = {}
    BY <2>2 DEF Listed, Range
  <2> QED
    BY <2>3
<1>7. CASE o \in Range(Base(k)) /\ k = "endpoints"
  BY <1>2, <1>4, <1>7
<1>8. CASE o \in Range(Base(k)) /\ k = "outbounds"
  <2>1. PICK i \in 1..Len(plain) : o = RuledItems[i]
    <3>1. RuledItems \in Seq(Entries) /\ Len(RuledItems) = Len(plain)
      BY <1>1 DEF AppliedUpTo
    <3> QED
      BY <1>2, <1>8, <3>1 DEF Range
  <2>2. o.kind = plain[i].kind /\ Range(o.members) \subseteq Range(plain[i].members) \cup Wanted
    BY <1>1, <2>1 DEF AppliedUpTo, SameEntry
  <2>3. Listed(o) \subseteq Listed(plain[i]) \cup Wanted
    BY <2>2 DEF Listed
  <2>4. plain[i] \in Range(plain)
    BY <1>1 DEF Range
  <2>5. Wanted \subseteq documentTags(doc)
    BY NeededIsReached, TagsInDocument
  <2> QED
    BY <1>4, <2>3, <2>4, <2>5
<1> QED
  BY <1>5, <1>6, <1>7, <1>8 DEF Keys

\* The detour of an object that was added is in the document.
LEMMA DetourIsThere ==
    ASSUME Finished, NoCollision, NEW o \in AllDerived
    PROVE  o.detour \in documentTags(doc) \cup {None}
<1>1. PICK k \in Keys : o \in Range(AddedTo(k))
  BY DerivedIsAdded DEF AllDerived, Keys
<1>2. AddedTo(k) \in Seq(Entries)
  BY BaseFacts
<1>3. PICK i \in 1..Len(AddedTo(k)) : o = AddedTo(k)[i]
  BY <1>1, <1>2 DEF Range
<1>4. o.tag \in needed /\ o.detour = byTag[o.tag].detour
  BY <1>3, AddedToEntries
<1>5. o.detour \in needed \cup Literal \cup {None}
  BY <1>4, NeededIsReached DEF Settled
<1> QED
  BY <1>5, TagsInDocument

\* Injection is sound, whatever subscriptions hold: derived nodes take no tag of another
\* object, and members and detours are in the document.
THEOREM InjectionIsSound == Spec => []InjectionSound
<1>1. InputsInv /\ SettingsInv /\ InjectorInv /\ DocumentInv => InjectionSound
  <2> SUFFICES ASSUME InputsInv, SettingsInv, InjectorInv, DocumentInv, Injected
               PROVE  /\ \A o \in AllDerived : Cardinality({i \in DOMAIN ItemsOf(doc) : ItemsOf(doc)[i].tag = o.tag}) = 1
                      /\ \A o \in Range(ItemsOf(doc)) : Listed(o) \subseteq LiteralMembers \cup documentTags(doc)
                      /\ \A o \in AllDerived : o.detour \in documentTags(doc) \cup {None}
    BY DEF InjectionSound
  <2>1. Finished /\ NoCollision
    BY InjectedIsFinished DEF Injected
  <2> QED
    BY <2>1, AddedAlone, ListedIsThere, DetourIsThere
<1> QED
  BY <1>1, InputsInvariant, SettingsInvariant, InjectorInvariant, DocumentInvariant, PTL

\* The first place of its element in a list, and a list that is in order where its
\* elements come for the first time.
IsFirst(list, i) == \A j \in 1..(i - 1) : list[j] # list[i]

FirstsInOrder(list, named) ==
    \A i, j \in DOMAIN list : i < j /\ IsFirst(list, i) /\ IsFirst(list, j) => Ahead(list[i], list[j], named)

\* What is picked from a list in order, in its order, is in order.
LEMMA PickedInOrder ==
    ASSUME NEW S, NEW list \in Seq(S), NEW picked \in Seq(S), NEW named, InOrder(list, named),
           NEW at \in [1..Len(picked) -> 1..Len(list)],
           \A k \in 1..Len(picked) : picked[k] = list[at[k]],
           \A j, k \in 1..Len(picked) : j < k => at[j] < at[k]
    PROVE  InOrder(picked, named)
<1> SUFFICES ASSUME NEW i \in 1..Len(picked), NEW j \in 1..Len(picked), i < j
             PROVE  Ahead(picked[i], picked[j], named)
  <2>1. DOMAIN picked = 1..Len(picked)
    OBVIOUS
  <2> QED
    BY <2>1 DEF InOrder
<1>1. at[i] \in DOMAIN list /\ at[j] \in DOMAIN list /\ at[i] < at[j]
  OBVIOUS
<1>2. Ahead(list[at[i]], list[at[j]], named)
  BY <1>1 DEF InOrder
<1>3. picked[i] = list[at[i]] /\ picked[j] = list[at[j]]
  OBVIOUS
<1> QED
  BY <1>2, <1>3

\* So is what is picked from first places only.
LEMMA FirstsPicked ==
    ASSUME NEW S, NEW list \in Seq(S), NEW picked \in Seq(S), NEW named, FirstsInOrder(list, named),
           NEW at \in [1..Len(picked) -> 1..Len(list)],
           \A k \in 1..Len(picked) : picked[k] = list[at[k]] /\ IsFirst(list, at[k]),
           \A j, k \in 1..Len(picked) : j < k => at[j] < at[k]
    PROVE  InOrder(picked, named)
<1> SUFFICES ASSUME NEW i \in 1..Len(picked), NEW j \in 1..Len(picked), i < j
             PROVE  Ahead(picked[i], picked[j], named)
  <2>1. DOMAIN picked = 1..Len(picked)
    OBVIOUS
  <2> QED
    BY <2>1 DEF InOrder
<1>1. at[i] \in DOMAIN list /\ at[j] \in DOMAIN list /\ at[i] < at[j]
  OBVIOUS
<1>2. IsFirst(list, at[i]) /\ IsFirst(list, at[j])
  OBVIOUS
<1>3. Ahead(list[at[i]], list[at[j]], named)
  BY <1>1, <1>2 DEF FirstsInOrder
<1>4. picked[i] = list[at[i]] /\ picked[j] = list[at[j]]
  OBVIOUS
<1> QED
  BY <1>3, <1>4

\* The tags of a list of nodes.
TagsOf(list) == [i \in DOMAIN list |-> list[i].tag]

\* Generated nodes in order may stand before nodes of the pool in order.
LEMMA ChainsFirst ==
    ASSUME NEW a \in Seq(Nodes), NEW b \in Seq(Nodes), NEW named,
           Tags(a) \cap Tags(pool) = {}, FirstsInOrder(TagsOf(a), named),
           Tags(b) \subseteq Tags(pool), InOrder(TagsOf(b), named),
           NEW ab, ab = a \o b
    PROVE  FirstsInOrder(TagsOf(ab), named)
<1>1. /\ ab \in Seq(Nodes) /\ Len(ab) = Len(a) + Len(b)
      /\ \A i \in 1..(Len(a) + Len(b)) : ab[i] = IF i <= Len(a) THEN a[i] ELSE b[i - Len(a)]
  BY TwoParts
<1>2. DOMAIN ab = 1..(Len(a) + Len(b)) /\ DOMAIN a = 1..Len(a) /\ DOMAIN b = 1..Len(b) /\ Len(a) \in Nat /\ Len(b) \in Nat
  BY <1>1
<1> DEFINE m == Len(a)
           n == Len(b)
<1> HIDE DEF m, n
<1> SUFFICES ASSUME NEW i \in 1..(m + n), NEW j \in 1..(m + n), i < j,
                    IsFirst(TagsOf(ab), i), IsFirst(TagsOf(ab), j)
             PROVE  Ahead(ab[i].tag, ab[j].tag, named)
  BY <1>2 DEF FirstsInOrder, TagsOf, m, n
<1>3. ASSUME NEW k \in 1..(m + n), k <= m
      PROVE  k \in DOMAIN a /\ ab[k] = a[k] /\ a[k].tag \notin Tags(pool)
  <2>1. k \in DOMAIN a /\ ab[k] = a[k]
    BY <1>1, <1>2, <1>3 DEF m, n
  <2>2. a[k].tag \in Tags(a)
    BY <2>1 DEF Tags
  <2> QED
    BY <2>1, <2>2
<1>4. ASSUME NEW k \in 1..(m + n), ~(k <= m)
      PROVE  k - m \in DOMAIN b /\ ab[k] = b[k - m] /\ b[k - m].tag \in Tags(pool)
  <2>1. k - m \in DOMAIN b /\ ab[k] = b[k - m]
    BY <1>1, <1>2, <1>4 DEF m, n
  <2>2. b[k - m].tag \in Tags(b)
    BY <2>1 DEF Tags
  <2> QED
    BY <2>1, <2>2
<1>5. CASE j <= m
  <2>1. i <= m
    BY <1>2, <1>5 DEF m, n
  <2>2. i \in DOMAIN a /\ j \in DOMAIN a /\ ab[i] = a[i] /\ ab[j] = a[j]
    BY <1>3, <1>5, <2>1
  <2>3. ASSUME NEW k \in 1..m, IsFirst(TagsOf(ab), k) PROVE IsFirst(TagsOf(a), k)
    <3>1. \A l \in 1..k : l \in DOMAIN a /\ l \in DOMAIN ab /\ ab[l] = a[l]
      BY <1>1, <1>2 DEF m, n
    <3>2. k \in 1..k /\ \A l \in 1..(k - 1) : l \in 1..k
      BY <1>2 DEF m
    <3>3. \A l \in 1..k : TagsOf(ab)[l] = TagsOf(a)[l]
      BY <3>1 DEF TagsOf
    <3> QED
      BY <2>3, <3>2, <3>3 DEF IsFirst
  <2>4. IsFirst(TagsOf(a), i) /\ IsFirst(TagsOf(a), j)
    BY <1>2, <2>2, <2>3 DEF m
  <2>5. Ahead(TagsOf(a)[i], TagsOf(a)[j], named)
    BY <2>2, <2>4 DEF FirstsInOrder, TagsOf
  <2> QED
    BY <2>2, <2>5 DEF TagsOf
<1>6. CASE i <= m /\ ~(j <= m)
  BY <1>3, <1>4, <1>6 DEF Ahead
<1>7. CASE ~(i <= m)
  <2>1. ~(j <= m) /\ i - m < j - m
    BY <1>2, <1>7 DEF m, n
  <2>2. i - m \in DOMAIN b /\ j - m \in DOMAIN b /\ ab[i] = b[i - m] /\ ab[j] = b[j - m]
    BY <1>4, <1>7, <2>1
  <2>3. Ahead(b[i - m].tag, b[j - m].tag, named)
    BY <2>1, <2>2 DEF InOrder, TagsOf
  <2> QED
    BY <2>2, <2>3
<1> QED
  BY <1>5, <1>6, <1>7

\* Nothing of a list is in order.
LEMMA NothingInOrder == \A named : InOrder(<<>>, named)
BY DEF InOrder

\* The relays of named in a row, the others as nothing.
TakenFrom(named) == [i \in DOMAIN config.relays |-> IF i \in named THEN relays[i] ELSE <<>>]

LEMMA TakenFacts ==
    ASSUME InputsInv, InjectorInv, Building, pc # "relays", NEW named, named \subseteq DOMAIN config.relays
    PROVE  /\ relays \in Seq(Seq(Nodes)) /\ DOMAIN relays = DOMAIN config.relays /\ named \subseteq Nat
           /\ TakenFrom(named) \in Seq(Seq(Nodes)) /\ DOMAIN TakenFrom(named) = DOMAIN config.relays
           /\ \A i \in DOMAIN config.relays :
                TakenFrom(named)[i] = IF i \in named THEN relays[i] ELSE <<>>
<1>1. /\ pool = newPool /\ Len(relays) = Len(config.relays) /\ Len(relays) \in Nat
      /\ relays = [i \in 1..Len(relays) |-> relayNodes(config.relays[i])]
  BY DEF InjectorInv, InputsInv, Configs
<1>2. relays \in Seq(Seq(Nodes))
  BY <1>1, PoolFacts, AllRelaysFacts
<1>3. DOMAIN config.relays = 1..Len(relays) /\ DOMAIN relays = 1..Len(relays)
  BY <1>1, <1>2 DEF InputsInv, Configs
<1> DEFINE own(i) == IF i \in named THEN relays[i] ELSE <<>>
<1>4. \A i \in 1..Len(relays) : own(i) \in Seq(Nodes)
  BY <1>2
<1>5. TakenFrom(named) = [i \in 1..Len(relays) |-> own(i)]
  BY <1>3 DEF TakenFrom
<1>6. TakenFrom(named) \in Seq(Seq(Nodes))
  <2> HIDE DEF own
  <2> QED
    BY <1>1, <1>4, <1>5
<1> QED
  BY <1>2, <1>3, <1>5, <1>6

\* Lists that are those of the relays in named, and no others.
OnlyOf(lists, named) ==
    /\ named \subseteq DOMAIN lists
    /\ \A i \in DOMAIN lists : lists[i] = IF i \in named THEN relays[i] ELSE <<>>

\* A generated node that has its tag first among those of the relays in named is where
\* it is generated.
LEMMA FirstIsGenerated ==
    ASSUME NEW lists \in Seq(Seq(Nodes)), NEW named, OnlyOf(lists, named),
           NEW all \in Seq(Nodes), NEW row, NEW col, PlacesUpTo(lists, Len(lists), all, row, col),
           NEW x \in 1..Len(all), IsFirst(TagsOf(all), x)
    PROVE  /\ row[x] \in Nat /\ col[x] \in Nat
           /\ GeneratedAt(all[x].tag, named) = <<row[x], col[x]>>
<1> DEFINE p == row[x]
           q == col[x]
           tag == all[x].tag
           makers == {k \in named : tag \in Tags(relays[k])}
           same(i) == {j \in DOMAIN relays[i] : relays[i][j].tag = tag}
<1>a. /\ named \subseteq DOMAIN lists
      /\ \A i \in DOMAIN lists : lists[i] = IF i \in named THEN relays[i] ELSE <<>>
  BY DEF OnlyOf
<1>b. \A y \in 1..(x - 1) : all[y].tag # all[x].tag
  <2>1. \A y \in DOMAIN all : TagsOf(all)[y] = all[y].tag
    BY DEF TagsOf
  <2>2. x \in DOMAIN all /\ \A y \in 1..(x - 1) : y \in DOMAIN all
    OBVIOUS
  <2> QED
    BY <2>1, <2>2 DEF IsFirst
<1>1. DOMAIN lists = 1..Len(lists) /\ Len(lists) \in Nat /\ named \subseteq Nat
  BY <1>a
<1>2. p \in 1..Len(lists) /\ q \in 1..Len(lists[p]) /\ all[x] = lists[p][q] /\ p \in Nat /\ q \in Nat
  BY DEF PlacesUpTo
<1>3. p \in named /\ lists[p] = relays[p] /\ lists[p] \in Seq(Nodes)
  BY <1>a, <1>1, <1>2
<1>4. ASSUME NEW r \in 1..Len(lists), NEW c \in 1..Len(lists[r]), lists[r][c].tag = tag
      PROVE  p < r \/ (p = r /\ q <= c)
  <2>1. PICK y \in 1..Len(all) : row[y] = r /\ col[y] = c
    BY DEF PlacesUpTo
  <2>2. all[y].tag = tag
    BY <1>4, <2>1 DEF PlacesUpTo
  <2>3. ~(y < x)
    <3>1. y < x => y \in 1..(x - 1)
      OBVIOUS
    <3> QED
      BY <1>b, <2>2, <3>1
  <2>4. CASE y = x
    BY <1>2, <2>1, <2>4
  <2>5. CASE x < y
    <3>1. row[x] < row[y] \/ (row[x] = row[y] /\ col[x] < col[y])
      BY <2>5 DEF PlacesUpTo
    <3>2. lists[r] \in Seq(Nodes) /\ c \in Nat
      BY <1>1
    <3> QED
      BY <1>2, <2>1, <3>1, <3>2
  <2> QED
    BY <2>3, <2>4, <2>5
<1> HIDE DEF p, q
<1>5. p \in makers /\ makers \subseteq Nat
  <2>1. q \in DOMAIN relays[p] /\ relays[p][q].tag = tag
    BY <1>2, <1>3
  <2> QED
    BY <1>1, <1>3, <2>1 DEF Tags
<1>6. Min(makers) \in makers /\ Min(makers) <= p
  BY <1>5, MinFacts
<1>7. Min(makers) = p
  <2> DEFINE r == Min(makers)
  <2>1. r \in named /\ tag \in Tags(relays[r]) /\ r <= p /\ r \in Nat
    BY <1>5, <1>6
  <2> HIDE DEF r, makers
  <2>2. r \in DOMAIN lists /\ lists[r] = relays[r] /\ lists[r] \in Seq(Nodes)
    BY <1>a, <1>1, <2>1
  <2>3. PICK c \in DOMAIN relays[r] : relays[r][c].tag = tag
    BY <2>1 DEF Tags
  <2>4. r \in 1..Len(lists) /\ c \in 1..Len(lists[r]) /\ lists[r][c].tag = tag
    BY <1>1, <2>2, <2>3
  <2>5. p < r \/ p = r
    BY <1>4, <2>4
  <2>6. r = p
    BY <1>2, <2>1, <2>5
  <2> QED
    BY <2>6 DEF r
<1>8. q \in same(p) /\ same(p) \subseteq Nat
  BY <1>2, <1>3
<1>9. Min(same(p)) \in same(p) /\ Min(same(p)) <= q
  BY <1>8, MinFacts
<1>10. Min(same(p)) = q
  <2> DEFINE c == Min(same(p))
  <2>1. c \in DOMAIN relays[p] /\ relays[p][c].tag = tag /\ c <= q /\ c \in Nat
    BY <1>8, <1>9
  <2> HIDE DEF c, same
  <2>2. p \in 1..Len(lists) /\ c \in 1..Len(lists[p]) /\ lists[p][c].tag = tag
    BY <1>2, <1>3, <2>1
  <2>3. q <= c
    BY <1>2, <1>4, <2>2
  <2>4. c = q
    BY <1>2, <2>1, <2>3
  <2> QED
    BY <2>4 DEF c
<1>11. GeneratedAt(tag, named) = <<p, q>>
  BY <1>7, <1>10 DEF GeneratedAt
<1> QED
  BY <1>2, <1>11 DEF p, q

\* Relays in the order of the configuration are in order.
LEMMA ChainsInOrder ==
    ASSUME InputsInv, InjectorInv, Building, pc # "relays", NoCollision,
           NEW named, named \subseteq DOMAIN config.relays,
           NEW chains, chains = Concat(TakenFrom(named))
    PROVE  chains \in Seq(Nodes) /\ Tags(chains) \cap Tags(pool) = {} /\ FirstsInOrder(TagsOf(chains), named)
<1> DEFINE lists == TakenFrom(named)
<1>1. /\ relays \in Seq(Seq(Nodes)) /\ DOMAIN relays = DOMAIN config.relays
      /\ lists \in Seq(Seq(Nodes)) /\ DOMAIN lists = DOMAIN config.relays
      /\ \A i \in DOMAIN lists : lists[i] = IF i \in named THEN relays[i] ELSE <<>>
  BY TakenFacts
<1> HIDE DEF lists
<1>2. chains \in Seq(Nodes)
  BY <1>1, ConcatPlaces DEF lists
<1>3. PICK row, col : PlacesUpTo(lists, Len(lists), chains, row, col)
  BY <1>1, ConcatPlaces DEF lists
<1>4. DOMAIN chains = 1..Len(chains) /\ Len(chains) \in Nat /\ DOMAIN lists = 1..Len(lists)
  BY <1>1, <1>2
<1>5. ASSUME NEW x \in 1..Len(chains) PROVE chains[x].tag \notin Tags(pool)
  <2> DEFINE r == row[x]
             c == col[x]
  <2>1. r \in DOMAIN lists /\ c \in 1..Len(lists[r]) /\ chains[x] = lists[r][c]
    BY <1>3, <1>4 DEF PlacesUpTo
  <2> HIDE DEF r, c
  <2>2. lists[r] = relays[r] /\ r \in 1..Len(relays) /\ c \in 1..Len(relays[r])
    <3>1. lists[r] # <<>>
      BY <2>1
    <3> QED
      BY <1>1, <2>1, <3>1
  <2>4. /\ AllRelays \in Seq(Nodes)
        /\ \A a \in 1..Len(relays) : \A b \in 1..Len(relays[a]) :
             \E k \in 1..Len(AllRelays) : AllRelays[k] = relays[a][b]
    BY <1>1, ConcatElements DEF AllRelays
  <2>3. PICK k \in 1..Len(AllRelays) : AllRelays[k] = relays[r][c]
    BY <2>2, <2>4
  <2>5. AllRelays[k].tag \in Tags(AllRelays)
    BY <2>4 DEF Tags
  <2> QED
    BY <2>1, <2>2, <2>3, <2>5 DEF NoCollision
<1>6. Tags(chains) \cap Tags(pool) = {}
  BY <1>4, <1>5 DEF Tags
<1>7. ASSUME NEW x \in 1..Len(chains), IsFirst(TagsOf(chains), x)
      PROVE  /\ row[x] \in Nat /\ col[x] \in Nat
             /\ GeneratedAt(chains[x].tag, named) = <<row[x], col[x]>>
  <2>1. OnlyOf(lists, named)
    BY <1>1 DEF OnlyOf
  <2>2. lists \in Seq(Seq(Nodes))
    BY <1>1
  <2> QED
    BY <1>2, <1>3, <1>7, <2>1, <2>2, FirstIsGenerated
<1>8. ASSUME NEW x \in 1..Len(chains), NEW y \in 1..Len(chains), x < y,
             IsFirst(TagsOf(chains), x), IsFirst(TagsOf(chains), y)
      PROVE  Ahead(chains[x].tag, chains[y].tag, named)
  <2>1. row[x] < row[y] \/ (row[x] = row[y] /\ col[x] < col[y])
    BY <1>3, <1>8 DEF PlacesUpTo
  <2>2. Before(<<row[x], col[x]>>, <<row[y], col[y]>>)
    BY <1>7, <1>8, <2>1 DEF Before
  <2>3. Before(GeneratedAt(chains[x].tag, named), GeneratedAt(chains[y].tag, named))
    BY <1>7, <1>8, <2>2
  <2> QED
    BY <1>5, <2>3 DEF Ahead
<1>9. FirstsInOrder(TagsOf(chains), named)
  BY <1>4, <1>8 DEF FirstsInOrder, TagsOf
<1> QED
  BY <1>2, <1>6, <1>9

\* A name is that of one subscription.
LEMMA SubscriptionFound ==
    ASSUME InputsInv, LoadConfig(config), NEW i \in 1..Len(config.subscriptions)
    PROVE  (CHOOSE j \in DOMAIN config.subscriptions : config.subscriptions[j].name = config.subscriptions[i].name) = i
<1> DEFINE list == config.subscriptions
<1>1. list \in Seq(Subscriptions) /\ DOMAIN list = 1..Len(list)
  BY DEF InputsInv, Configs
<1>2. IsInjective([j \in DOMAIN list |-> list[j].name])
  BY DEF LoadConfig, Validate, validateSubscriptions, Named
<1>3. \A j, k \in DOMAIN list : list[j].name = list[k].name => j = k
  BY <1>2 DEF IsInjective
<1> HIDE DEF list
<1> QED
  BY <1>1, <1>3 DEF list

\* Where the enabled subscriptions are in the configuration.
EnabledAt(at) ==
    /\ at \in [1..Len(Enabled) -> 1..Len(config.subscriptions)]
    /\ \A k \in 1..Len(Enabled) : Enabled[k] = config.subscriptions[at[k]]
    /\ \A j, k \in 1..Len(Enabled) : j < k => at[j] < at[k]

\* There are such places.
LEMMA EnabledPlaces ==
    ASSUME InputsInv
    PROVE  \E at : EnabledAt(at)
<1>1. PICK at \in [1..Len(Enabled) -> 1..Len(config.subscriptions)] :
                /\ \A k \in DOMAIN at : Enabled[k] = config.subscriptions[at[k]]
                /\ \A j, k \in DOMAIN at : j < k => at[j] < at[k]
  BY EnabledFacts
<1>2. DOMAIN at = 1..Len(Enabled)
  OBVIOUS
<1>3. EnabledAt(at)
  BY <1>1, <1>2 DEF EnabledAt
<1> QED
  BY <1>3

\* The first of a node's two coordinates is its subscription's, the second one its place
\* in what was fetched for it.
LEMMA DeclaredIn ==
    ASSUME InputsInv, LoadConfig(config), NEW at, EnabledAt(at), NEW p \in 1..Len(Enabled),
           NEW tag, belongsTo(tag, Enabled[p].name)
    PROVE  /\ DeclaredAt(tag) = <<at[p], Min({j \in DOMAIN Fetched[p] : Fetched[p][j].tag = tag})>>
           /\ DeclaredAt(tag)[1] = at[p]
<1>1. Head(tag) = Enabled[p].name
  BY DEF belongsTo
<1>2. Fetched[p] = nodes[Head(tag)]
  BY <1>1, EnabledFacts
<1>3. at[p] \in 1..Len(config.subscriptions) /\ Head(tag) = config.subscriptions[at[p]].name
  BY <1>1 DEF EnabledAt
<1>4. (CHOOSE i \in DOMAIN config.subscriptions : config.subscriptions[i].name = Head(tag)) = at[p]
  BY <1>3, SubscriptionFound
<1>5. DeclaredAt(tag) = <<at[p], Min({j \in DOMAIN nodes[Head(tag)] : nodes[Head(tag)][j].tag = tag})>>
  BY <1>4 DEF DeclaredAt
<1> QED
  BY <1>2, <1>5

\* The node that has its tag first among all that were fetched is where it is declared.
LEMMA FirstIsDeclared ==
    ASSUME InputsInv, LoadConfig(config), NEW at, EnabledAt(at), NEW row, NEW col,
           NEW all, all = Concat(Fetched), PlacesUpTo(Fetched, Len(Fetched), all, row, col),
           NEW x \in 1..Len(all), all[x].tag # None, \A y \in 1..(x - 1) : all[y].tag # all[x].tag
    PROVE  /\ row[x] \in 1..Len(Enabled) /\ col[x] \in Nat
           /\ DeclaredAt(all[x].tag) = <<at[row[x]], col[x]>>
<1> DEFINE p == row[x]
           q == col[x]
           tag == all[x].tag
           same == {j \in DOMAIN Fetched[p] : Fetched[p][j].tag = tag}
<1>1. /\ Fetched \in Seq(Seq(Nodes)) /\ Len(Fetched) = Len(Enabled)
      /\ \A k \in 1..Len(Enabled) : Fetched[k] = nodes[Enabled[k].name] /\ Enabled[k].name \in DOMAIN nodes
  BY EnabledFacts
<1>2. p \in 1..Len(Fetched) /\ q \in 1..Len(Fetched[p]) /\ all[x] = Fetched[p][q] /\ p \in Nat /\ q \in Nat
  BY DEF PlacesUpTo
<1> HIDE DEF p, q
<1>3. Fetched[p] \in Seq(Nodes)
  BY <1>1, <1>2
<1>4. Fetched[p] = nodes[Enabled[p].name] /\ Enabled[p].name \in DOMAIN nodes /\ p \in 1..Len(Enabled)
  BY <1>1, <1>2
<1>5. q \in DOMAIN nodes[Enabled[p].name] /\ nodes[Enabled[p].name][q].tag = tag
  BY <1>2, <1>3, <1>4
<1>6. belongsTo(tag, Enabled[p].name)
  BY <1>4, <1>5 DEF InputsInv
<1>7. same \subseteq Nat /\ q \in same
  BY <1>2, <1>3
<1>8. Min(same) \in same /\ \A j \in same : Min(same) <= j
  BY <1>7, MinFacts
<1>9. Min(same) = q
  <2> DEFINE m == Min(same)
  <2>1. m \in 1..Len(Fetched[p]) /\ Fetched[p][m].tag = tag /\ m <= q /\ m \in Nat
    BY <1>3, <1>7, <1>8
  <2> HIDE DEF m, same
  <2> SUFFICES ASSUME m # q PROVE FALSE
    BY DEF m
  <2>2. m < q
    BY <1>2, <2>1
  <2>3. PICK y \in 1..Len(all) : row[y] = p /\ col[y] = m
    BY <1>2, <2>1 DEF PlacesUpTo
  <2>4. all[y] = Fetched[p][m]
    BY <2>3 DEF PlacesUpTo
  <2>5. ~(x < y) /\ x # y
    <3>1. x < y => row[x] < row[y] \/ (row[x] = row[y] /\ col[x] < col[y])
      BY DEF PlacesUpTo
    <3>2. row[x] = p /\ col[x] = q
      BY DEF p, q
    <3> QED
      BY <1>2, <2>1, <2>2, <2>3, <3>1, <3>2
  <2>6. all \in Seq(Nodes)
    BY <1>1, ConcatElements
  <2>7. y \in 1..(x - 1)
    BY <2>5, <2>6
  <2> QED
    BY <2>1, <2>4, <2>7
<1>10. DeclaredAt(tag) = <<at[p], Min(same)>>
  BY <1>4, <1>6, DeclaredIn
<1> QED
  BY <1>2, <1>4, <1>9, <1>10 DEF p, q

\* The pool is in the order of declaration.
LEMMA PoolInOrder ==
    ASSUME InputsInv, LoadConfig(config), NEW a \in 1..Len(newPool), NEW b \in 1..Len(newPool), a < b
    PROVE  Before(DeclaredAt(newPool[a].tag), DeclaredAt(newPool[b].tag))
<1> DEFINE all == Concat(Fetched)
           I == {i \in DOMAIN all : all[i].tag # None}
           offered == Offered
           first == newPool
<1>1. Fetched \in Seq(Seq(Nodes))
  BY EnabledFacts
<1>2. all \in Seq(Nodes)
  BY <1>1, ConcatElements
<1>3. PICK at : EnabledAt(at)
  BY EnabledPlaces
<1>4. PICK row, col : PlacesUpTo(Fetched, Len(Fetched), all, row, col)
  BY <1>1, ConcatPlaces
<1>5. offered = Select(all, I) /\ DOMAIN all = 1..Len(all) /\ Len(all) \in Nat
  BY <1>2, OfferedDef
<1>a. \A i : i \in I <=> i \in 1..Len(all) /\ all[i].tag # None
  BY <1>5
<1>b. all = Concat(Fetched)
  OBVIOUS
<1> HIDE DEF all, I
<1>6. PICK g : Picks(all, I, Select(all, I), g)
  BY <1>2, SelectPositions
<1>7. offered \in Seq(Nodes)
  BY <1>2, <1>5, SelectElements
<1>c. Picks(all, I, offered, g)
  BY <1>5, <1>6
<1>d. first = FirstOfTag(offered)
  BY DEF newPool
<1> HIDE DEF offered, first
<1>8. PICK f \in [1..Len(first) -> 1..Len(offered)] :
        /\ \A k \in DOMAIN f : /\ first[k] = offered[f[k]]
                               /\ \A j \in 1..(f[k] - 1) : offered[j].tag # offered[f[k]].tag
        /\ \A j, k \in DOMAIN f : j < k => f[j] < f[k]
  BY <1>7, <1>d, FirstOfTagFacts
<1>9. /\ g \in [1..Len(offered) -> 1..Len(all)]
      /\ \A k \in 1..Len(offered) : g[k] \in I /\ offered[k] = all[g[k]]
      /\ \A j, k \in 1..Len(offered) : j < k => g[j] < g[k]
      /\ \A i \in 1..Len(all) : i \in I => \E k \in 1..Len(offered) : g[k] = i
  BY <1>c DEF Picks
<1>10. ASSUME NEW k \in 1..Len(first)
       PROVE  LET x == g[f[k]] IN
              /\ x \in 1..Len(all) /\ first[k] = all[x]
              /\ row[x] \in 1..Len(Enabled) /\ col[x] \in Nat
              /\ DeclaredAt(first[k].tag) = <<at[row[x]], col[x]>>
  <2> DEFINE x == g[f[k]]
  <2>1. f[k] \in 1..Len(offered) /\ first[k] = offered[f[k]] /\ x \in I /\ x \in 1..Len(all) /\ offered[f[k]] = all[x]
    BY <1>8, <1>9
  <2>2. all[x].tag # None
    BY <1>a, <2>1
  <2>3. ASSUME NEW y \in 1..(x - 1), all[y].tag = all[x].tag PROVE FALSE
    <3>1. y \in 1..Len(all) /\ y < x /\ y \in Nat /\ x \in Nat
      BY <1>5, <2>1
    <3>2. y \in I
      BY <1>a, <2>2, <2>3, <3>1
    <3>3. PICK j \in 1..Len(offered) : g[j] = y
      BY <1>9, <3>1, <3>2
    <3>4. Len(offered) \in Nat /\ f[k] \in Nat /\ j \in Nat
      BY <1>7, <2>1
    <3>5. f[k] < j \/ f[k] = j \/ j < f[k]
      BY <3>4
    <3>6. f[k] < j => x < y
      BY <1>9, <2>1, <3>3
    <3>7. f[k] # j
      BY <3>1, <3>3
    <3>8. j \in 1..(f[k] - 1)
      BY <3>1, <3>4, <3>5, <3>6, <3>7
    <3>9. offered[j].tag # offered[f[k]].tag
      BY <1>8, <3>8
    <3>10. offered[j] = all[y]
      BY <1>9, <3>3
    <3> QED
      BY <2>1, <2>3, <3>9, <3>10
  <2> HIDE DEF x
  <2>4. /\ row[x] \in 1..Len(Enabled) /\ col[x] \in Nat
        /\ DeclaredAt(all[x].tag) = <<at[row[x]], col[x]>>
    BY <1>3, <1>4, <1>b, <2>1, <2>2, <2>3, FirstIsDeclared
  <2> QED
    BY <2>1, <2>4 DEF x
<1> DEFINE x == g[f[a]]
           y == g[f[b]]
<1>11. a \in 1..Len(first) /\ b \in 1..Len(first)
  BY DEF first
<1>12. /\ x \in 1..Len(all) /\ row[x] \in 1..Len(Enabled) /\ col[x] \in Nat
       /\ DeclaredAt(first[a].tag) = <<at[row[x]], col[x]>>
  BY <1>10, <1>11
<1>13. /\ y \in 1..Len(all) /\ row[y] \in 1..Len(Enabled) /\ col[y] \in Nat
       /\ DeclaredAt(first[b].tag) = <<at[row[y]], col[y]>>
  BY <1>10, <1>11
<1>14. x < y
  <2>1. f[a] < f[b] /\ f[a] \in 1..Len(offered) /\ f[b] \in 1..Len(offered)
    BY <1>8, <1>11
  <2> QED
    BY <1>9, <2>1
<1> HIDE DEF x, y
<1>15. row[x] < row[y] \/ (row[x] = row[y] /\ col[x] < col[y])
  BY <1>4, <1>12, <1>13, <1>14 DEF PlacesUpTo
<1>16. row[x] < row[y] => at[row[x]] < at[row[y]]
  BY <1>3, <1>12, <1>13 DEF EnabledAt
<1>17. Before(<<at[row[x]], col[x]>>, <<at[row[y]], col[y]>>)
  BY <1>15, <1>16 DEF Before
<1> QED
  BY <1>12, <1>13, <1>17 DEF first

\* Each of the lists is in the pool's order.
InPoolOrder(parts) ==
    \A a \in 1..Len(Enabled) : \A b, c \in 1..Len(parts[a]) : b < c =>
        \E i, j \in 1..Len(pool) : i < j /\ parts[a][b] = pool[i] /\ parts[a][c] = pool[j]

\* What a selector takes of one subscription is in the pool's order.
LEMMA PartInOrder ==
    ASSUME InputsInv, pool \in Seq(Nodes), NEW sel
    PROVE  InPoolOrder(Parts(sel))
<1> SUFFICES ASSUME NEW a \in 1..Len(Enabled),
                    NEW b \in 1..Len(Parts(sel)[a]), NEW c \in 1..Len(Parts(sel)[a]), b < c
             PROVE  \E i, j \in 1..Len(pool) : i < j /\ Parts(sel)[a][b] = pool[i] /\ Parts(sel)[a][c] = pool[j]
  BY DEF InPoolOrder
<1> DEFINE s == Enabled[a]
           I == {i \in DOMAIN pool : /\ belongsTo(pool[i].tag, s.name)
                                     /\ matches(pool[i].tag, sel.include, sel.exclude)}
           part == Parts(sel)[a]
<1>1. Enabled \in Seq(Subscriptions)
  BY EnabledFacts
<1>2. part = IF s.name \in Range(sel.from) THEN From(sel, s) ELSE <<>>
  BY <1>1 DEF Parts
<1>3. From(sel, s) = Select(pool, I)
  BY DEF From
<1> HIDE DEF I, part, s
<1>4. part # <<>>
  <2>1. b \in 1..Len(part)
    BY DEF part
  <2> QED
    BY <2>1
<1>5. part = Select(pool, I)
  BY <1>2, <1>3, <1>4
<1>6. PICK f : Picks(pool, I, part, f)
  BY <1>5, SelectPositions
<1>7. b \in 1..Len(part) /\ c \in 1..Len(part)
  BY DEF part
<1>8. f[b] \in 1..Len(pool) /\ f[c] \in 1..Len(pool) /\ f[b] < f[c] /\ part[b] = pool[f[b]] /\ part[c] = pool[f[c]]
  BY <1>6, <1>7 DEF Picks
<1> QED
  BY <1>8 DEF part

\* What a selector takes is in the order of declaration, and of the pool.
LEMMA ResolveInOrder ==
    ASSUME InputsInv, LoadConfig(config), pool = newPool, NEW sel
    PROVE  /\ resolve(sel) \in Seq(Nodes) /\ Tags(resolve(sel)) \subseteq Tags(pool)
           /\ \A named : InOrder(TagsOf(resolve(sel)), named)
<1> DEFINE parts == Parts(sel)
           list == resolve(sel)
<1>1. pool \in Seq(Nodes)
  BY PoolFacts
<1>2. /\ parts \in Seq(Seq(Nodes)) /\ Len(parts) = Len(Enabled)
      /\ \A a \in 1..Len(Enabled) : \A b \in 1..Len(parts[a]) :
                \E i \in 1..Len(pool) : parts[a][b] = pool[i] /\ belongsTo(pool[i].tag, Enabled[a].name)
  BY <1>1, PartsFacts
<1>3. InPoolOrder(parts)
  BY <1>1, PartInOrder
<1>4. list = Concat(parts)
  BY ResolveDef
<1>5. PICK at : EnabledAt(at)
  BY EnabledPlaces
<1> HIDE DEF parts, list
<1>6. parts \in Seq(Seq(Nodes))
  BY <1>2
<1>7. list \in Seq(Nodes)
  BY <1>4, <1>6, ConcatPlaces
<1>8. PICK row, col : PlacesUpTo(parts, Len(parts), list, row, col)
  BY <1>4, <1>6, ConcatPlaces
<1>9. DOMAIN list = 1..Len(list) /\ DOMAIN pool = 1..Len(pool)
  BY <1>1, <1>7
<1>10. ASSUME NEW y \in 1..Len(list)
       PROVE  /\ row[y] \in 1..Len(Enabled) /\ col[y] \in 1..Len(parts[row[y]]) /\ list[y] = parts[row[y]][col[y]]
              /\ list[y].tag \in Tags(pool) /\ DeclaredAt(list[y].tag)[1] = at[row[y]]
  <2> DEFINE r == row[y]
             c == col[y]
  <2>1. r \in 1..Len(Enabled) /\ c \in 1..Len(parts[r]) /\ list[y] = parts[r][c]
    BY <1>2, <1>8 DEF PlacesUpTo
  <2> HIDE DEF r, c
  <2>2. PICK i \in 1..Len(pool) : parts[r][c] = pool[i] /\ belongsTo(pool[i].tag, Enabled[r].name)
    BY <1>2, <2>1
  <2>3. DeclaredAt(pool[i].tag)[1] = at[r]
    BY <1>5, <2>1, <2>2, DeclaredIn
  <2>4. pool[i].tag \in Tags(pool)
    BY <1>9 DEF Tags
  <2> QED
    BY <2>1, <2>2, <2>3, <2>4 DEF r, c
<1>11. ASSUME NEW y \in 1..Len(list), NEW z \in 1..Len(list), y < z
       PROVE  Before(DeclaredAt(list[y].tag), DeclaredAt(list[z].tag))
  <2>1. row[y] < row[z] \/ (row[y] = row[z] /\ col[y] < col[z])
    BY <1>8, <1>11 DEF PlacesUpTo
  <2>2. CASE row[y] < row[z]
    <3>1. at[row[y]] < at[row[z]]
      BY <1>5, <1>10, <2>2 DEF EnabledAt
    <3> QED
      BY <1>10, <3>1 DEF Before
  <2>3. CASE row[y] = row[z] /\ col[y] < col[z]
    <3> DEFINE r == row[y]
               b == col[y]
               c == col[z]
    <3>1. r \in 1..Len(Enabled) /\ b \in 1..Len(parts[r]) /\ c \in 1..Len(parts[r]) /\ b < c
      BY <1>10, <2>3
    <3>2. list[y] = parts[r][b] /\ list[z] = parts[r][c]
      BY <1>10, <2>3
    <3> HIDE DEF r, b, c
    <3>3. PICK i \in 1..Len(pool), j \in 1..Len(pool) : i < j /\ parts[r][b] = pool[i] /\ parts[r][c] = pool[j]
      BY <1>3, <3>1 DEF InPoolOrder
    <3>4. Before(DeclaredAt(newPool[i].tag), DeclaredAt(newPool[j].tag))
      BY <3>3, PoolInOrder
    <3> QED
      BY <3>2, <3>3, <3>4
  <2> QED
    BY <2>1, <2>2, <2>3
<1>12. ASSUME NEW named PROVE InOrder(TagsOf(list), named)
  <2>1. \A y, z \in 1..Len(list) : y < z => Ahead(list[y].tag, list[z].tag, named)
    BY <1>10, <1>11 DEF Ahead
  <2> QED
    BY <1>9, <2>1 DEF InOrder, TagsOf
<1>13. Tags(list) \subseteq Tags(pool)
  BY <1>9, <1>10 DEF Tags
<1> QED
  BY <1>7, <1>12, <1>13 DEF list

\* What rules add, and what is inserted, comes from a list in order.
LEMMA SourcesInOrder ==
    ASSUME InputsInv, LoadConfig(config), InjectorInv, Building, pc # "relays", NoCollision
    PROVE  /\ candidates \in Seq(Nodes) /\ FirstsInOrder(TagsOf(candidates), DOMAIN config.relays)
           /\ \A rule \in SelectorRules :
                members(rule) \in Seq(Nodes) /\ FirstsInOrder(TagsOf(members(rule)), ListedRelays(rule))
<1>1. pool = newPool
  BY DEF InjectorInv
<1>2. AllRelays \in Seq(Nodes) /\ pool \in Seq(Nodes) /\ candidates \in Seq(Nodes)
  BY CandidatesFacts
<1>3. ASSUME NEW named PROVE InOrder(TagsOf(pool), named)
  <2>1. DOMAIN pool = 1..Len(pool)
    BY <1>2
  <2>2. \A i \in 1..Len(pool) : pool[i].tag \in Tags(pool)
    BY <2>1 DEF Tags
  <2>3. \A i, j \in 1..Len(pool) : i < j => Before(DeclaredAt(pool[i].tag), DeclaredAt(pool[j].tag))
    BY <1>1, PoolInOrder
  <2>4. \A i, j \in 1..Len(pool) : i < j => Ahead(pool[i].tag, pool[j].tag, named)
    BY <2>2, <2>3 DEF Ahead
  <2> QED
    BY <2>1, <2>4 DEF InOrder, TagsOf
<1>4. AllRelays = Concat(TakenFrom(DOMAIN config.relays))
  <2>1. /\ relays \in Seq(Seq(Nodes)) /\ DOMAIN relays = DOMAIN config.relays
        /\ TakenFrom(DOMAIN config.relays) \in Seq(Seq(Nodes))
        /\ DOMAIN TakenFrom(DOMAIN config.relays) = DOMAIN config.relays
        /\ \A i \in DOMAIN config.relays : TakenFrom(DOMAIN config.relays)[i] = relays[i]
    BY TakenFacts
  <2>2. TakenFrom(DOMAIN config.relays) = relays
    BY <2>1
  <2> QED
    BY <2>2 DEF AllRelays
<1>5. FirstsInOrder(TagsOf(candidates), DOMAIN config.relays)
  <2>1. Tags(AllRelays) \cap Tags(pool) = {} /\ FirstsInOrder(TagsOf(AllRelays), DOMAIN config.relays)
    BY <1>4, ChainsInOrder
  <2>2. candidates = AllRelays \o pool
    BY DEF candidates
  <2> HIDE DEF candidates, AllRelays
  <2> QED
    BY <1>2, <1>3, <2>1, <2>2, ChainsFirst
<1>6. ASSUME NEW rule \in SelectorRules
      PROVE  members(rule) \in Seq(Nodes) /\ FirstsInOrder(TagsOf(members(rule)), ListedRelays(rule))
  <2> DEFINE both == members(rule)
             taken == resolve(rule)
             named == ListedRelays(rule)
             chains == Concat(TakenFrom(named))
  <2>1. both \in Seq(Nodes)
    BY MembersFacts
  <2>2. both = chains \o taken
    <3>1. TakenFrom(named) = [i \in DOMAIN config.relays |->
              IF config.relays[i].name \in Range(rule.relays) THEN relays[i] ELSE <<>>]
      BY DEF TakenFrom, ListedRelays
    <3> QED
      BY <3>1 DEF members
  <2>3. taken \in Seq(Nodes) /\ Tags(taken) \subseteq Tags(pool) /\ InOrder(TagsOf(taken), named)
    BY <1>1, ResolveInOrder
  <2>4. named \subseteq DOMAIN config.relays
    BY DEF ListedRelays
  <2> HIDE DEF both, taken, named
  <2>5. chains \in Seq(Nodes) /\ Tags(chains) \cap Tags(pool) = {} /\ FirstsInOrder(TagsOf(chains), named)
    BY <2>4, ChainsInOrder
  <2> HIDE DEF chains
  <2>6. FirstsInOrder(TagsOf(both), named)
    BY <2>2, <2>3, <2>5, ChainsFirst
  <2> QED
    BY <2>1, <2>6 DEF both, named
<1> QED
  BY <1>2, <1>5, <1>6

\* The tags of nodes are tags.
LEMMA TagsOfType ==
    ASSUME NEW list \in Seq(Nodes)
    PROVE  /\ TagsOf(list) \in Seq(TagType) /\ Len(TagsOf(list)) = Len(list)
           /\ \A i \in 1..Len(list) : TagsOf(list)[i] = list[i].tag
<1>1. DOMAIN list = 1..Len(list) /\ Len(list) \in Nat /\ \A i \in 1..Len(list) : list[i] \in Nodes
  OBVIOUS
<1>2. \A n \in Nodes : n.tag \in TagType
  BY DEF Nodes
<1>3. TagsOf(list) = [i \in 1..Len(list) |-> list[i].tag]
  BY <1>1 DEF TagsOf
<1>4. \A i \in 1..Len(list) : list[i].tag \in TagType
  BY <1>1, <1>2
<1> QED
  BY <1>1, <1>3, <1>4

\* What addMembers adds of a list in order is in order.
LEMMA FreshInOrder ==
    ASSUME NEW object, NEW list \in Seq(Nodes), NEW named, FirstsInOrder(TagsOf(list), named)
    PROVE  InOrder(Fresh(object, list), named)
<1> DEFINE first == FirstOfTag(list)
           tags == FirstTags(list)
           I == NewPlaces(object, list)
           fresh == Fresh(object, list)
           all == TagsOf(list)
<1>1. first \in Seq(Nodes)
  BY FirstOfTagFacts
<1>2. PICK f \in [1..Len(first) -> 1..Len(list)] :
        /\ \A k \in DOMAIN f : /\ first[k] = list[f[k]]
                               /\ \A j \in 1..(f[k] - 1) : list[j].tag # list[f[k]].tag
        /\ \A j, k \in DOMAIN f : j < k => f[j] < f[k]
  BY FirstOfTagFacts
<1>3. tags = TagsOf(first)
  BY DEF FirstTags, TagsOf
<1>4. fresh = Select(tags, I) /\ fresh \in Seq(TagType)
  BY FreshDef, FreshFacts
<1>5. all \in Seq(TagType) /\ Len(all) = Len(list) /\ \A i \in 1..Len(list) : all[i] = list[i].tag
  BY TagsOfType
<1> HIDE DEF first, tags, I, fresh, all
<1>6. tags \in Seq(TagType) /\ Len(tags) = Len(first) /\ \A i \in 1..Len(first) : tags[i] = first[i].tag
  BY <1>1, <1>3, TagsOfType
<1>7. PICK g : Picks(tags, I, fresh, g)
  BY <1>4, <1>6, SelectPositions
<1>8. /\ g \in [1..Len(fresh) -> 1..Len(first)]
      /\ \A k \in 1..Len(fresh) : fresh[k] = tags[g[k]]
      /\ \A j, k \in 1..Len(fresh) : j < k => g[j] < g[k]
  BY <1>6, <1>7 DEF Picks
<1> DEFINE at == [k \in 1..Len(fresh) |-> f[g[k]]]
<1>9. at \in [1..Len(fresh) -> 1..Len(all)]
  BY <1>2, <1>5, <1>8
<1>10. \A k \in 1..Len(fresh) : fresh[k] = all[at[k]] /\ IsFirst(all, at[k])
  <2> SUFFICES ASSUME NEW k \in 1..Len(fresh) PROVE fresh[k] = all[at[k]] /\ IsFirst(all, at[k])
    OBVIOUS
  <2>1. g[k] \in 1..Len(first) /\ fresh[k] = first[g[k]].tag
    BY <1>6, <1>8
  <2>2. /\ f[g[k]] \in 1..Len(list) /\ first[g[k]] = list[f[g[k]]] /\ at[k] = f[g[k]]
        /\ \A j \in 1..(f[g[k]] - 1) : list[j].tag # list[f[g[k]]].tag
    BY <1>2, <2>1
  <2> HIDE DEF at
  <2>3. \A j \in 1..(at[k] - 1) : j \in 1..Len(list)
    BY <2>2
  <2>4. IsFirst(all, at[k])
    BY <1>5, <2>2, <2>3 DEF IsFirst
  <2> QED
    BY <1>5, <2>1, <2>2, <2>4
<1>11. \A j, k \in 1..Len(fresh) : j < k => at[j] < at[k]
  BY <1>2, <1>8
<1> HIDE DEF at
<1>12. FirstsInOrder(all, named)
  BY DEF all
<1>13. InOrder(fresh, named)
  BY <1>4, <1>5, <1>9, <1>10, <1>11, <1>12, FirstsPicked
<1> QED
  BY <1>13 DEF fresh

\* What is left of members after those that the module files list is in order when what
\* a rule has added is.
LEMMA RestInOrder ==
    ASSUME NEW lit \in Seq(TagType), NEW fresh \in Seq(TagType), NEW named, InOrder(fresh, named),
           NEW L, Range(lit) \subseteq L,
           NEW all, all = lit \/ all = lit \o fresh,
           NEW I, \A i \in I : all[i] \notin L
    PROVE  InOrder(Select(all, I), named)
<1> DEFINE m == Len(lit)
           rest == Select(all, I)
<1>1. m \in Nat /\ Len(fresh) \in Nat /\ \A i \in 1..m : lit[i] \in L
  BY DEF Range
<1>2. /\ all \in Seq(TagType) /\ Len(all) \in {m, m + Len(fresh)}
      /\ \A i \in 1..Len(all) : IF i <= m THEN all[i] = lit[i] ELSE i - m \in 1..Len(fresh) /\ all[i] = fresh[i - m]
  <2>1. CASE all = lit
    BY <1>1, <2>1
  <2>2. CASE all = lit \o fresh
    <3>1. /\ all \in Seq(TagType) /\ Len(all) = m + Len(fresh)
          /\ \A i \in 1..(m + Len(fresh)) : all[i] = IF i <= m THEN lit[i] ELSE fresh[i - m]
      BY <2>2, TwoParts
    <3> HIDE DEF m
    <3> QED
      BY <1>1, <3>1
  <2> QED
    BY <2>1, <2>2
<1> HIDE DEF m, rest
<1>3. PICK f : Picks(all, I, rest, f)
  BY <1>2, SelectPositions DEF rest
<1>4. rest \in Seq(TagType)
  BY <1>2, SelectElements DEF rest
<1>5. /\ f \in [1..Len(rest) -> 1..Len(all)]
      /\ \A k \in 1..Len(rest) : f[k] \in I /\ rest[k] = all[f[k]]
      /\ \A j, k \in 1..Len(rest) : j < k => f[j] < f[k]
  BY <1>3 DEF Picks
<1>6. ASSUME NEW k \in 1..Len(rest) PROVE f[k] \in Nat /\ f[k] - m \in 1..Len(fresh) /\ rest[k] = fresh[f[k] - m]
  <2>1. f[k] \in 1..Len(all) /\ rest[k] = all[f[k]] /\ rest[k] \notin L
    BY <1>5
  <2>2. ~(f[k] <= m)
    <3> SUFFICES ASSUME f[k] <= m PROVE FALSE
      OBVIOUS
    <3>1. all[f[k]] = lit[f[k]] /\ f[k] \in 1..m
      BY <1>1, <1>2, <2>1
    <3> QED
      BY <1>1, <2>1, <3>1
  <2> QED
    BY <1>2, <2>1, <2>2
<1> DEFINE at == [k \in 1..Len(rest) |-> f[k] - m]
<1>7. at \in [1..Len(rest) -> 1..Len(fresh)] /\ \A k \in 1..Len(rest) : rest[k] = fresh[at[k]]
  BY <1>6
<1>8. \A j, k \in 1..Len(rest) : j < k => at[j] < at[k]
  BY <1>1, <1>5, <1>6
<1> HIDE DEF at
<1>9. InOrder(rest, named)
  BY <1>4, <1>7, <1>8, PickedInOrder
<1> QED
  BY <1>9 DEF rest

\* What is inserted into an array is in order.
LEMMA DerivedInOrder ==
    ASSUME Finished, NoCollision, NEW k \in Keys
    PROVE  InOrder([i \in DOMAIN Derived(k) |-> Derived(k)[i].tag], DOMAIN config.relays)
<1>0. Building /\ pc # "relays" /\ InputsInv /\ LoadConfig(config) /\ InjectorInv
  BY DEF Finished, Building, InHand
<1> DEFINE nodesIn == candidates
           all == TagsOf(candidates)
           places == {x \in DOMAIN added : (added[x].type \in EndpointTypes) = (k = "endpoints")}
           items == AddedTo(k)
           picked == [i \in DOMAIN items |-> items[i].tag]
<1>1. nodesIn \in Seq(Nodes) /\ FirstsInOrder(all, DOMAIN config.relays)
  BY <1>0, SourcesInOrder
<1>2. all \in Seq(TagType) /\ Len(all) = Len(nodesIn) /\ \A i \in 1..Len(nodesIn) : all[i] = nodesIn[i].tag
  BY <1>1, TagsOfType
<1>3. added \in Seq(Entries)
  BY <1>1, AddedFacts
<1>4. PICK at \in [1..Len(added) -> 1..Len(nodesIn)] :
                /\ \A i \in 1..Len(added) : /\ added[i] = AsItem(nodesIn[at[i]])
                                            /\ nodesIn[at[i]].tag \in needed \ present
                                            /\ \A j \in 1..(at[i] - 1) : nodesIn[j].tag # nodesIn[at[i]].tag
                /\ \A i, j \in 1..Len(added) : i < j => at[i] < at[j]
  BY <1>1, AddedFacts
<1>5. items = Select(added, places) /\ items \in Seq(Entries)
  BY <1>3, AddedToFacts DEF AddedTo, OfType
<1>6. Derived(k) = items
  BY DerivedIsAdded
<1> HIDE DEF nodesIn, all, places, items, added
<1>7. PICK f : Picks(added, places, items, f)
  BY <1>3, <1>5, SelectPositions
<1>8. /\ f \in [1..Len(items) -> 1..Len(added)]
      /\ \A i \in 1..Len(items) : items[i] = added[f[i]]
      /\ \A i, j \in 1..Len(items) : i < j => f[i] < f[j]
  BY <1>7 DEF Picks
<1>9. DOMAIN items = 1..Len(items) /\ Len(items) \in Nat
  BY <1>5
<1> DEFINE g == [i \in 1..Len(items) |-> at[f[i]]]
<1>10. ASSUME NEW i \in 1..Len(items)
       PROVE  g[i] \in 1..Len(all) /\ items[i].tag = all[g[i]] /\ items[i].tag \in TagType /\ IsFirst(all, g[i])
  <2>1. f[i] \in 1..Len(added) /\ items[i] = AsItem(nodesIn[at[f[i]]]) /\ at[f[i]] \in 1..Len(nodesIn)
    BY <1>4, <1>8
  <2>2. items[i].tag = nodesIn[at[f[i]]].tag
    BY <2>1 DEF AsItem
  <2>3. items[i].tag = all[at[f[i]]] /\ at[f[i]] \in 1..Len(all)
    BY <1>2, <2>1, <2>2
  <2>4. all[at[f[i]]] \in TagType
    BY <1>2, <2>3
  <2>5. \A j \in 1..(at[f[i]] - 1) : j \in 1..Len(nodesIn) /\ nodesIn[j].tag # nodesIn[at[f[i]]].tag
    BY <1>4, <2>1
  <2>6. IsFirst(all, at[f[i]])
    BY <1>2, <2>1, <2>5 DEF IsFirst
  <2> QED
    BY <2>3, <2>4, <2>6
<1>11. \A i, j \in 1..Len(items) : i < j => g[i] < g[j]
  BY <1>4, <1>8
<1>12. picked \in Seq(TagType) /\ Len(picked) = Len(items) /\ \A i \in 1..Len(items) : picked[i] = items[i].tag
  <2>1. picked = [i \in 1..Len(items) |-> items[i].tag]
    BY <1>9
  <2> HIDE DEF picked
  <2> QED
    BY <1>9, <1>10, <2>1
<1>13. g \in [1..Len(items) -> 1..Len(all)]
  BY <1>10
<1>14. picked = [i \in DOMAIN Derived(k) |-> Derived(k)[i].tag]
  BY <1>6
<1> HIDE DEF g, picked
<1>15. /\ g \in [1..Len(picked) -> 1..Len(all)]
       /\ \A i \in 1..Len(picked) : picked[i] = all[g[i]] /\ IsFirst(all, g[i])
  BY <1>10, <1>12, <1>13
<1>16. \A i, j \in 1..Len(picked) : i < j => g[i] < g[j]
  BY <1>11, <1>12
<1>17. InOrder(picked, DOMAIN config.relays)
  BY <1>1, <1>2, <1>12, <1>15, <1>16, FirstsPicked
<1> QED
  BY <1>14, <1>17

\* A group that one rule names has its derived members in order.
LEMMA MembersInOrder ==
    ASSUME Finished, NoCollision, NEW o \in Range(Items(doc, "outbounds")),
           NEW r \in Range(rulesFor), OnlyRule(o, r)
    PROVE  InOrder(AddedMembers(o), ListedRelays(r))
<1>0. Building /\ pc # "relays" /\ InputsInv /\ LoadConfig(config) /\ InjectorInv
  BY DEF Finished, Building, InHand
<1> DEFINE plain == Items(Assembled, "outbounds")
           own == Items(Assembled, "endpoints")
           I == {i \in DOMAIN o.members : o.members[i] \notin LiteralMembers}
<1>1. /\ plain \in Seq(Entries) /\ own \in Seq(Entries) /\ AppliedUpTo(plain, RuledItems)
      /\ AddedTo("outbounds") \in Seq(Entries)
      /\ Items(doc, "outbounds") = RuledItems \o AddedTo("outbounds")
  BY FinishedItems
<1>2. RuledItems \in Seq(Entries) /\ Len(RuledItems) = Len(plain)
  BY <1>1 DEF AppliedUpTo
<1>3. Range(Items(doc, "outbounds")) = Range(RuledItems) \cup Range(AddedTo("outbounds"))
  BY <1>1, <1>2, RangeConcatenation
<1>4. \A i \in I : o.members[i] \notin LiteralMembers
  OBVIOUS
<1>5. CASE o \in Range(AddedTo("outbounds"))
  <2>1. PICK y \in 1..Len(AddedTo("outbounds")) : o = AddedTo("outbounds")[y]
    BY <1>1, <1>5 DEF Range
  <2>2. o.members = <<>>
    BY <2>1, AddedToEntries DEF Keys
  <2>3. <<>> \in Seq(TagType) /\ Range(<<>>) = {}
    BY DEF Range
  <2> DEFINE members0 == o.members
  <2> HIDE DEF I, members0
  <2>4. members0 = <<>>
    BY <2>2 DEF members0
  <2>5. \A i \in I : members0[i] \notin LiteralMembers
    BY <1>4 DEF members0
  <2>6. InOrder(Select(members0, I), ListedRelays(r))
    BY <2>3, <2>4, <2>5, NothingInOrder, RestInOrder
  <2> QED
    BY <2>6 DEF members0, I, AddedMembers
<1>6. CASE o \in Range(RuledItems)
  <2>1. PICK x \in 1..Len(plain) : o = RuledItems[x]
    BY <1>2, <1>6 DEF Range
  <2>2. rulesFor \in Seq(SelectorRules)
    BY <1>0, WantedFacts DEF Finished
  <2>6. IsNamed(o, r.tag) /\ \A n \in 1..Len(rulesFor) : IsNamed(o, rulesFor[n].tag) => rulesFor[n] = r
    BY <2>2 DEF Range, OnlyRule
  <2>7. r \in SelectorRules
    BY <2>2 DEF Range
  <2>8. SameEntry(o, plain[x])
    BY <1>1, <2>1 DEF AppliedUpTo
  <2>9. \A n \in 1..Len(rulesFor) : IsNamed(plain[x], rulesFor[n].tag) => rulesFor[n] = r
    BY <2>6, <2>8 DEF IsNamed, SameEntry
  <2> DEFINE lit == plain[x].members
             fresh == Fresh(plain[x], members(r))
  <2>10. o.members = lit \/ o.members = lit \o fresh
    BY <1>1, <2>1, <2>7, <2>9 DEF AppliedUpTo
  <2>11. plain[x] \in Entries /\ plain[x] \in Range(plain)
    BY <1>1 DEF Range
  <2>12. lit \in Seq(TagType)
    <3>1. \A e \in Entries : e.members \in Seq(TagType)
      BY DEF Entries
    <3> QED
      BY <2>11, <3>1
  <2>13. Range(lit) \subseteq LiteralMembers
    <3>1. Range(ItemsOf(Assembled)) = Range(plain) \cup Range(own)
      BY <1>1, RangeConcatenation DEF ItemsOf
    <3>2. plain[x].kind = "object"
      BY <2>6, <2>8 DEF IsNamed, SameEntry
    <3>3. Listed(plain[x]) = Range(lit)
      BY <3>2 DEF Listed
    <3> HIDE DEF plain, lit
    <3> QED
      BY <2>11, <3>1, <3>3 DEF LiteralMembers
  <2>14. members(r) \in Seq(Nodes) /\ FirstsInOrder(TagsOf(members(r)), ListedRelays(r))
    BY <1>0, <2>7, SourcesInOrder
  <2>15. fresh \in Seq(TagType)
    BY <2>14, FreshFacts
  <2>16. InOrder(fresh, ListedRelays(r))
    BY <2>14, FreshInOrder
  <2> DEFINE members0 == o.members
  <2> HIDE DEF I, members0, lit, fresh
  <2>17. members0 = lit \/ members0 = lit \o fresh
    BY <2>10 DEF members0
  <2>18. \A i \in I : members0[i] \notin LiteralMembers
    BY <1>4 DEF members0
  <2>19. InOrder(Select(members0, I), ListedRelays(r))
    BY <2>12, <2>13, <2>15, <2>16, <2>17, <2>18, RestInOrder
  <2> QED
    BY <2>19 DEF members0, I, AddedMembers
<1> QED
  BY <1>3, <1>5, <1>6

\* Relays and nodes are inserted and listed in the order of their declaration, for any
\* subscriptions, relays and rules.
THEOREM AlwaysInDeclarationOrder == Spec => []DeclarationOrder
<1>1. InputsInv /\ SettingsInv /\ InjectorInv /\ DocumentInv => DeclarationOrder
  <2> SUFFICES ASSUME InputsInv, SettingsInv, InjectorInv, DocumentInv, Injected PROVE DeclarationOrder
    BY DEF DeclarationOrder
  <2>1. Finished /\ NoCollision
    BY InjectedIsFinished DEF Injected
  <2>2. \A k \in {"outbounds", "endpoints"} :
          InOrder([i \in DOMAIN Derived(k) |-> Derived(k)[i].tag], DOMAIN config.relays)
    BY <2>1, DerivedInOrder DEF Keys
  <2>3. \A o \in Range(Items(doc, "outbounds")) : \A rule \in Range(rulesFor) :
          OnlyRule(o, rule) => InOrder(AddedMembers(o), ListedRelays(rule))
    BY <2>1, MembersInOrder
  <2> QED
    BY <2>2, <2>3 DEF DeclarationOrder
<1> QED
  BY <1>1, InputsInvariant, SettingsInvariant, InjectorInvariant, DocumentInvariant, PTL
=============================================================================
