---------------------------------- MODULE Config ----------------------------------
(***************************************************************************)
(* config.json: what LoadConfig accepts, where its outputs go, and when    *)
(* the next scheduled update is.                                           *)
(*                                                                         *)
(* A configuration is a record with the fields of model.Config.  A name    *)
(* that is not set is "", a path that is not set is <<>> (module Paths).   *)
(***************************************************************************)
EXTENDS Bootstrap

CONSTANT Hour       \* in the unit of durations

ASSUME HourAssumption == Hour \in Nat \ {0}

\* A subscription's name and a node's own, or a template's tag and an upstream's.
TagType == Seq(Text)

NodeSelectors == [from : Seq(Text), include : Seq(Text), exclude : Seq(Text)]
Relays        == [name : Text, via : Seq(NodeSelectors), upstream : Seq(NodeSelectors)]
SelectorRules == [tag : TagType, from : Seq(Text), include : Seq(Text), exclude : Seq(Text),
                  relays : Seq(Text)]
Subscriptions == [name : Text, url : Text, path : Seq(Text), type : Text, enable : BOOLEAN]
EmojiRules    == [emoji : Text, keywords : Seq(Text)]
Modules       == [name : Text, file : Seq(Text), from_url : Seq(Text), path : Seq(Text),
                  selectors : Seq(SelectorRules)]
ConfigFiles   == [name : Text, path : Seq(Text), modules : Seq(Text)]
Schedules     == [type : Text, every : Int]

\* parses: it is JSON with no other fields; complete: with nodes and update_schedule.
Configs == [parses : BOOLEAN, complete : BOOLEAN, output_dir : Seq(Text),
            subscriptions : Seq(Subscriptions), relays : Seq(Relays),
            emoji_overrides : Seq(EmojiRules), modules : Seq(Modules),
            configs : Seq(ConfigFiles), update_schedule : Schedules]

\* Names of a list that has to name its entries, each once.
Named(list) ==
    /\ \A i \in DOMAIN list : list[i].name # ""
    /\ IsInjective([i \in DOMAIN list |-> list[i].name])

NamesOf(list) == {list[i].name : i \in DOMAIN list}

Find(list, name) == list[CHOOSE i \in DOMAIN list : list[i].name = name]

-----------------------------------------------------------------------------
(* Validate *)

validateSubscriptions(c) ==
    /\ Named(c.subscriptions)
    /\ \A s \in Range(c.subscriptions) :
         /\ (s.url # "") # (s.path # <<>>)
         /\ s.path # <<>> => checkRepoRelPath(s.path)
         /\ Lower(s.type) \in {"clash", "singbox", "xray", "v2ray"}

IsEmpty(sel) == sel.from = <<>>

validateFrom(c, sel) == Range(sel.from) \subseteq NamesOf(c.subscriptions)

validateRelays(c) ==
    /\ Named(c.relays)
    /\ \A r \in Range(c.relays) : \A sels \in {r.via, r.upstream} :
         /\ sels # <<>>
         /\ \A sel \in Range(sels) : ~IsEmpty(sel) /\ validateFrom(c, sel)

validateEmojiOverrides(c) ==
    \A r \in Range(c.emoji_overrides) :
        r.emoji # "" /\ r.keywords # <<>> /\ "" \notin Range(r.keywords)

\* Mutant of validateSelectors: relays are not looked up.
validateSelectors_AnyRelay(c, m) ==
    /\ \A rule \in Range(m.selectors) :
         /\ rule.tag # <<>>
         /\ validateFrom(c, rule)
         /\ ~IsEmpty(rule) \/ rule.relays # <<>>
    /\ IsInjective([i \in DOMAIN m.selectors |-> m.selectors[i].tag])

validateSelectors(c, m) ==
    /\ \A rule \in Range(m.selectors) :
         /\ rule.tag # <<>>
         /\ validateFrom(c, rule)
         /\ Range(rule.relays) \subseteq NamesOf(c.relays)
         /\ ~IsEmpty(rule) \/ rule.relays # <<>>
    /\ IsInjective([i \in DOMAIN m.selectors |-> m.selectors[i].tag])

\* How many of file, from_url and path a module has.
SourcesOf(m) == Cardinality({p \in {"file", "from_url", "path"} : m[p] # <<>>})

validateModules(c) ==
    /\ c.modules # <<>>
    /\ Named(c.modules)
    /\ \A m \in Range(c.modules) :
         /\ SourcesOf(m) = 1
         /\ m.file # <<>> => checkRepoRelPath(m.file)
         /\ validateSelectors(c, m)

validateConfigs(c) ==
    /\ c.configs # <<>>
    /\ Named(c.configs)
    /\ \A cf \in Range(c.configs) :
         /\ cf.path # <<>>
         /\ cf.modules # <<>>
         /\ Range(cf.modules) \subseteq NamesOf(c.modules)
         /\ IsInjective(cf.modules)

validateSchedule(s) ==
    \/ Lower(s.type) = "interval" /\ s.every > 0
    \/ Lower(s.type) = "hourly" /\ s.every = 0

Validate(c) ==
    /\ validateSubscriptions(c) /\ validateRelays(c) /\ validateEmojiOverrides(c)
    /\ validateModules(c) /\ validateConfigs(c)
    /\ validateSchedule(c.update_schedule)

\* The three parts of LoadConfig that can fail: JSON that is not a
\* configuration, nodes or update_schedule left out, and Validate.
LoadConfig(c) == c.parses /\ c.complete /\ Validate(c)

-----------------------------------------------------------------------------
(* output.Resolve *)

Join(base, p) == IF IsAbs(p) THEN p ELSE base \o p

BaseDir(b, c) ==
    IF c.output_dir = <<>> THEN DefaultOutputDir(b) ELSE CleanAbs(Join(b.root, c.output_dir))

\* Mutant of TargetPath: the path is not cleaned after joining.
TargetPath_Raw(b, c, cf) == SelectSeq(Join(BaseDir(b, c), cf.path), LAMBDA part : part # "")

TargetPath(b, c, cf) == CleanAbs(Join(BaseDir(b, c), cf.path))

Targets(b, c) == [i \in DOMAIN c.configs |-> TargetPath(b, c, c.configs[i])]

Resolves(b, c) ==
    /\ IsInjective(Targets(b, c))
    /\ \A i \in DOMAIN c.configs : ~Within(Targets(b, c)[i], Snapshots(b))

\* CheckDirs: a directory outside output.dir has to be there already.
CheckDirs(b, c, existing) ==
    \A i \in DOMAIN c.configs :
        LET d == Front(Targets(b, c)[i]) IN Within(d, BaseDir(b, c)) \/ d \in existing

-----------------------------------------------------------------------------
(* The schedule *)

\* How long scheduleLoop waits at the time now.
nextScheduleDelay(s, now) ==
    IF s.type = "hourly" THEN Hour - (now % Hour)
    ELSE IF s.type = "interval" /\ s.every > 0 THEN s.every
    ELSE Hour

\* A schedule that Validate accepts is the one the daemon keeps: an interval is
\* waited for as it is, and hourly means on the hour (doc/configuration.md).
\* The types are compared without their case once and with it once.
ScheduleKept(s) ==
    validateSchedule(s) =>
        \A now \in 0..(2 * Hour) :
            IF Lower(s.type) = "interval" THEN nextScheduleDelay(s, now) = s.every
            ELSE ((now + nextScheduleDelay(s, now)) % Hour) = 0

=============================================================================
