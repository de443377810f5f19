--------------------------------- MODULE Assembly ---------------------------------
(***************************************************************************)
(* LoadBootstrap, BuildPlan with a snapshot in hand, and Build: from       *)
(* node-box.json, config.json, module files and named nodes to the         *)
(* documents that are written.                                             *)
(*                                                                         *)
(* A tag is a sequence of words: the subscription's prefix and the name,   *)
(* or, for a relay, a template's tag and an upstream's.  A keyword is one  *)
(* word.  A document is a function from top-level keys to values; of a     *)
(* value counts whether it is an array, an object, null or something else, *)
(* and what is in it.                                                      *)
(***************************************************************************)
EXTENDS Config, Lists

VARIABLES
    boot,       \* node-box.json
    config,     \* config.json
    nodes,      \* what FetchAll returns: each subscription's named nodes
    files,      \* the module files
    pc,         \* where the run is
    pool, relays, byTag,    \* the injector's nodes
    out,        \* the output in hand
    doc, needed, present, todo,     \* its document, and inject's maps
    made        \* the documents of the outputs before it

settings == <<config, nodes, files>>
inputs  == <<boot, settings>>
derived == <<pool, relays, byTag>>
work    == <<doc, needed, present, todo>>
vars    == <<inputs, pc, derived, out, work, made>>

None == <<>>        \* no tag, no detour
EndpointTypes == {"wireguard", "tailscale", "openvpn-client"}
GroupTypes    == {"selector", "urltest"}

Nodes == [tag : TagType, type : Text, detour : TagType]

\* What a JSON value may be.
Kinds == {"object", "array", "string", "number", "boolean", "null"}

\* An entry of an array; what is no object has no tag.
Entries == [kind : Kinds, tag : TagType, type : Text, members : Seq(TagType), detour : TagType]

IsDocument(d) ==
    \A k \in DOMAIN d : d[k].kind = "array" =>
        /\ d[k].items \in Seq(Entries)
        /\ \A i \in DOMAIN d[k].items : d[k].items[i].kind # "object" => d[k].items[i].tag = None

\* What prefixTags puts before each name.
belongsTo(tag, name) == Head(tag) = name

IsFile(f) == f.kind \in {"unreadable", "malformed"} \/ (f.kind = "object" /\ IsDocument(f.doc))

Init ==
    /\ boot \in Bootstraps /\ config \in Configs
    /\ nodes \in [NamesOf(config.subscriptions) -> Seq(Nodes)]
    /\ \A s \in DOMAIN nodes : \A i \in DOMAIN nodes[s] :
         nodes[s][i].tag # None => belongsTo(nodes[s][i].tag, s)
    /\ DOMAIN files = NamesOf(config.modules) /\ \A m \in DOMAIN files : IsFile(files[m])
    /\ pc = "boot" /\ out = 1
    /\ pool = <<>> /\ relays = <<>> /\ byTag = <<>> /\ made = <<>>
    /\ doc = <<>> /\ needed = {} /\ present = {} /\ todo = {}

Tags(list) == {list[i].tag : i \in DOMAIN list}

\* Each of a list's nodes whose tag did not come before.
FirstOfTag(list) ==
    LET First(l) == Select(l, {i \in DOMAIN l : \A j \in 1..(i - 1) : l[j].tag # l[i].tag})
    IN  Once(First, list)

Goto(label) == pc' = label
Fail == Goto("failed")

-----------------------------------------------------------------------------
(* Before Build *)

LoadBootstrap ==
    /\ pc = "boot"
    /\ boot' = applyDefaults(boot)
    /\ IF boot.parses /\ ValidateBootstrap(boot') THEN Goto("load") ELSE Goto("refused")
    /\ UNCHANGED <<settings, derived, out, work, made>>

Load ==
    /\ pc = "load"
    /\ IF LoadConfig(config) THEN Goto("resolve") ELSE Goto("refused")
    /\ UNCHANGED <<inputs, derived, out, work, made>>

Resolve ==
    /\ pc = "resolve"
    /\ IF Resolves(boot, config) /\ CheckDirs(boot, config, {<<"etc">>}) THEN Goto("modules") ELSE Fail
    /\ UNCHANGED <<inputs, derived, out, work, made>>

Used == UNION {Range(cf.modules) : cf \in Range(config.configs)}

LoadModules ==
    /\ pc = "modules"
    /\ IF \E m \in Used : files[m].kind = "unreadable" THEN Fail ELSE Goto("pool")
    /\ UNCHANGED <<inputs, derived, out, work, made>>

-----------------------------------------------------------------------------
(* The injector *)

Enabled ==
    LET list == config.subscriptions IN Select(list, {i \in DOMAIN list : list[i].enable})

\* The nodes of the enabled subscriptions, one subscription after another.
Offered ==
    LET Tagged(list) == Select(list, {i \in DOMAIN list : list[i].tag # None})
    IN  Once(Tagged, Concat([i \in DOMAIN Enabled |-> nodes[Enabled[i].name]]))

\* Mutant of newPool: a tag may enter it twice.
newPool_All == Offered

newPool == FirstOfTag(Offered)

Hit(tag, keywords) == \E kw \in Range(keywords) : kw # "" /\ kw \in Range(tag)

matches(tag, include, exclude) ==
    /\ include # <<>> => Hit(tag, include)
    /\ ~Hit(tag, exclude)

From(sel, s) ==
    Select(pool, {i \in DOMAIN pool : /\ belongsTo(pool[i].tag, s.name)
                                      /\ matches(pool[i].tag, sel.include, sel.exclude)})

resolve(sel) ==
    LET list == Enabled IN
    Concat([i \in DOMAIN list |-> IF list[i].name \in Range(sel.from) THEN From(sel, list[i]) ELSE <<>>])

resolveUnion(sels) ==
    LET Union(matched) == Select(pool, {i \in DOMAIN pool : pool[i].tag \in matched})
    IN  Once(Union, UNION {Tags(resolve(sel)) : sel \in Range(sels)})

Relayed(tmpl, up) == [tmpl EXCEPT !.tag = tmpl.tag \o up.tag, !.detour = up.tag]

Pairs(tmpls, ups) == Concat([i \in DOMAIN tmpls |-> [j \in DOMAIN ups |-> Relayed(tmpls[i], ups[j])]])

relayNodes(r) ==
    LET Generated(both) == FirstOfTag(Pairs(both[1], both[2]))
    IN  Once(Generated, <<resolveUnion(r.via), resolveUnion(r.upstream)>>)

\* A list's nodes by their tags.
Indexed(list) == [t \in Tags(list) |-> list[Max({i \in DOMAIN list : list[i].tag = t})]]

newInjector ==
    /\ pc = "pool"
    /\ pool' = newPool
    /\ byTag' = Indexed(pool')
    /\ Goto("relays")
    /\ UNCHANGED <<inputs, relays, out, work, made>>

\* The next relay; one without templates or upstreams ends the build.
buildRelays ==
    /\ pc = "relays"
    /\ UNCHANGED <<inputs, pool, out, work, made>>
    /\ IF Len(relays) = Len(config.relays)
         THEN Goto("assemble") /\ UNCHANGED <<relays, byTag>>
         ELSE LET r == config.relays[Len(relays) + 1] IN
              IF resolveUnion(r.via) = <<>> \/ resolveUnion(r.upstream) = <<>>
                THEN Fail /\ UNCHANGED <<relays, byTag>>
                ELSE \E generated \in {relayNodes(r)} :
                       /\ relays' = Append(relays, generated)
                       /\ byTag' = [t \in DOMAIN byTag \cup Tags(generated) |->
                                      IF t \in DOMAIN byTag THEN byTag[t] ELSE Indexed(generated)[t]]
                       /\ UNCHANGED pc

AllRelays  == Concat(relays)
candidates == AllRelays \o pool

Known(tag) == tag \in DOMAIN byTag

-----------------------------------------------------------------------------
(* One output *)

cf == config.configs[out]

Decoded(m)   == files[m].kind = "object"
KeysOf(m)    == DOMAIN files[m].doc
Assembled    == [k \in UNION {KeysOf(m) : m \in Range(cf.modules)} |->
                   files[CHOOSE m \in Range(cf.modules) : k \in KeysOf(m)].doc[k]]
Items(d, k)  == IF k \in DOMAIN d /\ d[k].kind = "array" THEN d[k].items ELSE <<>>
ItemsOf(d)   == Items(d, "outbounds") \o Items(d, "endpoints")

documentTags(d) == {o.tag : o \in {p \in Range(ItemsOf(d)) : p.kind = "object"}} \ {None}

assemble ==
    /\ pc = "assemble"
    /\ UNCHANGED <<inputs, derived, made>>
    /\ IF out > Len(config.configs)
         THEN Goto("done") /\ UNCHANGED <<out, work>>
         ELSE /\ IF \/ \E m \in Range(cf.modules) : ~Decoded(m)
                    \/ \E m, n \in Range(cf.modules) : m # n /\ KeysOf(m) \cap KeysOf(n) # {}
                   THEN Fail /\ UNCHANGED doc
                   ELSE doc' = Assembled /\ Goto("inject")
              /\ UNCHANGED <<out, needed, present, todo>>

rulesFor == Concat([i \in DOMAIN cf.modules |-> Find(config.modules, cf.modules[i]).selectors])

\* Mutant of members: relays are taken as the rule lists them.
members_AsListed(rule) ==
    Concat([i \in DOMAIN rule.relays |->
              LET named == {k \in DOMAIN config.relays : config.relays[k].name = rule.relays[i]}
              IN  IF named = {} THEN <<>> ELSE relays[Min(named)]])
    \o resolve(rule)

\* Relays in the order of their declaration, whatever the order of the rule.
members(rule) ==
    Concat([i \in DOMAIN config.relays |->
              IF config.relays[i].name \in Range(rule.relays) THEN relays[i] ELSE <<>>])
    \o resolve(rule)

\* The tags of a list's nodes that are no members yet, each once.
Fresh(object, list) ==
    LET TagsNew(first) == Select([i \in DOMAIN first |-> first[i].tag],
                                 {i \in DOMAIN first : first[i].tag \notin Range(object.members)})
    IN  Once(TagsNew, FirstOfTag(list))

addMembers(object, list) == [object EXCEPT !.members = @ \o Fresh(object, list)]

IsNamed(o, tag) == o.kind = "object" /\ o.tag = tag

applyRule(outbounds, rule) ==
    LET Applies(list) == [list EXCEPT ![Min({j \in DOMAIN list : IsNamed(list[j], rule.tag)})] =
                                          addMembers(@, members(rule))]
    IN  Once(Applies, outbounds)

\* The outbounds after the first n rules.
Applied(outbounds, rules) ==
    LET applied[n \in 0..Len(rules)] ==
          IF n = 0 THEN outbounds ELSE applyRule(applied[n - 1], rules[n])
    IN  applied

WithItems(d, k, items) ==
    [j \in DOMAIN d \cup {k} |-> IF j = k THEN [kind |-> "array", items |-> items] ELSE d[j]]

Wanted == UNION {Tags(members(rule)) : rule \in Range(rulesFor)}

inject ==
    /\ pc = "inject"
    /\ UNCHANGED <<inputs, derived, out, made>>
    /\ IF rulesFor = <<>>
         THEN Goto("finish") /\ UNCHANGED work
       ELSE IF \/ "outbounds" \notin DOMAIN doc \/ doc["outbounds"].kind # "array"
               \/ \E rule \in Range(rulesFor) :
                    ~\E o \in Range(doc["outbounds"].items) : IsNamed(o, rule.tag)
         THEN Fail /\ UNCHANGED work
       ELSE /\ doc' = WithItems(doc, "outbounds", Applied(doc["outbounds"].items, rulesFor)[Len(rulesFor)])
            /\ needed' = Wanted /\ todo' = Wanted
            /\ present' = documentTags(doc)
            /\ Goto("close")

\* Mutant of closeOverDetours: an upstream is queued although it is needed already.
closeOverDetours_Again ==
    /\ pc = "close"
    /\ \E tag \in todo :
         LET detour == byTag[tag].detour IN
         IF detour = None
           THEN todo' = todo \ {tag} /\ UNCHANGED <<pc, needed>>
         ELSE IF Known(detour)
           THEN /\ needed' = needed \cup {detour}
                /\ todo' = (todo \ {tag}) \cup {detour}
                /\ UNCHANGED pc
         ELSE IF detour \in present
           THEN todo' = todo \ {tag} /\ UNCHANGED <<pc, needed>>
         ELSE Fail /\ UNCHANGED <<needed, todo>>
    /\ UNCHANGED <<inputs, derived, out, doc, present, made>>

\* The queue starts as a Go map gives its keys: in any order.
closeOverDetours ==
    /\ pc = "close"
    /\ \E tag \in todo :
         LET detour == byTag[tag].detour IN
         IF detour = None \/ detour \in needed
           THEN todo' = todo \ {tag} /\ UNCHANGED <<pc, needed>>
         ELSE IF Known(detour)
           THEN /\ needed' = needed \cup {detour}
                /\ todo' = (todo \ {tag}) \cup {detour}
                /\ UNCHANGED pc
         ELSE IF detour \in present
           THEN todo' = todo \ {tag} /\ UNCHANGED <<pc, needed>>
         ELSE Fail /\ UNCHANGED <<needed, todo>>
    /\ UNCHANGED <<inputs, derived, out, doc, present, made>>

AsItem(n) == [kind |-> "object", tag |-> n.tag, type |-> n.type, members |-> <<>>, detour |-> n.detour]

\* Mutant of added: candidates are written whether referenced or not.
added_All ==
    LET Chosen(list) == Select([i \in DOMAIN list |-> AsItem(list[i])], {i \in DOMAIN list : list[i].tag \notin present})
    IN  Once(Chosen, FirstOfTag(candidates))

\* Candidates that are needed and not there, relays before the pool.
added ==
    LET Chosen(list) == Select([i \in DOMAIN list |-> AsItem(list[i])],
                               {i \in DOMAIN list : list[i].tag \in needed \ present})
    IN  Once(Chosen, FirstOfTag(candidates))

Extended(d, k, items) == IF items = <<>> THEN d ELSE WithItems(d, k, Items(d, k) \o items)

OfType(items, endpoint) ==
    Select(items, {i \in DOMAIN items : (items[i].type \in EndpointTypes) = endpoint})

Inserted(d, items) ==
    LET Insert(list) == Extended(Extended(d, "outbounds", OfType(list, FALSE)), "endpoints", OfType(list, TRUE))
    IN  Once(Insert, items)

insert ==
    /\ pc = "close" /\ todo = {}
    /\ doc' = Inserted(doc, added)
    /\ Goto("finish")
    /\ UNCHANGED <<inputs, derived, out, needed, present, todo, made>>

removeEmptyTopLevel(d) ==
    LET kept == {k \in DOMAIN d : d[k].kind # "null" /\
                                  (d[k].kind \in {"array", "object"} => d[k].items # <<>>)}
    IN  [k \in kept |-> d[k]]

checkSections(d) ==
    \A k \in DOMAIN d \cap {"outbounds", "endpoints", "inbounds"} :
        d[k].kind = "array" /\ \A o \in Range(d[k].items) : o.kind = "object"

checkEndpointPlacement(d) == \A o \in Range(Items(d, "outbounds")) : o.type \notin EndpointTypes

collectTags(d) == None \notin Tags(ItemsOf(d)) /\ Cardinality(Tags(ItemsOf(d))) = Len(ItemsOf(d))

checkReferences(d) ==
    \A o \in Range(ItemsOf(d)) :
        /\ o.type \in GroupTypes => o.members # <<>> /\ Range(o.members) \subseteq Tags(ItemsOf(d))
        /\ o.detour \in Tags(ItemsOf(d)) \cup {None}

validateDocument(d) ==
    /\ DOMAIN d # {}
    /\ checkSections(d) /\ checkEndpointPlacement(d)
    /\ collectTags(d) /\ checkReferences(d)

\* The end of buildOne.  An output that is rejected ends the build of all.
finish ==
    /\ pc = "finish"
    /\ UNCHANGED <<inputs, derived>>
    /\ needed' = {} /\ present' = {} /\ todo' = {} /\ doc' = <<>>
    /\ IF validateDocument(removeEmptyTopLevel(doc))
         THEN /\ made' = Append(made, removeEmptyTopLevel(doc))
              /\ out' = out + 1
              /\ Goto("assemble")
         ELSE Fail /\ UNCHANGED <<out, made>>

Ended == pc \in {"done", "failed", "refused"} /\ UNCHANGED vars

Step ==
    \/ LoadBootstrap \/ Load \/ Resolve \/ LoadModules
    \/ newInjector \/ buildRelays
    \/ assemble \/ inject \/ closeOverDetours \/ insert \/ finish

Next == Step \/ Ended

Spec == Init /\ [][Next]_vars /\ WF_vars(Step)

-----------------------------------------------------------------------------
(* What the document in hand ought to be. *)

\* A template's and an upstream's tags in a row may be a node's tag as well.
NoCollision == Tags(AllRelays) \cap Tags(pool) = {}

\* The module files' own objects, and what a build has added to them.
Literal == documentTags(Assembled)
Derived(k) ==
    LET list == Items(doc, k)
    IN  Select(list, {i \in DOMAIN list : list[i].kind = "object" /\ list[i].tag \notin Literal \cup {None}})
AllDerived == Range(Derived("outbounds")) \cup Range(Derived("endpoints"))

Listed(o) == IF o.kind = "object" THEN Range(o.members) ELSE {}

\* What the module files list themselves.
LiteralMembers == UNION {Listed(o) : o \in Range(ItemsOf(Assembled))}

\* The nodes that the rules reach: the least set with their members and, of every
\* node in it, the upstream.
Reaches(tags) == Wanted \subseteq tags /\ \A t \in tags : byTag[t].detour \in DOMAIN byTag => byTag[t].detour \in tags

Reached == {t \in DOMAIN byTag : \A tags \in SUBSET DOMAIN byTag : Reaches(tags) => t \in tags}

\* Where a node of the pool is declared.
DeclaredAt(tag) ==
    LET i == CHOOSE i \in DOMAIN config.subscriptions : config.subscriptions[i].name = Head(tag)
        list == nodes[Head(tag)]
    IN  <<i, Min({j \in DOMAIN list : list[j].tag = tag})>>

Before(a, b) == a[1] < b[1] \/ (a[1] = b[1] /\ a[2] < b[2])

\* Where a generated node comes from: of the relays in named, the first declared
\* that generates it, and its place among what that one generates.
GeneratedAt(tag, named) ==
    LET i == Min({k \in named : tag \in Tags(relays[k])})
    IN  <<i, Min({j \in DOMAIN relays[i] : relays[i][j].tag = tag})>>

\* Relays first, in the order of their declaration, then nodes of the pool in that
\* of theirs.
Ahead(a, b, named) ==
    IF a \in Tags(pool) THEN b \in Tags(pool) /\ Before(DeclaredAt(a), DeclaredAt(b))
                        ELSE b \in Tags(pool) \/ Before(GeneratedAt(a, named), GeneratedAt(b, named))

InOrder(tags, named) == \A i, j \in DOMAIN tags : i < j => Ahead(tags[i], tags[j], named)

\* The relays that a rule lists.
ListedRelays(rule) == {i \in DOMAIN config.relays : config.relays[i].name \in Range(rule.relays)}

\* The one rule of a group.
OnlyRule(o, rule) == {other \in Range(rulesFor) : IsNamed(o, other.tag)} = {rule}

\* A group's members that no module file lists.
AddedMembers(o) == Select(o.members, {i \in DOMAIN o.members : o.members[i] \notin LiteralMembers})

Injected == pc = "finish" /\ rulesFor # <<>> /\ NoCollision

-----------------------------------------------------------------------------

\* What injection adds is sound, whatever subscriptions hold: no derived node
\* takes a tag that another object has, every member that a rule adds is in the
\* document, and so is every derived node's detour.  A document that is then
\* rejected for its references owes it to its module files (validate.go:105-108,
\* inject.go:62-65).
InjectionSound ==
    Injected =>
        /\ \A o \in AllDerived : Cardinality({i \in DOMAIN ItemsOf(doc) : ItemsOf(doc)[i].tag = o.tag}) = 1
        /\ \A o \in Range(ItemsOf(doc)) :
             Listed(o) \subseteq LiteralMembers \cup documentTags(doc)
        /\ \A o \in AllDerived : o.detour \in documentTags(doc) \cup {None}

\* A node is written to a document exactly when a rule of its modules reaches
\* it, through however many detours (inject.go:32-34, apply.go:53-57).
ExactlyReferenced ==
    Injected => {o.tag : o \in AllDerived} = Reached \ Literal

\* Nodes are inserted, and the members of a group that has one rule are listed,
\* relay by relay as nodes.relays declares them and then subscription by
\* subscription, whatever the order of a rule's lists and of a map's keys
\* (apply.go:91-96, inject.go:218-222; a relay's own nodes as it generated them).
DeclarationOrder ==
    Injected =>
        /\ \A k \in {"outbounds", "endpoints"} :
             InOrder([i \in DOMAIN Derived(k) |-> Derived(k)[i].tag], DOMAIN config.relays)
        /\ \A o \in Range(Items(doc, "outbounds")) : \A rule \in Range(rulesFor) :
             OnlyRule(o, rule) => InOrder(AddedMembers(o), ListedRelays(rule))

\* What the two Validates promise the later steps: every name they look up is
\* there, no path of the repository leaves it on its way (config.go:186-187, 472),
\* the daemon waits as the schedule says (loops.go:35), where its type is in lower
\* case, a run is bounded (bootstrap.go:151), and a source can be asked.
AcceptedConfigHolds ==
    pc \notin {"boot", "load", "refused"} =>
        /\ Used \subseteq NamesOf(config.modules)
        /\ \A m \in Range(config.modules) : \A rule \in Range(m.selectors) :
             /\ Range(rule.from) \subseteq NamesOf(config.subscriptions)
             /\ Range(rule.relays) \subseteq NamesOf(config.relays)
        /\ \A m \in Range(config.modules) : NeverAbove(m.file)
        /\ \A s \in Range(config.subscriptions) : NeverAbove(s.path)
        /\ LET s == config.update_schedule IN s.type = Lower(s.type) => ScheduleKept(s)
        /\ boot.update_timeout > 0
        /\ \A s \in Range(boot.source) : IF s.type = "github" THEN s.poll_interval > 0 ELSE IsAbs(s.dir)

\* One step of a walk from the root, which ".." does not leave.
WalkStep(at, part) ==
    CASE part \in {"", "."} -> at
      [] part = ".."        -> IF at = <<>> THEN at ELSE Front(at)
      [] OTHER              -> Append(at, part)

Walked(p) ==
    LET at[n \in 0..Len(p)] == IF n = 0 THEN <<>> ELSE WalkStep(at[n - 1], p[n])
    IN  at

\* Where a path leads when it is walked part by part from the root.
Walk(p) == Walked(p)[Len(p)]

\* However outputs are spelt, no two of a run write the same file and none
\* writes among the snapshots (target.go:41-45).
TargetsApart ==
    pc \notin {"boot", "load", "refused", "resolve", "failed"} =>
        LET base == IF config.output_dir = <<>> THEN DefaultOutputDir(boot)
                                                ELSE Walk(Join(boot.root, config.output_dir))
            place(c) == Walk(Join(base, c.path))
        IN  /\ \A i, j \in DOMAIN config.configs :
                 place(config.configs[i]) = place(config.configs[j]) => i = j
            /\ \A c \in Range(config.configs) : ~IsPrefix(Snapshots(boot), place(c))

\* Every build ends, nodes that are one another's detour included.
BuildEnds == <>(pc \in {"done", "failed", "refused"})

\* InjectionSound without NoCollision.
InjectionAlwaysSound ==
    pc = "finish" /\ rulesFor # <<>> =>
        \A o \in AllDerived : o.detour \in documentTags(doc) \cup {None}

\* The last part of AcceptedConfigHolds for every type that Validate accepts.
ScheduleAlwaysKept ==
    pc \notin {"boot", "load", "refused"} => ScheduleKept(config.update_schedule)

=============================================================================
