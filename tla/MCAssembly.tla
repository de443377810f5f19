-------------------------------- MODULE MCAssembly --------------------------------
(***************************************************************************)
(* Small configurations, fetched nodes and module files: nodes and rules   *)
(* in all combinations under one sound configuration, and that one with    *)
(* each of its fields changed.                                             *)
(***************************************************************************)
EXTENDS Assembly

MCText     == STRING
MCBootDir  == <<"srv">>
MCLower(t) == CASE t = "Clash" -> "clash" [] t = "HTTP" -> "http" [] t = "Hourly" -> "hourly" [] t = "Interval" -> "interval"
                [] OTHER -> t

Sel(from, include, exclude)  == [from |-> from, include |-> include, exclude |-> exclude]
Rule(tag, sel, names)        == [tag |-> tag, from |-> sel.from, include |-> sel.include,
                                 exclude |-> sel.exclude, relays |-> names]
Sub(name, on)                == [name |-> name, url |-> "u", path |-> <<>>, type |-> "Clash", enable |-> on]
Relay(name, via, up)         == [name |-> name, via |-> via, upstream |-> up]
Module(name, rules)          == [name |-> name, file |-> <<name>>, from_url |-> <<>>, path |-> <<>>,
                                 selectors |-> rules]
Output(name, path, modules)  == [name |-> name, path |-> path, modules |-> modules]

Obj(tag, type, list, detour) == [kind |-> "object", tag |-> tag, type |-> type,
                                 members |-> list, detour |-> detour]
Arr(items)                   == [kind |-> "array", items |-> items]
File(d)                      == [kind |-> "object", doc |-> d]

N(tag, type, detour)         == [tag |-> tag, type |-> type, detour |-> detour]

Ax == <<"A", "x">>
Ay == <<"A", "y">>
Bx == <<"B", "x">>
AxBx == <<"A", "x", "B", "x">>
Direct == <<"direct">>
Proxy  == <<"proxy">>
Auto   == <<"auto">>

All(s) == Sel(<<s>>, <<>>, <<>>)

-----------------------------------------------------------------------------

NodesOfA == {<<N(Ax, "ss", None), N(Ay, "wireguard", None)>>,
             <<N(Ax, "ss", Ay), N(Ay, "ss", Ax)>>,
             <<N(Ax, "ss", Ay), N(None, "ss", None), N(Ay, "ss", Direct), N(Ax, "ss", None)>>,
             <<N(Ay, "ss", <<"gone">>)>>,
             <<N(AxBx, "ss", None), N(Ax, "ss", None)>>,
             <<>>}
NodesOfB == {<<N(Bx, "ss", None)>>, <<N(Bx, "ss", Ay), N(<<"B", "y">>, "ss", None)>>}

RelayLists == {<<>>,
               <<Relay("r", <<Sel(<<"A">>, <<"x">>, <<>>)>>, <<All("B")>>)>>,
               <<Relay("q", <<All("B")>>, <<Sel(<<"A">>, <<>>, <<"y">>), All("A")>>),
                 Relay("r", <<All("A")>>, <<Sel(<<"A", "B">>, <<>>, <<"", "y">>)>>)>>}

RuleLists == {<<>>,
              <<Rule(Proxy, Sel(<<"B", "A">>, <<>>, <<>>), <<>>)>>,
              <<Rule(Proxy, Sel(<<"A">>, <<"x">>, <<>>), <<>>)>>,
              <<Rule(Proxy, Sel(<<"A">>, <<"x">>, <<>>), <<"r", "q">>)>>,
              <<Rule(Proxy, Sel(<<>>, <<>>, <<>>), <<"r">>), Rule(Auto, Sel(<<"A", "B">>, <<>>, <<"x">>), <<>>)>>,
              <<Rule(<<"nobody">>, All("A"), <<>>)>>}

BaseFiles == {File([outbounds |-> Arr(<<Obj(Direct, "direct", <<>>, None),
                                        Obj(Proxy, "selector", <<Direct>>, None),
                                        Obj(Auto, "urltest", <<Ax, Direct>>, None)>>),
                    log |-> Arr(<<>>)]),
              File([outbounds |-> Arr(<<Obj(Proxy, "selector", <<>>, None), Obj(Auto, "selector", <<Proxy>>, None),
                                        Obj(Ax, "ss", <<>>, None), Obj(Direct, "direct", <<>>, None)>>),
                    endpoints |-> [kind |-> "null", items |-> <<>>]])}

ExtraFiles == {File([route |-> [kind |-> "object", items |-> <<Direct>>],
                     endpoints |-> Arr(<<Obj(<<"wg">>, "wireguard", <<>>, None)>>)])}

OddFiles == {File([outbounds |-> [kind |-> "null", items |-> <<>>]]),
             File([dns |-> [kind |-> "object", items |-> <<>>]]),
             File([outbounds |-> Arr(<<Obj(Proxy, "selector", <<Direct>>, None), Obj(Auto, "wireguard", <<>>, None)>>)]),
             File([outbounds |-> Arr(<<Obj(Proxy, "selector", <<Auto>>, None), Obj(Auto, "direct", <<>>, Direct)>>)]),
             File([outbounds |-> Arr(<<Obj(Proxy, "selector", <<>>, None), Obj(None, "direct", <<>>, None)>>)]),
             File([outbounds |-> Arr(<<[Obj(None, "", <<>>, None) EXCEPT !.kind = "number"]>>)]),
             File([outbounds |-> [kind |-> "string", items |-> <<>>]]),
             [kind |-> "unreadable"], [kind |-> "malformed"]}

Sound == [parses |-> TRUE, complete |-> TRUE, output_dir |-> <<>>,
          subscriptions |-> <<Sub("A", TRUE), Sub("B", TRUE)>>,
          relays |-> <<Relay("r", <<All("A")>>, <<All("B")>>)>>,
          emoji_overrides |-> <<>>,
          modules |-> <<Module("base", <<Rule(Proxy, All("A"), <<"r">>)>>), Module("extra", <<>>)>>,
          configs |-> <<Output("one", <<"one">>, <<"base">>), Output("two", <<"d", "two">>, <<"extra", "base">>)>>,
          update_schedule |-> [type |-> "interval", every |-> 3]]

Combined ==
    {[Sound EXCEPT !.relays = r, !.modules[1].selectors = rules, !.subscriptions[2].enable = on] :
        r \in RelayLists, rules \in RuleLists, on \in BOOLEAN}

-----------------------------------------------------------------------------

RepoPaths == {<<"", "etc">>, <<"..", "x">>, <<"a", "..", "..", "x">>, <<"a", "..", "x">>, <<"a\\b">>, <<".", "a">>}
OutPaths  == {<<"one">>, <<"d", "..", "one">>, <<"", "srv", "out", "one">>, <<"..", "snapshots", "one">>,
              <<"..", "snap", "one">>, <<"", "etc", ".", "one">>, <<"", "..", "srv", "snapshots">>, <<"", "gone", "one">>}
OutDirs   == {<<>>, <<"etc">>, <<"", "etc">>, <<"snapshots">>, <<"", "srv", "snapshots", "..">>}

Perturbed ==
    {[Sound EXCEPT !.parses = FALSE], [Sound EXCEPT !.complete = FALSE],
     [Sound EXCEPT !.subscriptions[1].name = ""], [Sound EXCEPT !.subscriptions[2].name = "A"],
     [Sound EXCEPT !.subscriptions[1].url = ""], [Sound EXCEPT !.subscriptions[1].path = <<"f">>],
     [Sound EXCEPT !.subscriptions[1].type = "trojan"],
     [Sound EXCEPT !.relays[1].name = ""], [Sound EXCEPT !.relays[1].via = <<>>],
     [Sound EXCEPT !.relays[1].upstream = <<All("C")>>], [Sound EXCEPT !.relays[1].via[1].from = <<>>],
     [Sound EXCEPT !.emoji_overrides = <<[emoji |-> "", keywords |-> <<"x">>]>>],
     [Sound EXCEPT !.emoji_overrides = <<[emoji |-> "e", keywords |-> <<"x", "">>]>>],
     [Sound EXCEPT !.modules = <<>>], [Sound EXCEPT !.modules[2].name = "base"],
     [Sound EXCEPT !.modules[2].from_url = <<"u">>], [Sound EXCEPT !.modules[2].file = <<>>],
     [Sound EXCEPT !.modules[1].selectors = <<Rule(None, All("A"), <<>>)>>],
     [Sound EXCEPT !.modules[1].selectors[1].relays = <<"nobody">>],
     [Sound EXCEPT !.modules[1].selectors[1].from = <<"C">>],
     [Sound EXCEPT !.modules[1].selectors = <<Rule(Proxy, Sel(<<>>, <<>>, <<>>), <<>>)>>],
     [Sound EXCEPT !.modules[1].selectors = @ \o @],
     [Sound EXCEPT !.configs = <<>>], [Sound EXCEPT !.configs[2].name = "one"],
     [Sound EXCEPT !.configs[1].path = <<>>], [Sound EXCEPT !.configs[1].modules = <<>>],
     [Sound EXCEPT !.configs[1].modules = <<"gone">>], [Sound EXCEPT !.configs[1].modules = <<"base", "base">>]}
    \cup {[Sound EXCEPT !.modules[2].file = p] : p \in RepoPaths}
    \cup {[Sound EXCEPT !.subscriptions[1].url = "", !.subscriptions[1].path = p] : p \in RepoPaths}
    \cup {[Sound EXCEPT !.output_dir = d, !.configs[1].path = p, !.configs[2].path = q] :
            d \in OutDirs, p \in OutPaths, q \in OutPaths}
    \cup {[Sound EXCEPT !.update_schedule = [type |-> t, every |-> e]] :
            t \in {"", "daily", "hourly", "Hourly", "interval", "Interval"}, e \in {-1, 0, 3}}

GitHub == [type |-> "github", repo |-> <<"o", "r">>, branch |-> "", token_env |-> "T",
           poll_interval |-> 0, dir |-> <<>>]
Local  == [type |-> "local", repo |-> <<>>, branch |-> "", token_env |-> "",
           poll_interval |-> 0, dir |-> <<"..", "repo">>]
Boot   == [parses |-> TRUE, root |-> <<>>, update_timeout |-> 0, source |-> <<GitHub>>,
           server |-> <<[enabled |-> TRUE, listen |-> <<>>, webhook_secret_env |-> "S"]>>,
           proxy |-> <<[type |-> "HTTP", host |-> "h", port |-> 65535]>>]

Roots == {<<".">>, <<"", "srv", "">>, <<"x", "..", "..", "..", "srv">>, <<"", "..", "srv", "out">>}

Boots ==
    {[Boot EXCEPT !.parses = FALSE], [Boot EXCEPT !.source = <<>>], [Boot EXCEPT !.server = <<>>, !.proxy = <<>>]}
    \cup {[Boot EXCEPT !.root = r] : r \in Roots}
    \cup {[Boot EXCEPT !.update_timeout = t] : t \in {-1, 7}}
    \cup {[Boot EXCEPT !.source[1] = s] : s \in
            {Local, [GitHub EXCEPT !.type = ""]}
            \cup {[GitHub EXCEPT !.repo = r] : r \in {<<>>, <<"o">>, <<"o", "">>, <<"o", "r", "x">>}}
            \cup {[GitHub EXCEPT !.poll_interval = i] : i \in {-1, 3}}
            \cup {[GitHub EXCEPT !.token_env = ""], [GitHub EXCEPT !.dir = <<"d">>]}
            \cup {[Local EXCEPT !.dir = d] : d \in {<<>>, <<"", "repo">>}}
            \cup {[Local EXCEPT !.repo = <<"o", "r">>], [Local EXCEPT !.token_env = "T"],
                  [Local EXCEPT !.poll_interval = -1]}}
    \cup {[Boot EXCEPT !.server[1].listen = l] : l \in {<<"localhost">>, <<"", "80">>, <<"::", "80">>, <<"localhost", "">>}}
    \cup {[Boot EXCEPT !.server[1].webhook_secret_env = "", !.server[1].enabled = on] : on \in BOOLEAN}
    \cup {[Boot EXCEPT !.proxy[1].port = n] : n \in {0, 65536}}
    \cup {[Boot EXCEPT !.proxy[1].host = ""], [Boot EXCEPT !.proxy[1].type = "ftp"]}

Fetched(a, b) == [s \in NamesOf(config.subscriptions) |-> IF s = "A" THEN a ELSE IF s = "B" THEN b ELSE <<>>]
Files(b, e)   == [m \in NamesOf(config.modules) |-> IF m = "base" THEN b ELSE e]

Some(S) == CHOOSE x \in S : TRUE

MCInputs ==
    \/ /\ boot = Boot /\ config \in Combined
       /\ \E a \in NodesOfA, b \in NodesOfB : nodes = Fetched(a, b)
       /\ \E f \in BaseFiles, e \in ExtraFiles : files = Files(f, e)
    \/ /\ boot = Boot /\ config = Sound
       /\ nodes = Fetched(<<N(Ax, "ss", None)>>, Some(NodesOfB))
       /\ \E f \in OddFiles \cup BaseFiles, e \in OddFiles \cup BaseFiles : files = Files(f, e)
    \/ /\ \/ boot = Boot /\ config \in Perturbed
          \/ boot \in Boots /\ config = Sound
       /\ nodes = Fetched(<<N(Ax, "ss", None)>>, <<N(Bx, "ss", None)>>)
       /\ files = Files(Some(BaseFiles), Some(ExtraFiles))

MCInit == MCInputs /\ Init
MCSpec == MCInit /\ [][Next]_vars /\ WF_vars(Step)
=============================================================================
