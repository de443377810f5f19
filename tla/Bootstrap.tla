--------------------------------- MODULE Bootstrap ---------------------------------
(***************************************************************************)
(* node-box.json: what applyDefaults makes of it and what Validate lets    *)
(* through.                                                                *)
(*                                                                         *)
(* A field that is left out is "", <<>> or 0, a section that is left out a *)
(* sequence without an entry.  A repository is the parts of owner/name,    *)
(* and an address those of host:port.                                      *)
(***************************************************************************)
EXTENDS Paths

CONSTANTS
    Text,           \* the strings that names, types and parts of paths are
    BootDir,        \* the directory of node-box.json, without its leading slash
    Lower(_),       \* strings.ToLower of a type
    DefaultPollInterval, DefaultUpdateTimeout

ASSUME TextAssumption == {"", "main", "127.0.0.1", "8788", "snapshots", "out"} \subseteq Text
ASSUME BootstrapAssumption ==
    /\ BootDir \in Seq(Text)
    /\ DefaultPollInterval \in Nat \ {0} /\ DefaultUpdateTimeout \in Nat \ {0}

Sources == [type : Text, repo : Seq(Text), branch : Text, token_env : Text,
            poll_interval : Int, dir : Seq(Text)]
Servers == [enabled : BOOLEAN, listen : Seq(Text), webhook_secret_env : Text]
Proxies == [type : Text, host : Text, port : Int]

Bootstraps == [parses : BOOLEAN, root : Seq(Text), update_timeout : Int,
               source : Seq(Sources), server : Seq(Servers), proxy : Seq(Proxies)]

-----------------------------------------------------------------------------
(* applyDefaults *)

\* filepath.Join cleans what it joins.
sourceDefaults(s) ==
    [s EXCEPT !.branch = IF @ = "" THEN "main" ELSE @,
              !.poll_interval = IF @ = 0 /\ s.type = "github" THEN DefaultPollInterval ELSE @,
              !.dir = IF @ = <<>> \/ IsAbs(@) THEN @ ELSE <<"">> \o CleanAbs(BootDir \o @)]

serverDefaults(s) == [s EXCEPT !.listen = IF @ = <<>> THEN <<"127.0.0.1", "8788">> ELSE @]

\* The root is without its leading slash from here on.
applyDefaults(b) ==
    [b EXCEPT !.root = CleanAbs(IF IsAbs(@) THEN @ ELSE BootDir \o @),
              !.update_timeout = IF @ = 0 THEN DefaultUpdateTimeout ELSE @,
              !.source = [i \in DOMAIN @ |-> sourceDefaults(@[i])],
              !.server = [i \in DOMAIN @ |-> serverDefaults(@[i])]]

-----------------------------------------------------------------------------
(* Validate *)

validateSource(s) ==
    \/ /\ s.type = "github"
       /\ Len(s.repo) = 2 /\ "" \notin Range(s.repo)
       /\ s.token_env # "" /\ s.dir = <<>> /\ s.poll_interval >= 0
    \/ s.type = "local" /\ s.dir # <<>> /\ s.repo = <<>> /\ s.token_env = ""

validateServer(s) ==
    /\ s.webhook_secret_env # ""
    /\ Len(s.listen) = 2 /\ s.listen[1] \notin {"", "0.0.0.0", "::"} /\ s.listen[2] # ""

validateProxy(p) ==
    p.host # "" /\ p.port \in 1..65535 /\ Lower(p.type) \in {"http", "https", "socks5"}

ValidateBootstrap(b) ==
    /\ b.source # <<>> /\ \A s \in Range(b.source) : validateSource(s)
    /\ \A s \in Range(b.server) : s.enabled => validateServer(s)
    /\ \A p \in Range(b.proxy) : validateProxy(p)
    /\ b.update_timeout > 0

-----------------------------------------------------------------------------
(* The directories below the root. *)

Snapshots(b) == b.root \o <<"snapshots">>
DefaultOutputDir(b) == b.root \o <<"out">>

=============================================================================
