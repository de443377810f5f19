--------------------------------- MODULE MCSource ---------------------------------
(***************************************************************************)
(* The parts of the sources, one instance for each: kind says which of     *)
(* them moves.                                                             *)
(***************************************************************************)
EXTENDS GitHubResolve, LocalSource, Archive

CONSTANTS A, B, C, runner, poll

VARIABLE kind

MCCommits == {A, B, C}
MCCallers == {runner, poll}
MCOrder   == <<"config.json", "head", "modules">>
MCSkipped == {"head"}
MCParts   == {"r", "..", "", "..\\a"}

allvars == <<vars, lvars, avars, kind>>

SourceInit ==
    /\ kind \in {"branch", "directory", "archive"}
    /\ Init /\ LInit /\ AInit
    /\ kind # "branch" => head = A /\ server = "sound"
    /\ kind # "directory" => \A f \in AllPaths : dir[f] = 0

Ended == extracting \in {"done", "refused"} /\ UNCHANGED avars

SourceNext ==
    /\ UNCHANGED kind
    /\ \/ kind = "branch"    /\ Next          /\ UNCHANGED <<lvars, avars>>
       \/ kind = "directory" /\ LNext         /\ UNCHANGED <<vars, avars>>
       \/ kind = "archive"   /\ ANext         /\ UNCHANGED <<vars, lvars>>
       \/ kind = "archive"   /\ Ended         /\ UNCHANGED <<vars, lvars>>

SourceSpec == SourceInit /\ [][SourceNext]_allvars
=============================================================================
