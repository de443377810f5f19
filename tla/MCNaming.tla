-------------------------------- MODULE MCNaming --------------------------------
EXTENDS Naming

MCChars      == {"smile", "flagU", "flagC", "flag?", "mark", "U", "S", "A", "u", "mei", "guo",
                  " ", "[", "]", "*", "?"}
MCEmoji      == {"smile", "flagU", "flagC", "flag?", "mark"}
MCLetters    == {"U", "S", "A", "u"}
MCIdeographs == {"mei", "guo"}
MCCapital(c) == IF c = "u" THEN "U" ELSE c
MCUnknown    == "flag?"
MCBuiltin    == <<[emoji |-> "flagU", keywords |-> <<<<"mei", "guo">>, <<"U", "S">>>>],
                  [emoji |-> "flagC", keywords |-> <<<<"A">>>>]>>

Words == UNION {[1..n -> {"U", "S", "mei", "smile", " "}] : n \in 0..3}
             \cup {<<"u", "S">>, <<"mei", "guo", "S">>, <<"A", "U", "S">>,
                   <<"A", "U", "S", " ", "U", "S">>, <<"U", "S", "A", " ", "A">>,
                   <<"mei", "guo", "guo">>, <<"U", "smile", " ", "S", " ", "S">>,
                   <<"S", " ", "U", "A", "U", "S">>, <<"S", " ", "smile", " ", "S">>}

SubNames == {<<<<"U">>, <<"A">>>>, <<<<"U">>, <<"U", "]", " ", "S">>>>,
             <<<<"A">>, <<"U">>>>, <<<<"U">>, <<"U">>>>}

Removals == {<<>>, <<<<"U", "S">>>>, <<<<>>, <<"S", "*", "U">>, <<"?", "mei">>>>}
Excludes == {<<>>, <<<<"S", " ", "S">>>>, <<<<"U", "U">>, <<"[", "A">>>>, <<<<"smile">>, <<"U", "smile", " ", "mei">>>>}
Overrides == {<<>>, <<[emoji |-> "mark", keywords |-> <<<<"u", "S">>>>]>>,
              <<[emoji |-> "mark", keywords |-> <<<<"A">>, <<>>>>]>>}

MCInputs ==
    /\ \E s \in SubNames, e \in {"on", "off", "unset"}, r \in Removals, n \in Words :
         /\ subs = <<[name |-> s[1], emoji |-> e, remove_keywords |-> r],
                     [name |-> s[2], emoji |-> "on", remove_keywords |-> <<>>]>>
         /\ names = <<<<n>>, <<n, <<"S">>>>>>
    /\ exclude \in Excludes /\ overrides \in Overrides

MCInit == MCInputs /\ Init
MCSpec == MCInit /\ [][Next]_vars
=============================================================================
