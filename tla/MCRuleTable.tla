---------------------------- MODULE MCRuleTable ----------------------------
(***************************************************************************)
(* Small instances of RuleTable: five port texts, two of them with the     *)
(* same normal form and two that differ only in a digit, and distinct      *)
(* sets enough to reach every limit.                                       *)
(***************************************************************************)
EXTENDS RuleTable

MCPortTexts == { AllPorts,
                 << <<1, 1, 1>>, <<2, 2, 0>> >>,   \* "1,2:0"
                 << <<2, 2, 0>>, <<1, 1, 1>> >>,   \* "2:0,1:1"
                 << <<1, 2, 1>> >>,                \* "1-2"
                 << <<1, 2, 0>> >> }               \* "1-2:0"

\* One text for each of: reversed range, digit above 1.
MCRefusedTexts == {<< <<2, 1, 1>> >>, << <<1, 1, 2>> >>}

MCWithRefused == MCPortTexts \cup MCRefusedTexts

-----------------------------------------------------------------------------
\* "unique normal form": texts that share a port set mean the same.
SameFormSameMeaning ==
    \A k, l \in Filtering : Share(k, l) => Meaning(TextOf(k)) = Meaning(TextOf(l))
=============================================================================
