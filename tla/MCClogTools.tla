----------------------------- MODULE MCClogTools -----------------------------
(***************************************************************************)
(* Instances of ClogTools.                                                 *)
(***************************************************************************)
EXTENDS ClogTools, TLC

CONSTANTS h1, h2, web, db, logsweb

\* One candidate a role, but two for the namespace.
MCFields == {"ns1", "ns2", "other"}
MCCandidates == [r \in Roles |-> IF r = "namespace" THEN <<"ns1", "ns2">> ELSE <<"other">>]

Keyword  == [types |-> {"keyword"}, aggregatable |-> TRUE, keyword |-> FALSE]
Unmapped == [types |-> {}, aggregatable |-> FALSE, keyword |-> FALSE]
Text     == [types |-> {"text"}, aggregatable |-> FALSE, keyword |-> FALSE]
TextKw   == [types |-> {"text"}, aggregatable |-> FALSE, keyword |-> TRUE]
Number   == [types |-> {"number"}, aggregatable |-> TRUE, keyword |-> FALSE]

MCMapping(a, b, c) == [f \in MCFields |-> CASE f = "ns1" -> a [] f = "ns2" -> b [] f = "other" -> c]

\* The first candidate is a keyword, or only text, in which case the second may
\* serve by its .keyword.  What an index has decides about the others: together they
\* are resolved to the first, to the second, which one of them lacks, or to none.
First   == MCMapping(Keyword, Unmapped, Keyword)
Second  == MCMapping(Text, TextKw, Keyword)
Neither == MCMapping(Text, Unmapped, Keyword)
MCMapped(own, shared) == [d \in Homes |->
    CASE d = <<web, "own">>   -> own
      [] d = <<db, "shared">> -> shared
      [] OTHER                -> {MCMapping(Unmapped, Unmapped, Number)}]
MCMappings == MCMapped({First, Second}, {First})
MCNamespaceless == MCMapped({First, Second}, {First, Neither})

\* One handler searches, with a namespace or without; the other only resolves
\* fields, of both indices.
MCToolsOf == (h1 :> {"list_containers"}) @@ (h2 :> {"profile"})
\* One handler, every tool.
MCEveryTool == h1 :> Tools

\* A namespace with a stream of its own, one with logs in a shared index, and one
\* whose name is taken for the first one's stream.
MCPlaces == {<<web, "own">>, <<db, "shared">>}
MCUnprefixed == [n \in Prefixed |-> web]

=============================================================================
