---------------------------- MODULE MCRetrieval ----------------------------
(* Instances of Retrieval and Evaluation for TLC: a document of three       *)
(* chunks and one with a single chunk.                                      *)
EXTENDS Evaluation, TLC

MCDoc == <<"a", "a", "a", "b">>
MCOrder == <<0, 1, 2, 0>>

\* The sections of the chunks and their parents: a section of two chunks with a
\* sibling; and text before the first heading, whose section has no parent but
\* is that of the sections at the top (_parse_sections of the chunker).
MCLayouts == {[section |-> <<"s", "s", "t", "u">>, parent |-> <<"p", "p", "p", "q">>],
              [section |-> <<"p", "s", "s", "q">>, parent |-> <<"-", "p", "p", "-">>]}

\* 2 and 4 tokens leave room for neighbours, 7 does not.
MCTokens == {<<2, 4, 2, 4>>, <<4, 2, 4, 4>>, <<7, 2, 4, 2>>}

MCIndexes == {[doc |-> MCDoc, order |-> MCOrder, section |-> l.section,
               parent |-> l.parent, tokens |-> t] : l \in MCLayouts, t \in MCTokens}

\* Pairs of chunks that say the same, in tenths: none, or overlapping pairs.
MCAlike == {{}, {{1, 2}, {2, 3}}}
MCSimilarities == {[c \in Chunk |-> [d \in Chunk |->
                      IF c = d THEN 10 ELSE IF {c, d} \in alike THEN 9 ELSE 1]] :
                   alike \in MCAlike}

\* Evaluation sets: one case, and two of different stress types; the relevant
\* chunks are one, two, or none of the active version.
MCCaseFiles == {<<[relevant |-> {1}, stress |-> "x"]>>,
                <<[relevant |-> {2, 4}, stress |-> "y"], [relevant |-> {}, stress |-> "x"]>>}

\* A job does not read the layout of the index: one is enough for it, and of
\* the limits one that is admitted and one on either side.
MCJobInit ==
    /\ JobInit
    /\ job = "load" => /\ limit \in {0, TopKMax, TopKMax + 1}
                       /\ index.tokens = <<2, 4, 2, 4>> /\ index.parent[1] = "p"

MCJobSpec == MCJobInit /\ [][JobNext]_allVars
=============================================================================
