----------------------------- MODULE MCChunker -----------------------------
(* Instances of Chunker for TLC.                                           *)
EXTENDS Chunker

Heading(level, size) == [is |-> "heading", level |-> level, size |-> size]
FenceLine(mark, length, bare) ==
    [is |-> "fence", mark |-> mark, length |-> length, bare |-> bare, size |-> 1]
Written(kind, size, stops) ==
    [is |-> "text", kind |-> kind, size |-> size, stops |-> stops]

Blank == [is |-> "blank", size |-> 0]
Toc == [is |-> "toc", size |-> 1]
Ticks == FenceLine("tick", 3, TRUE)

\* Limits are 3 and 5 tokens: a line of 7 units has to be cut, and a heading
\* of 4 leaves room for one unit.
AllLines == {Heading(1, 1), Heading(2, 1), Heading(2, 4), Ticks,
             FenceLine("tick", 4, TRUE), FenceLine("tilde", 3, FALSE), Blank, Toc,
             Written("prose", 1, {1}), Written("prose", 7, {1, 3}),
             Written("list", 6, {})}

FewLines == {Heading(1, 1), Heading(2, 1), Ticks, Blank, Written("prose", 2, {1})}

\* All documents of up to three lines, those of four and five with fewer kinds,
\* code with a blank line behind a line that has to be cut, and a line whose
\* third unit finds no room.
MCDocuments == UNION {[1 .. n -> AllLines] : n \in 0 .. 3}
               \cup UNION {[1 .. n -> FewLines] : n \in 4 .. 5}
               \cup {<<h, Ticks, long, Blank, other, Ticks>> :
                        h \in {Heading(1, 1), Heading(2, 4), Blank},
                        long \in {Written("list", 6, {}), Written("prose", 7, {1, 3})},
                        other \in {Written("list", 6, {}), Heading(2, 4)}}
               \cup {<<Heading(2, 4), Written("prose", 3, {})>>}

\* A unit is a token, but the third of a line is two, and the third and fourth
\* together are one: a tokenizer joins some characters and takes others apart.
MCCount(headings, text) ==
    LET thirds == {k \in DOMAIN text : text[k][2] = 3}
        joined == {k \in thirds : k < Len(text) /\ text[k + 1] = <<text[k][1], 4>>}
    IN  FoldLeft(LAMBDA n, h : n + h.size, 0, headings)
            + Len(text) + Cardinality(thirds) - 2 * Cardinality(joined)
=============================================================================
