------------------------------ MODULE Chunker ------------------------------
(***************************************************************************)
(* MarkdownChunker.chunk_markdown on one document: _parse_sections reads   *)
(* the lines, _build_blocks cuts each section at blank lines and fences,   *)
(* oversized blocks are split, and the parts are packed into chunks.       *)
(* A line has a kind and a size; its text is that many units, the smallest *)
(* pieces it can be cut into, and a unit is the pair of its line and its   *)
(* place there.  A heading is known by its line.  Which text a unit has    *)
(* does not matter, so a chunk's id is its order.  Line ranges and         *)
(* has_code are left out.                                                  *)
(***************************************************************************)
EXTENDS Integers, Sequences, FiniteSets, SequencesExt

CONSTANTS Documents,             \* the documents, sequences of lines
          Count(_, _),           \* tokens of a heading path with a text
          SoftLimit, HardLimit   \* in tokens

ASSUME LimitAssumption == /\ SoftLimit \in Nat \ {0}
                          /\ HardLimit \in Nat /\ HardLimit >= SoftLimit
\* Only a blank line has no units.
ASSUME DocumentAssumption ==
    \A d \in Documents :
        /\ Len(d) \in Nat /\ DOMAIN d = 1 .. Len(d)
        /\ \A l \in DOMAIN d :
              /\ d[l].is \in {"heading", "fence", "blank", "toc", "text"}
              /\ d[l].size \in Nat /\ (d[l].size = 0 <=> d[l].is = "blank")
              /\ d[l].is = "heading" => d[l].level \in Nat
              /\ d[l].is = "text" => d[l].kind \in {"code", "prose", "list"}

VARIABLES doc,       \* the document
          phase,     \* what the chunker is doing
          line,      \* the next line to read
          fence,     \* in_fence: the line that opened the fence, or 0
          path,      \* heading_stack
          buffer,    \* pending_lines, then the lines _build_blocks has left
          inner,     \* the fence of _build_blocks
          current,   \* its current lines
          blocks,    \* the blocks it has built; then those left to split
          sections,  \* the sections parsed; then those left to chunk
          pieces,    \* the sentences or lines of an oversized block
          open,      \* those put together for the next item
          items,     \* the groups of pieces, which may still be oversized
          parts,     \* the parts of the section
          packed,    \* current_parts
          fresh,     \* the chunks of the section
          chunks     \* the chunks of the sections before

parsing == <<line, fence, path>>
building == <<inner, current>>
splitting == <<pieces, open, items>>
packing == <<parts, packed, fresh>>
vars == <<doc, phase, parsing, buffer, building, blocks, sections, splitting, packing, chunks>>

Phases == {"read", "build", "section", "split", "group", "cut", "pack", "done", "refused"}
NoLink == -1

Init ==
    /\ doc \in Documents
    /\ phase = "read"
    /\ line = 1 /\ fence = 0 /\ path = <<>> /\ buffer = <<>>
    /\ inner = 0 /\ current = <<>> /\ blocks = <<>> /\ sections = <<>>
    /\ pieces = <<>> /\ open = <<>> /\ items = <<>> /\ parts = <<>> /\ packed = <<>> /\ fresh = <<>>
    /\ chunks = <<>>

-----------------------------------------------------------------------------
(* Lines.                                                                  *)

Is(l, kind) == doc[l].is = kind

\* _is_fence_close: the same mark, at least as long, nothing after it.
Closes(l, f) ==
    /\ Is(l, "fence") /\ doc[l].bare
    /\ doc[l].mark = doc[f].mark /\ doc[l].length >= doc[f].length

\* The fence that is open after line l, if f was before it.
FenceAfter(l, f) ==
    IF f # 0 THEN IF Closes(l, f) THEN 0 ELSE f
    ELSE IF Is(l, "fence") THEN l ELSE 0

Units(l) == [i \in 1 .. doc[l].size |-> <<l, i>>]
Text(ls) == FlattenSeq([k \in DOMAIN ls |-> Units(ls[k])])
\* The numbers up to n that are in S, in their order.
Among(n, S) == FlattenSeq([k \in 1 .. n |-> IF k \in S THEN <<k>> ELSE <<>>])
Tokens(headings, text) == Count([k \in DOMAIN headings |-> doc[headings[k]]], text)

-----------------------------------------------------------------------------
(* _parse_sections                                                         *)

AtHeading == line \in DOMAIN doc /\ fence = 0 /\ Is(line, "heading")
AtEnd == line = Len(doc) + 1

ReadLine ==
    /\ phase = "read" /\ line \in DOMAIN doc /\ ~AtHeading
    /\ buffer' = Append(buffer, line)
    /\ fence' = FenceAfter(line, fence)
    /\ line' = line + 1
    /\ UNCHANGED <<doc, phase, path, building, blocks, sections, splitting, packing, chunks>>

\* flush_section is called with lines to flush.
Flush ==
    /\ phase = "read" /\ buffer # <<>>
    /\ AtHeading \/ AtEnd
    /\ phase' = "build"
    /\ UNCHANGED <<doc, parsing, buffer, building, blocks, sections, splitting, packing, chunks>>

\* Mutant of Kept: a heading of the same level stays on the stack.
KeptSame(level) ==
    SubSeq(path, 1, Max({0} \cup {i \in DOMAIN path : doc[path[i]].level <= level}))

\* What is left of the stack when headings of this level or deeper are popped.
Kept(level) ==
    SubSeq(path, 1, Max({0} \cup {i \in DOMAIN path : doc[path[i]].level < level}))

ReadHeading ==
    /\ phase = "read" /\ AtHeading /\ buffer = <<>>
    /\ path' = Append(Kept(doc[line].level), line)
    /\ line' = line + 1
    /\ UNCHANGED <<doc, phase, fence, buffer, building, blocks, sections, splitting, packing, chunks>>

EndRead ==
    /\ phase = "read" /\ AtEnd /\ buffer = <<>>
    /\ phase' = "section"
    /\ UNCHANGED <<doc, parsing, buffer, building, blocks, sections, splitting, packing, chunks>>

-----------------------------------------------------------------------------
(* _build_blocks                                                           *)

\* _is_non_indexable_control_block: a table-of-contents marker on its own.
Control(ls) == Len(ls) = 1 /\ Is(ls[1], "toc")

\* Mutant of Stripped: the text is used as it is.
StrippedNot(ls) == ls

\* strip() of the text, which drops the blank lines at its end.
Stripped(ls) == SubSeq(ls, 1, Max({k \in DOMAIN ls : ~Is(ls[k], "blank")}))

\* _block_kind: prose and quotes are split by sentence, the rest by line.
Kind(l) ==
    IF Is(l, "fence") THEN "code" ELSE IF Is(l, "text") THEN doc[l].kind ELSE "prose"

\* flush_current
Flushed ==
    IF current = <<>> \/ Control(current) THEN blocks
    ELSE Append(blocks, [lines |-> Stripped(current), kind |-> Kind(current[1])])

BuildLine ==
    /\ phase = "build" /\ buffer # <<>>
    /\ buffer' = Tail(buffer)
    /\ LET l == Head(buffer)
       IN  /\ inner' = FenceAfter(l, inner)
           /\ \/ /\ inner # 0 /\ inner' # 0
                 /\ current' = Append(current, l) /\ UNCHANGED blocks
              \/ /\ inner # 0 /\ inner' = 0
                 /\ current' = <<>>
                 /\ blocks' = Append(blocks, [lines |-> Append(current, l), kind |-> "code"])
              \/ /\ inner = 0 /\ Is(l, "fence")
                 /\ current' = <<l>> /\ blocks' = Flushed
              \/ /\ inner = 0 /\ Is(l, "blank")
                 /\ current' = <<>> /\ blocks' = Flushed
              \/ /\ inner = 0 /\ ~Is(l, "fence") /\ ~Is(l, "blank")
                 /\ current' = Append(current, l) /\ UNCHANGED blocks
    /\ UNCHANGED <<doc, phase, parsing, sections, splitting, packing, chunks>>

\* Mutant of EndBuild: a section without blocks is kept.
EndBuildAlways ==
    /\ phase = "build" /\ buffer = <<>>
    /\ sections' = Append(sections, [path |-> path, blocks |-> Flushed])
    /\ inner' = 0 /\ current' = <<>> /\ blocks' = <<>>
    /\ phase' = "read"
    /\ UNCHANGED <<doc, parsing, buffer, splitting, packing, chunks>>

\* The rest of flush_section.
EndBuild ==
    /\ phase = "build" /\ buffer = <<>>
    /\ \/ Flushed # <<>> /\ sections' = Append(sections, [path |-> path, blocks |-> Flushed])
       \/ Flushed = <<>> /\ UNCHANGED sections
    /\ inner' = 0 /\ current' = <<>> /\ blocks' = <<>>
    /\ phase' = "read"
    /\ UNCHANGED <<doc, parsing, buffer, splitting, packing, chunks>>

-----------------------------------------------------------------------------
(* _chunk_section: its blocks are split into parts, the parts packed.      *)

Here == sections[1].path        \* the heading path of the section
Join(texts) == FlattenSeq(texts)
Fits(text) == Tokens(Here, text) <= HardLimit
Full(text) == Tokens(Here, text) >= SoftLimit

StartSection ==
    /\ phase = "section" /\ sections # <<>>
    /\ phase' = "split"
    /\ blocks' = sections[1].blocks
    /\ UNCHANGED <<doc, parsing, buffer, building, sections, splitting, packing, chunks>>

\* _sentence_blocks: cut after every unit that ends a sentence.
Sentences(ls) ==
    LET text == Text(ls)
        ends == Among(Len(text), {k \in DOMAIN text :
                    \/ k = Len(text)
                    \/ Is(text[k][1], "text") /\ text[k][2] \in doc[text[k][1]].stops})
    IN  [j \in DOMAIN ends |-> SubSeq(text, IF j = 1 THEN 1 ELSE ends[j - 1] + 1, ends[j])]

Lines(ls) == [k \in DOMAIN ls |-> Units(ls[k])]

\* Mutant of Overflows: the soft limit already separates parts.
OverflowsSoft(group, part) == group # <<>> /\ Full(Join(Append(group, part)))

\* A part does not fit behind those put together before it.
Overflows(group, part) == group # <<>> /\ ~Fits(Join(Append(group, part)))

\* _split_oversized_block: a block that fits is a part of its own.
SplitBlock ==
    /\ phase = "split" /\ blocks # <<>>
    /\ LET b == Head(blocks)
       IN  \/ /\ Fits(Text(b.lines))
              /\ parts' = Append(parts, Text(b.lines))
              /\ blocks' = Tail(blocks)
              /\ UNCHANGED <<phase, pieces>>
           \/ /\ ~Fits(Text(b.lines))
              /\ pieces' = IF b.kind = "prose" THEN Sentences(b.lines) ELSE Lines(b.lines)
              /\ phase' = "group"
              /\ UNCHANGED <<parts, blocks>>
    /\ UNCHANGED <<doc, parsing, buffer, building, sections, open, items, packed, fresh, chunks>>

\* One turn of the first loop of _split_prose or _split_by_line; only prose
\* minds the soft limit.
GroupPiece ==
    /\ phase = "group" /\ pieces # <<>>
    /\ pieces' = Tail(pieces)
    /\ LET piece == Head(pieces)
           now   == IF Overflows(open, piece) THEN <<piece>> ELSE Append(open, piece)
           ended == IF Overflows(open, piece) THEN <<Join(open)>> ELSE <<>>
           whole == Head(blocks).kind = "prose" /\ Full(Join(now))
       IN  \/ whole /\ items' = items \o ended \o <<Join(now)>> /\ open' = <<>>
           \/ ~whole /\ items' = items \o ended /\ open' = now
    /\ UNCHANGED <<doc, phase, parsing, buffer, building, blocks, sections, packing, chunks>>

EndGroup ==
    /\ phase = "group" /\ pieces = <<>>
    /\ items' = items \o (IF open = <<>> THEN <<>> ELSE <<Join(open)>>)
    /\ open' = <<>>
    /\ blocks' = Tail(blocks)
    /\ phase' = "cut"
    /\ UNCHANGED <<doc, parsing, buffer, building, sections, pieces, packing, chunks>>

\* Where the binary search of _largest_safe_prefix may end, 0 if it finds no
\* prefix: the one before fits, the next does not.  There is one such place when
\* longer texts have more tokens, which a tokenizer does not promise.
SafePrefixes(text) ==
    {n \in 0 .. Len(text) :
        /\ n = 0 \/ Fits(SubSeq(text, 1, n))
        /\ n = Len(text) \/ ~Fits(SubSeq(text, 1, n + 1))}

\* Mutant of KeepItem: a piece is kept whatever its size.
KeepAnyItem ==
    /\ phase = "cut" /\ items # <<>>
    /\ parts' = Append(parts, Head(items)) /\ items' = Tail(items)
    /\ UNCHANGED <<doc, phase, parsing, buffer, building, blocks, sections>>
    /\ UNCHANGED <<pieces, open, packed, fresh, chunks>>

\* A piece that fits, or the rest of one that has been cut.
KeepItem ==
    /\ phase = "cut" /\ items # <<>>
    /\ Fits(Head(items))
    /\ parts' = Append(parts, Head(items)) /\ items' = Tail(items)
    /\ UNCHANGED <<doc, phase, parsing, buffer, building, blocks, sections>>
    /\ UNCHANGED <<pieces, open, packed, fresh, chunks>>

\* _force_split gives up on a text: the headings leave no room at all, or the
\* search finds no prefix.
NoRoom(text) == Tokens(Here, <<>>) >= HardLimit \/ 0 \in SafePrefixes(text)

\* One turn of the loop of _force_split; _preferred_boundary may choose any
\* place up to the prefix that was found.
CutItem ==
    /\ phase = "cut" /\ items # <<>>
    /\ Tokens(Here, <<>>) < HardLimit
    /\ LET text == Head(items)
       IN  /\ ~Fits(text)
           /\ \E s \in SafePrefixes(text) : \E n \in 1 .. s :
                 /\ parts' = Append(parts, SubSeq(text, 1, n))
                 /\ items' = <<SubSeq(text, n + 1, Len(text))>> \o Tail(items)
    /\ UNCHANGED <<doc, phase, parsing, buffer, building, blocks, sections>>
    /\ UNCHANGED <<pieces, open, packed, fresh, chunks>>

EndCut ==
    /\ phase = "cut" /\ items = <<>>
    /\ phase' = "split"
    /\ UNCHANGED <<doc, parsing, buffer, building, blocks, sections, splitting, packing, chunks>>

EndSplit ==
    /\ phase = "split" /\ blocks = <<>>
    /\ phase' = "pack"
    /\ UNCHANGED <<doc, parsing, buffer, building, blocks, sections, splitting, packing, chunks>>

\* Mutant of MadeFrom: the order starts again in every section.
MadeInSection(texts, k) ==
    [path |-> Here, parts |-> texts, order |-> Len(fresh) + k,
     previous |-> NoLink, next |-> NoLink]

\* _make_chunk, for the chunk after k others of this turn.
MadeFrom(texts, k) ==
    [path |-> Here, parts |-> texts, order |-> Len(chunks) + Len(fresh) + k,
     previous |-> NoLink, next |-> NoLink]

\* Mutant of Pack: the part that did not fit is lost with the flush.
PackLossy ==
    /\ phase = "pack" /\ parts # <<>>
    /\ parts' = Tail(parts)
    /\ LET part  == Head(parts)
           now   == IF Overflows(packed, part) THEN <<>> ELSE Append(packed, part)
           ended == IF Overflows(packed, part) THEN <<MadeFrom(packed, 0)>> ELSE <<>>
       IN  \/ /\ Full(Join(now)) /\ Fits(Join(now))
              /\ fresh' = fresh \o ended \o <<MadeFrom(now, Len(ended))>>
              /\ packed' = <<>>
           \/ /\ ~Full(Join(now))
              /\ fresh' = fresh \o ended /\ packed' = now
    /\ UNCHANGED <<doc, phase, parsing, buffer, building, blocks, sections, splitting, chunks>>

\* One turn of the loop over the parts.
Pack ==
    /\ phase = "pack" /\ parts # <<>>
    /\ parts' = Tail(parts)
    /\ LET part  == Head(parts)
           now   == IF Overflows(packed, part) THEN <<part>> ELSE Append(packed, part)
           ended == IF Overflows(packed, part) THEN <<MadeFrom(packed, 0)>> ELSE <<>>
       IN  \/ /\ Full(Join(now)) /\ Fits(Join(now))
              /\ fresh' = fresh \o ended \o <<MadeFrom(now, Len(ended))>>
              /\ packed' = <<>>
           \/ /\ ~Full(Join(now))
              /\ fresh' = fresh \o ended /\ packed' = now
    /\ UNCHANGED <<doc, phase, parsing, buffer, building, blocks, sections, splitting, chunks>>

EndSection ==
    /\ phase = "pack" /\ parts = <<>>
    /\ chunks' = chunks \o fresh \o (IF packed = <<>> THEN <<>> ELSE <<MadeFrom(packed, 0)>>)
    /\ packed' = <<>> /\ fresh' = <<>>
    /\ sections' = Tail(sections)
    /\ phase' = "section"
    /\ UNCHANGED <<doc, parsing, buffer, building, blocks, splitting, parts>>

\* A chunk of this part alone is above the hard limit, and _make_chunk raises.
TooLarge(part) == ~Fits(part) /\ (packed = <<>> \/ Overflows(packed, part))

\* Mutant of Refuse: _force_split does not look for room first.
RefuseLate ==
    /\ phase = "pack" /\ parts # <<>> /\ TooLarge(Head(parts))
    /\ phase' = "refused"
    /\ UNCHANGED <<doc, parsing, buffer, building, blocks, sections, splitting, packing, chunks>>

\* ValueError of _force_split, _largest_safe_prefix or _make_chunk.
Refuse ==
    /\ \/ phase = "cut" /\ items # <<>> /\ ~Fits(Head(items)) /\ NoRoom(Head(items))
       \/ phase = "pack" /\ parts # <<>> /\ TooLarge(Head(parts))
    /\ phase' = "refused"
    /\ UNCHANGED <<doc, parsing, buffer, building, blocks, sections, splitting, packing, chunks>>

\* Mutant of Siblings: chunks of other sections count too.
SiblingsAll(i) == DOMAIN chunks \ {i}

\* The chunks in the same list of by_section as the i-th one.
Siblings(i) == {j \in DOMAIN chunks \ {i} : chunks[j].path = chunks[i].path}

\* _link_neighbors
Link ==
    /\ phase = "section" /\ sections = <<>>
    /\ phase' = "done"
    /\ chunks' = [i \in DOMAIN chunks |->
          LET before == {j \in Siblings(i) : j < i}
              after  == {j \in Siblings(i) : j > i}
          IN  [chunks[i] EXCEPT
                  !.previous = IF before = {} THEN NoLink ELSE chunks[Max(before)].order,
                  !.next     = IF after = {} THEN NoLink ELSE chunks[Min(after)].order]]
    /\ UNCHANGED <<doc, parsing, buffer, building, blocks, sections, splitting, packing>>

Next ==
    \/ ReadLine \/ ReadHeading \/ Flush \/ EndRead
    \/ BuildLine \/ EndBuild
    \/ StartSection \/ SplitBlock \/ EndSplit
    \/ GroupPiece \/ EndGroup \/ KeepItem \/ CutItem \/ EndCut
    \/ Pack \/ EndSection \/ Refuse
    \/ Link

Spec == Init /\ [][Next]_vars

\* chunk_markdown runs until it returns or raises.
FairSpec == Spec /\ WF_vars(Next)

-----------------------------------------------------------------------------

LineOf == DOMAIN doc
Texts == Seq(LineOf \X (Nat \ {0}))
Block == [lines : Seq(LineOf) \ {<<>>}, kind : {"code", "prose", "list"}]
Chunk == [path : Seq(LineOf), parts : Seq(Texts) \ {<<>>}, order : Nat,
          previous : Nat \cup {NoLink}, next : Nat \cup {NoLink}]

\* The shape of the state; every section kept has a block, every chunk a part.
TypeOK ==
    /\ doc \in Documents
    /\ phase \in Phases
    /\ line \in 1 .. Len(doc) + 1
    /\ fence \in 0 .. Len(doc) /\ inner \in 0 .. Len(doc)
    /\ path \in Seq(LineOf) /\ buffer \in Seq(LineOf) /\ current \in Seq(LineOf)
    /\ blocks \in Seq(Block)
    /\ sections \in Seq([path : Seq(LineOf), blocks : Seq(Block) \ {<<>>}])
    /\ pieces \in Seq(Texts) /\ open \in Seq(Texts) /\ items \in Seq(Texts)
    /\ parts \in Seq(Texts) /\ packed \in Seq(Texts)
    /\ fresh \in Seq(Chunk) /\ chunks \in Seq(Chunk)

\* Line l is fenced: it follows a line that opens a fence, and no line in
\* between closes it.  The closing line itself is fenced.
Fenced[l \in LineOf] ==
    \E o \in 1 .. l - 1 :
        /\ Is(o, "fence") /\ ~Fenced[o]
        /\ \A c \in o + 1 .. l - 1 : ~Closes(c, o)

Title(l) == Is(l, "heading") /\ ~Fenced[l]

\* The headings that line l is under: those before it with no heading of the
\* same or a higher rank in between.
Enclosing(l) ==
    Among(l - 1, {h \in 1 .. l - 1 :
        /\ Title(h)
        /\ \A g \in h + 1 .. l - 1 : Title(g) => doc[g].level > doc[h].level})

\* A paragraph ends before and after l.
Alone(l) ==
    /\ l = 1 \/ Is(l - 1, "blank") \/ Title(l - 1) \/ Fenced[l - 1]
    /\ l = Len(doc) \/ Is(l + 1, "blank") \/ Title(l + 1) \/ Is(l + 1, "fence")

Contents(l) == ~Title(l) /\ (Fenced[l] \/ ~Is(l, "toc") \/ ~Alone(l))

\* The chunks are the text of the document, all of it in its order, without
\* the headings and the table-of-contents markers.  This relates the fences of
\* _parse_sections to those of _build_blocks and both to the document.
TextKept ==
    phase = "done" =>
        FlattenSeq([i \in DOMAIN chunks |-> Join(chunks[i].parts)])
            = Text(Among(Len(doc), {l \in LineOf : Contents(l)}))

\* Every chunk has the headings its lines are under, outermost first, though
\* the stack was built before and hash signs in code look like headings.
HeadingsRight ==
    \A i \in DOMAIN chunks : \A p \in DOMAIN chunks[i].parts :
        \A u \in DOMAIN chunks[i].parts[p] :
            chunks[i].path = Enclosing(chunks[i].parts[p][u][1])

\* A chunk is never too large, and none is cut short: what follows it in its
\* section would not have fitted, or it had reached the soft limit.
WellFilled ==
    \A i \in DOMAIN chunks :
        LET c == chunks[i]
        IN  /\ Tokens(c.path, Join(c.parts)) <= HardLimit
            /\ i < Len(chunks) /\ chunks[i + 1].path = c.path =>
                  \/ Tokens(c.path, Join(c.parts)) >= SoftLimit
                  \/ Tokens(c.path, Join(Append(c.parts, chunks[i + 1].parts[1]))) > HardLimit

\* No chunk without text is made, which the service would refuse to read
\* (from_point), unless a heading path alone reaches the soft limit.
NoEmptyChunk ==
    \A i \in DOMAIN chunks :
        Tokens(chunks[i].path, <<>>) < SoftLimit => Join(chunks[i].parts) # <<>>

\* The orders of a document are 0, 1, ... across its sections, as the docstring
\* of _chunk_section has it and as the service requires of an index
\* (_build_document_chunk_orders).  The docstring of _make_chunk says otherwise
\* ("section 内顺序", the order within the section); the code does not do that.
OrdersContinuous == \A i \in DOMAIN chunks : chunks[i].order = i - 1

\* previous_chunk_id and next_chunk_id are the neighbours within the section,
\* found through the dictionary of sections.
LinksRight ==
    phase = "done" => \A i, j \in DOMAIN chunks :
        LET follows == j = i + 1 /\ chunks[i].path = chunks[j].path
        IN  /\ chunks[i].next = chunks[j].order <=> follows
            /\ chunks[j].previous = chunks[i].order <=> follows

\* Some text under these headings fits, but its beginning is too large.
Shrinks(headings) ==
    LET all == Text(Among(Len(doc), {l \in LineOf : Contents(l)}))
    IN  \E i, n, m \in DOMAIN all :
            /\ i <= n /\ n < m
            /\ \A k \in i .. m : Enclosing(all[k][1]) = headings
            /\ Tokens(headings, SubSeq(all, i, n)) > HardLimit
            /\ Tokens(headings, SubSeq(all, i, m)) <= HardLimit

\* The hard limit is kept by splitting: a document is refused only when one of
\* its lines cannot be split, for its headings take up all the room or leave
\* less than one of its units needs, or when the tokenizer makes more tokens of
\* the beginning of a text than of the text (_make_chunk then raises for a
\* piece that _preferred_boundary cut short).
RefusedForRoom ==
    phase = "refused" => \E l \in LineOf :
        /\ Contents(l)
        /\ \/ Tokens(Enclosing(l), <<>>) >= HardLimit
           \/ \E u \in 1 .. doc[l].size : Tokens(Enclosing(l), <<<<l, u>>>>) > HardLimit
           \/ Shrinks(Enclosing(l))

\* chunk_markdown ends, _force_split included, whatever boundaries it finds.
ChunkingEnds == <>(phase \in {"done", "refused"})
=============================================================================
