------------------------------ MODULE Chunker -------------------------------
(* retrieval/chunker.py.  A paragraph is a word repeated len times, with the   *)
(* level of the heading it starts with (0: none); a text is a sequence of them *)
(* as _split_paragraphs cuts it at blank lines, a chunk's content the sequence *)
(* of its characters, 0 standing for a newline.                                *)
EXTENDS SubSequences, SequencesExt, FiniteSetsExt

CONSTANTS Texts,          \* the documents
          max_tokens, overlap_tokens, min_tokens,
          CharsPerToken   \* _CHARS_PER_TOKEN, smaller than the code's 4

VARIABLES text, chunks, stored, novel

chunkVars == <<text, chunks, stored, novel>>

Whole(p) == [i \in 1 .. p.len |-> p.word]
Strip(s) == LET solid == {i \in DOMAIN s : s[i] # 0}
            IN IF solid = {} THEN <<>> ELSE SubSeq(s, Min(solid), Max(solid))
Joined(s, t) == s \o <<0, 0>> \o t
Tokens(s) == Max({1, Len(s) \div CharsPerToken})

\* _split_paragraphs: the heading path, by the heading words, at each paragraph.
Sections(t) ==
    LET path[k \in 0 .. Len(t)] ==
          IF k = 0 THEN <<>>
          ELSE IF t[k].level = 0 THEN path[k - 1]
          ELSE Append(SubSeq(path[k - 1], 1, Min({t[k].level - 1, Len(path[k - 1])})), t[k].word)
    IN [k \in DOMAIN t |-> [para |-> t[k], section |-> path[k]]]

-----------------------------------------------------------------------------
\* _assemble_chunks.  acc.size counts one character for a separator of two, and
\* none for the one after an overlap.
Flushed(acc) == Append(acc.out, [section |-> acc.section, content |-> acc.parts])
Overlap(s) == SubSeq(s, Max({1, Len(s) - overlap_tokens * CharsPerToken + 1}), Len(s))

NothingYet == [out |-> <<>>, section |-> <<>>, parts |-> <<>>, size |-> 0]
Assemble(acc, p) ==
    LET full == acc.parts # <<>> /\ acc.size + p.para.len + 1 > max_tokens * CharsPerToken
        rest == IF overlap_tokens = 0 THEN <<>> ELSE Overlap(acc.parts)
        parts == IF ~full THEN acc.parts ELSE IF Strip(rest) = <<>> THEN <<>> ELSE rest
    IN [out |-> IF full THEN Flushed(acc) ELSE acc.out,
        section |-> IF full \/ parts = <<>> THEN p.section ELSE acc.section,
        parts |-> IF parts = <<>> THEN Whole(p.para) ELSE Joined(parts, Whole(p.para)),
        size |-> (IF full THEN Len(rest) ELSE acc.size) + p.para.len + 1]
Assembling(paragraphs) ==
    LET acc[k \in 0 .. Len(paragraphs)] ==
          IF k = 0 THEN NothingYet ELSE Assemble(acc[k - 1], paragraphs[k])
    IN acc
Assembled(paragraphs) ==
    LET end == Assembling(paragraphs)[Len(paragraphs)]
    IN IF end.parts = <<>> THEN end.out ELSE Flushed(end)

Merged(prev, s) == [prev EXCEPT !.content = Joined(prev.content, s)]

\* _tag_chunks: a fragment below min_tokens joins the chunk before it; indexes
\* are made contiguous at the end.
Tag(tagged, c) ==
    LET s == Strip(c.content) IN
    CASE s = <<>> -> tagged
      [] s # <<>> /\ Tokens(s) < min_tokens /\ tagged # <<>> ->
             [tagged EXCEPT ![Len(tagged)] = Merged(@, s)]
      [] OTHER -> Append(tagged, [section |-> c.section, content |-> s])
Tagging(raw) ==
    LET tagged[k \in 0 .. Len(raw)] == IF k = 0 THEN <<>> ELSE Tag(tagged[k - 1], raw[k])
    IN tagged
Tagged(raw) ==
    LET kept == Tagging(raw)[Len(raw)]
    IN [i \in DOMAIN kept |-> [index |-> i - 1, section |-> kept[i].section, content |-> kept[i].content]]

\* deduplicated_chunks: content stands for its hash.
Novel(cs, existing) ==
    At(cs, {i \in DOMAIN cs : cs[i].content \notin existing \cup {cs[j].content : j \in 1 .. i - 1}})

-----------------------------------------------------------------------------
Init == text \in Texts /\ chunks = <<>> /\ stored = {} /\ novel = <<>>

chunk == /\ chunks = <<>> /\ text # <<>>
         /\ chunks' = Tagged(Assembled(Sections(text)))
         /\ UNCHANGED <<text, stored, novel>>

\* The chunks of an earlier version of the document are already stored.
deduplicated_chunks == /\ chunks # <<>> /\ novel = <<>> /\ stored = {}
                       /\ stored' \in {{}} \cup {{c.content} : c \in ToSet(chunks)}
                       /\ novel' = Novel(chunks, stored')
                       /\ UNCHANGED <<text, chunks>>

Next == chunk \/ deduplicated_chunks

-----------------------------------------------------------------------------
Within(s, t) == \E i \in 1 .. Len(t) - Len(s) + 1 : SubSeq(t, i, i + Len(s) - 1) = s

\* Chunking loses nothing: every paragraph stands whole in some chunk, overlap,
\* stripping and merging notwithstanding; no chunk is blank, their indexes have
\* no gap, and what deduplication drops is stored or kept once.
NoTextIsLost ==
    /\ chunks # <<>> =>
          \A p \in ToSet(text) : \E c \in ToSet(chunks) : Within(Whole(p), c.content)
    /\ \A i \in DOMAIN chunks : chunks[i].index = i - 1 /\ Strip(chunks[i].content) # <<>>
    /\ novel # <<>> =>
          /\ {c.content : c \in ToSet(chunks)} = {c.content : c \in ToSet(novel)} \cup stored
          /\ \A i, j \in DOMAIN novel : novel[i].content = novel[j].content => i = j
=============================================================================
