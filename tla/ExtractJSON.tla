---------------------------- MODULE ExtractJSON ----------------------------
(***************************************************************************)
(* ExtractJSON (internal/common/utils.go): how the planner and the         *)
(* executor find the JSON object in what an agent answered.                *)
(*                                                                         *)
(* A text is a sequence of the tokens the function and its callers tell    *)
(* apart: a backtick, a brace, the end of a line, the word json, and any   *)
(* other text. Braces within JSON strings are left out, fences within them *)
(* are not.                                                                *)
(***************************************************************************)
EXTENDS Naturals, Sequences, FiniteSets, SequencesExt

Tokens == {"tick", "open", "close", "newline", "json", "other"}
Ticks(n) == [i \in 1..n |-> "tick"]

Braces(text, b) == {i \in DOMAIN text : text[i] = b}

\* The positions at which a fence of three backticks starts.
Fences(text) == {i \in DOMAIN text :
                    i + 2 <= Len(text) /\ \A k \in i .. i + 2 : text[k] = "tick"}

\* The first line, if another one follows it.
Header(content) == SubSeq(content, 1, SelectInSeq(content, LAMBDA t : t = "newline") - 1)

\* The first line is dropped when it names the language.
WithoutHeader(content) ==
    IF "json" \in ToSet(Header(content))
    THEN SubSeq(content, Len(Header(content)) + 2, Len(content))
    ELSE content

\* The outermost fences, when there are two, and what is outside them are
\* stripped.
Stripped(text) ==
    LET fences == Fences(text) IN
    IF Cardinality(fences) < 2 THEN text
    ELSE WithoutHeader(SubSeq(text, Min(fences) + 3, Max(fences) - 1))

\* Fences that overlap: the bounds of the slice between them cross.
SlicePanics(text) ==
    LET fences == Fences(text) IN fences # {} /\ Max(fences) \in Min(fences) + 1 .. Min(fences) + 2

\* Variant: the object is taken to end at the first closing brace.
ObjectToFirstClose(text) ==
    LET opens == Braces(text, "open") closes == Braces(text, "close") IN
    IF opens = {} \/ closes = {} \/ Min(opens) > Min(closes) THEN <<>>
    ELSE SubSeq(text, Min(opens), Min(closes))

\* From the first opening brace to the last closing one; nothing otherwise.
Object(text) ==
    LET opens == Braces(text, "open") closes == Braces(text, "close") IN
    IF opens = {} \/ closes = {} \/ Min(opens) > Max(closes) THEN <<>>
    ELSE SubSeq(text, Min(opens), Max(closes))

\* What ExtractJSON returns; <<>> is its error.
Extract(text) == Object(Stripped(text))

-----------------------------------------------------------------------------
\* One whole JSON object: its braces match, and not before its end.
IsObject(text) ==
    /\ text # <<>> /\ text[1] = "open"
    /\ \A n \in DOMAIN text :
         Cardinality(Braces(SubSeq(text, 1, n), "open")) = Cardinality(Braces(SubSeq(text, 1, n), "close"))
            <=> n = Len(text)

\* The first object of a text, by the positions of its first and last brace.
FirstObject(text) ==
    {span \in (DOMAIN text) \X (DOMAIN text) :
        /\ \A k \in 1 .. span[1] - 1 : text[k] # "open"
        /\ IsObject(SubSeq(text, span[1], span[2]))}

\* A reply whose object can be told from what is around it: prose without
\* braces, and either fewer than two fences in all of the reply, the object's
\* strings included, or a fence around the object whose first line is the
\* header's.
\* The prompts ask for the object alone (planner.md:170-174), which is proper
\* unless its own strings contain two fences.
Proper(text) == \E span \in FirstObject(text) :
    LET before == SubSeq(text, 1, span[1] - 1)
        after == SubSeq(text, span[2] + 1, Len(text))
    IN  /\ Braces(after, "open") = {} /\ Braces(before \o after, "close") = {}
        /\ \/ Cardinality(Fences(text)) < 2
           \/ /\ \E header \in {<<"newline">>, <<"json", "newline">>, <<"other", "newline">>} :
                   IsSuffix(Ticks(3) \o header, before)
              /\ \E margin \in {<<>>, <<"newline">>} : IsPrefix(margin \o Ticks(3), after)
============================================================================
