----------------------------- MODULE MCPlanner -----------------------------
(***************************************************************************)
(* Planner for TLC: every text of up to four tokens, and texts composed of *)
(* prose (with fences of its own, too), fences with and without a header,  *)
(* and objects that are nested, span lines, mention json or have a fence,  *)
(* two of them or two that overlap in their strings.                       *)
(***************************************************************************)
EXTENDS Planner

Prose == {<<>>, <<"other">>, <<"tick", "json", "tick">>, Ticks(3) \o <<"newline">> \o Ticks(3)}
Opens == {<<>>, Ticks(3)} \cup {Ticks(n) \o header : n \in {3, 4},
            header \in {<<"newline">>, <<"json", "newline">>, <<"other", "newline">>}}
Objects == {<<"open", "close">>, <<"open", "open", "close", "other", "close">>, <<"open", "json", "newline", "close">>,
            <<"open">> \o Ticks(3) \o <<"close">>, <<"open">> \o Ticks(4) \o <<"close">>,
            <<"open">> \o Ticks(3) \o <<"open", "close">> \o Ticks(3) \o <<"close">>}
Closes == {<<>>, Ticks(3), <<"newline">> \o Ticks(3)}

MCTexts == BoundedSeq(Tokens, 4) \cup
    {prose \o open \o obj \o close \o rest :
        prose \in Prose, open \in Opens, obj \in Objects, close \in Closes,
        rest \in Prose \cup {<<"open", "close">>}}
============================================================================
