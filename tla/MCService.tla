------------------------------ MODULE MCService ------------------------------
(* A small instance of Service for TLC.                                    *)
EXTENDS Service

CONSTANTS a1, a2, c0, c1, c2, t1, t2, x1, close, reopen

TwoTabs == {a1, a2}
\* Two users with one thing to say each.
Typed(t) == IF t = a1 THEN {c1} ELSE {c2}
OneChannel == {"telegram"}
TwoThreads == {t1, t2}
\* A reply and the two commands.
ThreeTexts == {x1, close, reopen}
Written(t) == {x1, IF t = t1 THEN close ELSE reopen}
Close == {close}
Reopen == {reopen}
OneSection == {"prices"}
\* A label of the administrators' own, and one that is a button already.
TwoLabels == {"trial", "handoff"}
AllParts == {"content", "menu", "inbox", "control", "operations", "api"}
=============================================================================
