------------------------------ MODULE PwtList -------------------------------
(***************************************************************************)
(* Which titles ListTask finds for a pattern: WHERE task_title LIKE        *)
(* '%pattern%', and every title for the pattern "*".  Texts are sequences  *)
(* of characters; ListTask is evaluated for one title and one pattern at a *)
(* time.                                                                   *)
(***************************************************************************)
EXTENDS Naturals, SequencesExt

CONSTANTS
    Letter,               \* the characters of titles and patterns
    Percent, Underscore,  \* % and _
    Star,                 \* *
    Upper,                \* the upper case of each letter that has one in ASCII
    MaxTitle, MaxPattern  \* bounds: the lengths of titles and patterns

ASSUME ListAssumption ==
    /\ {Percent, Underscore, Star} \subseteq Letter
    /\ Upper \in [Letter -> Letter]
    /\ MaxTitle \in Nat /\ MaxPattern \in Nat

VARIABLES
    title, pattern,
    bound,          \* what SQLite reads as the pattern
    shown           \* is the title in the list?

vars == <<title, pattern, bound, shown>>

Same(a, b) == Upper[a] = Upper[b]

\* x LIKE p: the text can be cut so that the first j characters of the pattern match
\* its first cut[j]: % takes any part of the text, every other character takes one.
Like(x, p) ==
    \E cut \in [0..Len(p) -> 0..Len(x)] :
        /\ cut[0] = 0 /\ cut[Len(p)] = Len(x)
        /\ \A j \in DOMAIN p :
              IF p[j] = Percent THEN cut[j - 1] <= cut[j]
              ELSE /\ cut[j] = cut[j - 1] + 1
                   /\ p[j] = Underscore \/ Same(p[j], x[cut[j]])

\* Mutant: titles that begin with the pattern.
TmpPattern_Prefix(p) == p \o <<Percent>>

\* The pattern that is bound to the statement.
TmpPattern(p) == <<Percent>> \o p \o <<Percent>>

\* sqlite3_bind_text keeps a pointer to tmpPattern, which is destroyed at the end
\* of its block, before sqlite3_step: SQLite reads what is there by then.
Freed == <<"freed">>

Bound(p) == {TmpPattern(p), Freed}

Init ==
    /\ title \in BoundedSeq(Letter, MaxTitle)
    /\ pattern \in BoundedSeq(Letter, MaxPattern)
    /\ bound = <<>>
    /\ shown = "not yet"

\* ListTask, for this title.
ListTask ==
    /\ shown = "not yet"
    /\ \/ /\ pattern = <<Star>>
          /\ shown' = "yes"
          /\ UNCHANGED bound
       \/ /\ pattern # <<Star>>
          /\ bound' \in Bound(pattern)
          /\ \/ bound' = Freed /\ shown' \in {"yes", "no"}
             \/ /\ bound' # Freed
                /\ shown' = IF Like(title, bound') THEN "yes" ELSE "no"
    /\ UNCHANGED <<title, pattern>>

Listed == shown # "not yet" /\ UNCHANGED vars

Next == ListTask \/ Listed

Spec == Init /\ [][Next]_vars

-----------------------------------------------------------------------------
(* Properties. *)

\* The pattern p, letter by letter, is in x at place i, case aside.
At(p, x, i) ==
    /\ i + Len(p) <= Len(x)
    /\ \A k \in DOMAIN p : Same(p[k], x[i + k])

\* The pattern has no character that LIKE or ListTask reads as something else.
Plain(p) == {Percent, Underscore, Star} \cap ToSet(p) = {}

HasPart(x, p) == \E i \in 0..Len(x) : At(p, x, i)

(* The query that ListTask makes is the right one: what it binds for a plain *)
(* pattern selects the titles that have it as a part, in upper or lower     *)
(* case, and the pattern "*" shows every title, whatever is in memory.      *)
QueryFindsParts ==
    /\ Plain(pattern) => (Like(title, TmpPattern(pattern)) <=> HasPart(title, pattern))
    /\ pattern = <<Star>> /\ shown # "not yet" => shown = "yes"
=============================================================================
