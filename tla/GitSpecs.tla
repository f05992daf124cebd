------------------------------- MODULE GitSpecs ------------------------------
(***************************************************************************)
(* The path values of the diff and raw endpoints: how parseGitDiffSpec and *)
(* parseGitRawSpec take them apart, and which ones are well formed.        *)
(*                                                                         *)
(* A text is what strings.TrimSpace leaves, over four kinds of characters; *)
(* the ".diff" at its end is kept apart, since no revision contains it.    *)
(***************************************************************************)
EXTENDS Naturals, Sequences

CONSTANTS
  MinID, MaxID, \* minGitObjectIDLength and maxGitObjectIDLength
  MaxText       \* bound: length of a text

ASSUME SpecsAssumption ==
  MinID \in Nat \ {0} /\ MaxID \in Nat /\ MinID <= MaxID /\ MaxText \in Nat

\* A lowercase hex digit, a dot, a slash, any other character.
Chars == {"h", ".", "/", "x"}
Texts == UNION {[1..n -> Chars] : n \in 0..MaxText}

\* The {spec} of a show or compare URL, of a raw URL.
DiffSpecs == [text : Texts, diff : BOOLEAN]
RawSpecs  == [text : Texts, diff : {FALSE}]

Two   == <<".", ".">>
Three == <<".", ".", ".">>
Slash == <<"/">>

isGitObjectID(s) ==
  Len(s) \in MinID..MaxID /\ \A i \in 1..Len(s) : s[i] = "h"

-----------------------------------------------------------------------------
(***************************************************************************)
(* strings.Contains, Cut and Split.                                        *)
(***************************************************************************)

\* Where sep occurs in s.
Occurs(s, sep) ==
  {i \in 1..Len(s) : /\ i + Len(sep) - 1 <= Len(s)
                      /\ SubSeq(s, i, i + Len(sep) - 1) = sep}

Contains(s, sep) == Occurs(s, sep) # {}

\* The parts of s before and after the first sep.
First(s, sep)  == CHOOSE i \in Occurs(s, sep) : \A j \in Occurs(s, sep) : i <= j
Before(s, sep) == SubSeq(s, 1, First(s, sep) - 1)
After(s, sep)  == SubSeq(s, First(s, sep) + Len(sep), Len(s))

\* The parts of s between slashes.
Segments(s) ==
  LET Ends == {0, Len(s) + 1} \cup Occurs(s, Slash) IN
  {SubSeq(s, e[1] + 1, e[2] - 1) : e \in
     {p \in Ends \X Ends : p[1] < p[2] /\ \A k \in Ends : k <= p[1] \/ p[2] <= k}}

-----------------------------------------------------------------------------
(***************************************************************************)
(* The parsers.  A target is the command to run, or "bad".                 *)
(***************************************************************************)

\* Mutant of Separator: the shorter separator is always taken.
SeparatorTwo(s) == Two

\* "..." when it is anywhere in the text.
Separator(s) == IF Contains(s, Three) THEN Three ELSE Two

parseGitDiffSpec(kind, spec) ==
  LET s   == spec.text
      sep == Separator(s)
      ok  == /\ Contains(s, sep)
             /\ isGitObjectID(Before(s, sep)) /\ isGitObjectID(After(s, sep))
  IN IF ~spec.diff THEN "bad"
     ELSE IF kind = "show" THEN IF isGitObjectID(s) THEN "show" ELSE "bad"
     ELSE IF ~ok THEN "bad"
     ELSE IF sep = Three THEN "dots3" ELSE "dots2"

parseGitRawSpec(spec) ==
  LET s    == spec.text
      path == After(s, Slash)
      ok   == /\ Contains(s, Slash)
              /\ isGitObjectID(Before(s, Slash))
              /\ path # <<>>
              /\ \A g \in Segments(path) : g \notin {<<>>, <<".">>, Two}
  IN IF ok THEN "raw" ELSE "bad"

-----------------------------------------------------------------------------
(***************************************************************************)
(* What the URLs are documented to be.                                     *)
(***************************************************************************)

IDs == UNION {[1..n -> {"h"}] : n \in MinID..MaxID}

\* {sha}.diff, {base}..{head}.diff, {base}...{head}.diff.
DiffForms(spec) ==
  {k \in {"show", "dots2", "dots3"} :
     /\ spec.diff
     /\ CASE k = "show"  -> spec.text \in IDs
          [] k = "dots2" -> \E a, b \in IDs : spec.text = a \o Two \o b
          [] k = "dots3" -> \E a, b \in IDs : spec.text = a \o Three \o b}

\* {objectID}/{path...} with a path that is clean.
RawForm(spec) ==
  \E n \in MinID..MaxID :
    /\ Len(spec.text) > n + 1
    /\ SubSeq(spec.text, 1, n) \in IDs
    /\ LET p == SubSeq(spec.text, n + 1, Len(spec.text)) \o Slash IN
       /\ p[1] = "/"
       /\ \A bad \in {<<"/", "/">>, <<"/", ".", "/">>, <<"/", ".", ".", "/">>} :
            ~Contains(p, bad)
=============================================================================
