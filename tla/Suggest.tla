------------------------------ MODULE Suggest ------------------------------
(***************************************************************************)
(* internal/suggest: which program names are close to what was typed.  A   *)
(* word is a sequence of byte codes.                                       *)
(***************************************************************************)
EXTENDS Naturals, Integers, Sequences, FiniteSets, SequencesExt, FiniteSetsExt

LowerByte(c) == IF c \in 65 .. 90 THEN c + 32 ELSE c

lower(w) == [i \in 1 .. Len(w) |-> LowerByte(w[i])]

(* Go compares strings byte by byte. *)
WordLess(v, w) ==
  \/ IsStrictPrefix(v, w)
  \/ \E i \in 1 .. Len(v) :
       /\ i <= Len(w) /\ v[i] < w[i]
       /\ \A j \in 1 .. i - 1 : v[j] = w[j]

(* The elements of a set in a strict total order, given as its pairs. *)
Ranked(S, less) ==
  [i \in 1 .. Cardinality(S) |->
     CHOOSE e \in S : Cardinality({f \in S : <<f, e>> \in less}) = i - 1]

contains(w, sub) ==
  \E i \in 0 .. Len(w) - Len(sub) : SubSeq(w, i + 1, i + Len(sub)) = sub

(* One row of the table, for the i-th letter c of the word down the side   *)
(* and the word b along the top, from the row above it.                    *)
NextRow(prev, i, c, b) ==
  LET curr[j \in 0 .. Len(b)] ==
        IF j = 0 THEN i
        ELSE Min({curr[j - 1] + 1, prev[j] + 1, prev[j - 1] + (IF c = b[j] THEN 0 ELSE 1)})
  IN curr

Table(v, b) ==
  LET row[i \in 0 .. Len(v)] ==
        IF i = 0 THEN [j \in 0 .. Len(b) |-> j] ELSE NextRow(row[i - 1], i, v[i], b)
  IN row

(* Mutant: the words are read from their second letter. *)
levenshtein_SkipFirst(v, b) == Table(Tail(v), b)[Len(v) - 1][Len(b)]

levenshtein(v, b) == Table(v, b)[Len(v)][Len(b)]

distBudget(t) == Min({Len(t) \div 2 + 1, 3})

(* A prefix counts -2, a substring 1, a typo its edits. *)
Eligible(t, c) ==
  IsPrefix(t, c) \/ contains(c, t) \/ levenshtein(t, c) <= distBudget(t)

Score(t, c) ==
  IF IsPrefix(t, c) THEN -2
  ELSE IF contains(c, t) THEN 1 ELSE levenshtein(t, c)

(* Closest: the candidates (a set, as their order is never a tie-break but *)
(* for equal names) by score, then by name, cut to maxResults.             *)
Closest(typed, candidates, maxResults) ==
  LET t == lower(typed)
      out == {[name |-> c, score |-> Score(t, lower(c))] :
                c \in {d \in candidates : Eligible(t, lower(d))}}
      better(c, d) == c.score < d.score \/ (c.score = d.score /\ WordLess(c.name, d.name))
      ranked == Ranked(out, {p \in out \X out : better(p[1], p[2])})
  IN IF typed = <<>> THEN <<>>
     ELSE [i \in 1 .. Min({maxResults, Len(ranked)}) |-> ranked[i].name]

-----------------------------------------------------------------------------
(* Reference: what is within k single-letter edits of w, over an alphabet. *)

OneEdit(w, alphabet) ==
  {RemoveAt(w, i) : i \in 1 .. Len(w)}
  \cup (UNION {{InsertAt(w, i, c) : i \in 1 .. Len(w) + 1} : c \in alphabet})
  \cup (UNION {{ReplaceAt(w, i, c) : i \in 1 .. Len(w)} : c \in alphabet})

Within(w, k, alphabet) ==
  LET Ball[n \in 0 .. k] ==
        IF n = 0 THEN {w}
        ELSE Ball[n - 1] \cup UNION {OneEdit(v, alphabet) : v \in Ball[n - 1]}
  IN Ball[k]
=============================================================================
