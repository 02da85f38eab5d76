------------------------------- MODULE Config -------------------------------
(***************************************************************************)
(* internal/config and the start of a worker: TASK_TYPES is split at its   *)
(* commas, character by character, and the worker chooses the types it     *)
(* polls.  The characters are the comma and those that have no meaning; a  *)
(* type is a sequence of characters.                                       *)
(***************************************************************************)
EXTENDS Naturals, SequencesExt

CONSTANTS
  Letters,     \* the characters that are not commas
  MaxLen,      \* bound: the length of the variable
  Registries   \* the sets of types with a handler a worker may be built with

\* The most types a worker can have: each takes a character and a comma.
MaxTypes == (MaxLen + 1) \div 2

\* Between two types.
Separator == ","

ASSUME ConfigAssumption ==
  /\ Separator \notin Letters /\ MaxLen \in Nat
  /\ \A r \in Registries : IsFiniteSet(r) /\ Cardinality(r) <= MaxTypes

VARIABLES
  s,           \* the value of TASK_TYPES
  i,           \* the position of the character splitCSV reads next
  cur, out,    \* the field being read, and the fields read
  registry,    \* the handlers of the worker
  pc,          \* "split", "choose", "poll" or "refused"
  types        \* the types the worker polls

configVars == <<s, i, cur, out, registry, pc, types>>

ConfigInit ==
  /\ s \in BoundedSeq(Letters \cup {Separator}, MaxLen)
  /\ i = 1 /\ cur = <<>> /\ out = <<>>
  /\ registry \in Registries
  /\ pc = "split"
  /\ types = <<>>

\* A field is complete if there is anything in it.
Complete == IF cur = <<>> THEN out ELSE Append(out, cur)

Comma ==
  /\ pc = "split" /\ i <= Len(s) /\ s[i] = Separator
  /\ out' = Complete
  /\ cur' = <<>>
  /\ i' = i + 1
  /\ UNCHANGED <<s, registry, pc, types>>

Character ==
  /\ pc = "split" /\ i <= Len(s) /\ s[i] # Separator
  /\ cur' = Append(cur, s[i])
  /\ i' = i + 1
  /\ UNCHANGED <<s, out, registry, pc, types>>

\* Mutant: the field after the last comma is forgotten.
EndNoFlush ==
  /\ pc = "split" /\ i > Len(s)
  /\ pc' = "choose"
  /\ UNCHANGED <<s, i, cur, out, registry, types>>

End ==
  /\ pc = "split" /\ i > Len(s)
  /\ out' = Complete
  /\ pc' = "choose"
  /\ UNCHANGED <<s, i, cur, registry, types>>

\* Run: without configured types those of the registry, in the order its map
\* yields them; without any the worker does not start.  The local variables of
\* the splitting are gone.
Choose ==
  /\ pc = "choose"
  /\ IF out # <<>> THEN types' = out ELSE types' \in SetToSeqs(registry)
  /\ pc' = IF types' = <<>> THEN "refused" ELSE "poll"
  /\ s' = <<>> /\ i' = 1 /\ cur' = <<>> /\ out' = <<>>
  /\ UNCHANGED registry
-----------------------------------------------------------------------------
(* Properties. *)

\* The longest comma-free pieces of a string, by their first and last position.
Pieces(str) ==
  {p \in (1 .. Len(str)) \X (1 .. Len(str)) :
     /\ p[1] <= p[2]
     /\ \A k \in p[1] .. p[2] : str[k] # Separator
     /\ p[1] = 1 \/ str[p[1] - 1] = Separator
     /\ p[2] = Len(str) \/ str[p[2] + 1] = Separator}

\* How many pieces there are up to p, with p.
Rank(str, p) == Cardinality({q \in Pieces(str) : q[1] <= p[1]})

\* The fields of a string: its pieces, from left to right.
Fields(str) ==
  [k \in 1 .. Cardinality(Pieces(str)) |->
     LET p == CHOOSE q \in Pieces(str) : Rank(str, q) = k
     IN SubSeq(str, p[1], p[2])]

\* Splitting yields exactly the fields, in their order, wherever the string
\* has leading, trailing or doubled commas.
SplitIsFields == pc = "choose" => out = Fields(s)
=============================================================================
