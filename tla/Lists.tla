-------------------------------- MODULE Lists --------------------------------
(***************************************************************************)
(* What the program does with lists: it filters them and puts them one     *)
(* after the other.                                                        *)
(***************************************************************************)
EXTENDS Integers, SequencesExt

\* The elements of a list that are in a set, in the order of the list.
Among(list, set) ==
  FoldLeft(LAMBDA kept, e : IF e \in set THEN Append(kept, e) ELSE kept, <<>>, list)

\* The lists of a list, one after the other.
Joined(lists) == FoldLeft(LAMBDA all, list : all \o list, <<>>, lists)
=============================================================================
