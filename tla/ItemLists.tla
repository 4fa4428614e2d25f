----------------------------- MODULE ItemLists ------------------------------
(***************************************************************************)
(* What cJSON promises of its items: a container has a sequence of items,  *)
(* each in one place, and a call of the library changes one sequence as    *)
(* its name says.                                                          *)
(***************************************************************************)
EXTENDS Naturals, SequencesExt

VARIABLE kids       \* kids[n]: the items in item n, for each item there is

Items == DOMAIN kids
Placed == UNION {Range(kids[n]) : n \in Items}

(* n and all below it *)
RECURSIVE Tree(_, _)
Tree(k, n) == {n} \cup UNION {Tree(k, c) : c \in Range(k[n])}

Init == kids = [n \in {} |-> <<>>]

(* The sequence of a becomes s; items of new there are that were not, and  *)
(* those of gone are not any more.                                         *)
Becomes(a, s, new, gone) ==
    /\ DOMAIN kids' = (Items \cup new) \ gone
    /\ \A n \in Items \ (gone \cup {a}) : kids'[n] = kids[n]
    /\ a \notin gone /\ kids'[a] = s

New == DOMAIN kids' \ Items

(* Items made, parsed or duplicated *)
Make ==
    /\ Items \subseteq DOMAIN kids'
    /\ \A n \in Items : kids'[n] = kids[n]

(* An item that was in no container, or a new one, is put at i. (Next      *)
(* offers items that are Placed nowhere.)                                  *)
Insert(a, i, item) == Becomes(a, InsertAt(kids[a], i, item), New, {})
Detach(a, i) == Becomes(a, RemoveAt(kids[a], i), {}, {})
Cut(a, i) == Becomes(a, RemoveAt(kids[a], i), {}, Tree(kids, kids[a][i]))
Replace(a, i, item) ==
    Becomes(a, ReplaceAt(kids[a], i, item), {}, Tree(kids, kids[a][i]))
Delete(n) == kids' = [x \in Items \ Tree(kids, n) |-> kids[x]]

Next ==
    \/ Make
    \/ \E a \in Items :
          \/ \E item \in DOMAIN kids' \ Placed, i \in 1 .. Len(kids[a]) + 1 : Insert(a, i, item)
          \/ \E i \in DOMAIN kids[a] :
                Detach(a, i) \/ Cut(a, i) \/ \E item \in Items \ Placed : Replace(a, i, item)
    \/ \E n \in Items \ Placed : Delete(n)

Spec == Init /\ [][Next]_kids
=============================================================================
