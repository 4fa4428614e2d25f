------------------------------- MODULE CJson --------------------------------
(***************************************************************************)
(* cJSON: trees of items in the heap. The items of a container are a list  *)
(* linked by next; prev leads back, and from the first item to the last.   *)
(* An item owns its name (string), unless it is constant, and its text     *)
(* (valuestring), unless the item is a reference, which has the list and   *)
(* the text of another item (text is the owner's address). An allocation   *)
(* may fail.                                                               *)
(*                                                                         *)
(* The client holds the items it made or detached. It calls the library as *)
(* the header asks: it gives away and deletes only what it holds, puts no  *)
(* item below itself, and does not delete what a reference still shows.    *)
(* Numbers, Booleans, null and raw text are as the items of type "string"; *)
(* of a text or a name only whether it is there and equal matters.         *)
(***************************************************************************)
EXTENDS Integers, FiniteSets, SequencesExt

CONSTANTS
    Node,       \* addresses of items: positive numbers
    Key,        \* names
    Fold,       \* Fold[k]: k without regard to case
    Counts,     \* lengths of arrays that are made at once
    Texts,      \* what is parsed: trees, some with a syntax error
    NESTING_LIMIT,
    MaxAllocs,  \* bound on the allocations of a call before one fails
    MaxCalls    \* bound on the calls

NULL == 0
Types == {"string", "array", "object"}

ASSUME CJsonAssumption ==
    /\ Node \subseteq Nat \ {NULL} /\ IsFiniteSet(Node)
    /\ NULL \notin Key /\ DOMAIN Fold = Key
    /\ Counts \subseteq Nat /\ NESTING_LIMIT \in Nat /\ MaxAllocs \in Nat /\ MaxCalls \in Nat

VARIABLES
    heap,       \* the items
    strings,    \* how many strings are allocated
    held,       \* the roots the client holds
    calls

vars == <<heap, strings, held, calls>>

Zero == [type |-> "invalid", ref |-> FALSE, const |-> FALSE, text |-> NULL, key |-> NULL,
         child |-> NULL, next |-> NULL, prev |-> NULL]

Init ==
    /\ heap = [n \in {} |-> Zero]
    /\ strings = 0 /\ held = {} /\ calls = 0

-----------------------------------------------------------------------------
(* Memory: h the items, strs how many strings, left the allocations that   *)
(* succeed. Functions of the library give the memory m they leave and n or *)
(* ok, what they return.                                                   *)

Memory(left) == [h |-> heap, strs |-> strings, left |-> left]
Put(m, n, field, v) == [m EXCEPT !.h[n][field] = v]

(* cJSON_New_Item *)
NewItem(m) ==
    LET free == Node \ DOMAIN m.h
        n    == CHOOSE x \in free : \A y \in free : x <= y
    IN  IF m.left = 0 \/ free = {} THEN [m |-> m, n |-> NULL]
        ELSE [m |-> [m EXCEPT !.left = @ - 1,
                              !.h = [x \in DOMAIN @ \cup {n} |->
                                        IF x = n THEN Zero ELSE m.h[x]]],
              n |-> n]

(* cJSON_strdup *)
StrDup(m) ==
    IF m.left = 0 THEN [m |-> m, ok |-> FALSE]
    ELSE [m |-> [m EXCEPT !.left = @ - 1, !.strs = @ + 1], ok |-> TRUE]

OwnKey(item) == item.key # NULL /\ ~item.const
OwnText(item) == item.text # NULL /\ ~item.ref
Owned(h, N) == Cardinality({n \in N : OwnKey(h[n])}) + Cardinality({n \in N : OwnText(h[n])})

(* The list that starts with n *)
RECURSIVE List(_, _)
List(h, n) == IF n = NULL THEN <<>> ELSE <<n>> \o List(h, h[n].next)
Kids(h, n) == List(h, h[n].child)

(* What cJSON_Delete visits: n, those after it, and all below but for      *)
(* references.                                                             *)
RECURSIVE Visited(_, _)
Visited(h, n) ==
    IF n = NULL THEN {}
    ELSE {n} \cup Visited(h, h[n].next) \cup
         IF h[n].ref THEN {} ELSE Visited(h, h[n].child)

Delete(m, n) ==
    LET gone == Visited(m.h, n)
    IN  [m EXCEPT !.h = [x \in DOMAIN @ \ gone |-> m.h[x]], !.strs = @ - Owned(m.h, gone)]

-----------------------------------------------------------------------------
(* Lists *)

(* suffix_object *)
Suffix(m, prev, item) == Put(Put(m, prev, "next", item), item, "prev", prev)

(* add_item_to_array *)
AddToArray(m, array, item) ==
    LET child == m.h[array].child
    IN  IF item = NULL \/ array = item THEN [m |-> m, ok |-> FALSE]
        ELSE IF child = NULL
        THEN [m |-> Put(Put(Put(m, array, "child", item), item, "prev", item),
                        item, "next", NULL),
              ok |-> TRUE]
        ELSE [m |-> IF m.h[child].prev = NULL THEN m
                    ELSE Put(Suffix(m, m.h[child].prev, item), child, "prev", item),
              ok |-> TRUE]

(* Mutant: the old name is not freed. *)
NamedOver(m, item, key, const) == [m EXCEPT !.h[item].key = key, !.h[item].const = const]

(* The item gets the name, copied or constant; its old name is freed. *)
Named(m, item, key, const) ==
    [m EXCEPT !.strs = @ - IF OwnKey(m.h[item]) THEN 1 ELSE 0,
              !.h[item].key = key, !.h[item].const = const]

(* add_item_to_object *)
AddToObject(m, object, key, item, const) ==
    LET copy == IF const THEN [m |-> m, ok |-> TRUE] ELSE StrDup(m)
    IN  IF item = NULL \/ object = item \/ ~copy.ok THEN [m |-> m, ok |-> FALSE]
        ELSE AddToArray(Named(copy.m, item, key, const), object, item)

(* get_array_item *)
ArrayItem(h, array, i) ==
    IF i \in DOMAIN Kids(h, array) THEN Kids(h, array)[i] ELSE NULL

(* get_object_item: the search goes past an item without a name only if it *)
(* does not regard case.                                                   *)
ObjectItem(h, object, key, sensitive) ==
    LET kids == Kids(h, object)
        Stops(n) == IF sensitive THEN h[n].key \in {NULL, key}
                    ELSE h[n].key # NULL /\ Fold[h[n].key] = Fold[key]
        hits == {i \in DOMAIN kids : Stops(kids[i])}
        first == kids[CHOOSE i \in hits : \A j \in hits : i <= j]
    IN  IF key = NULL \/ hits = {} THEN NULL
        ELSE IF h[first].key = NULL THEN NULL ELSE first

(* Mutant: the first item does not learn of its new last one. *)
DetachLoose(m, parent, item) ==
    LET i  == m.h[item]
        m1 == IF item = m.h[parent].child THEN Put(m, parent, "child", i.next)
              ELSE Put(m, i.prev, "next", i.next)
        m2 == IF i.next = NULL THEN m1 ELSE Put(m1, i.next, "prev", i.prev)
    IN  Put(Put(m2, item, "prev", NULL), item, "next", NULL)

(* cJSON_DetachItemViaPointer *)
DetachItem(m, parent, item) ==
    LET i     == m.h[item]
        first == item = m.h[parent].child
        m1 == IF first THEN m ELSE Put(m, i.prev, "next", i.next)
        m2 == IF i.next = NULL THEN m1 ELSE Put(m1, i.next, "prev", i.prev)
        m3 == IF first THEN Put(m2, parent, "child", i.next)
              ELSE IF i.next = NULL THEN Put(m2, m.h[parent].child, "prev", i.prev)
              ELSE m2
    IN  Put(Put(m3, item, "prev", NULL), item, "next", NULL)

(* cJSON_InsertItemInArray, before an item that there is *)
InsertBefore(m, array, after, item) ==
    LET prev == m.h[after].prev
        m1 == Put(Put(Put(m, item, "next", after), item, "prev", prev), after, "prev", item)
    IN  IF after = m.h[array].child THEN Put(m1, array, "child", item)
        ELSE Put(m1, prev, "next", item)

(* Mutant: the new item is put at the end, not where the old one was. *)
ReplaceAtEnd(m, parent, item, new) ==
    Delete(AddToArray(DetachItem(m, parent, item), parent, new).m, item)

(* cJSON_ReplaceItemViaPointer *)
ReplaceItem(m, parent, item, new) ==
    LET i  == m.h[item]
        m1 == Put(Put(m, new, "next", i.next), new, "prev", i.prev)
        m2 == IF i.next = NULL THEN m1 ELSE Put(m1, i.next, "prev", new)
        m3 == IF m.h[parent].child = item
              THEN Put(IF i.prev = item THEN Put(m2, new, "prev", new) ELSE m2,
                       parent, "child", new)
              ELSE LET m4 == IF i.prev = NULL THEN m2 ELSE Put(m2, i.prev, "next", new)
                   IN  IF i.next = NULL THEN Put(m4, m.h[parent].child, "prev", new) ELSE m4
    IN  Delete(Put(Put(m3, item, "next", NULL), item, "prev", NULL), item)

-----------------------------------------------------------------------------
(* Making items *)

(* cJSON_CreateString and its like *)
Create(m, type) ==
    LET new  == NewItem(m)
        item == Put(new.m, new.n, "type", type)
        copy == StrDup(item)
    IN  IF new.n = NULL THEN new
        ELSE IF type # "string" THEN [m |-> item, n |-> new.n]
        ELSE IF copy.ok THEN [m |-> Put(copy.m, new.n, "text", new.n), n |-> new.n]
        ELSE [m |-> Delete(item, new.n), n |-> NULL]

(* The items of a new container so far end with last, or there is none. *)
Link(m, parent, last, item) ==
    IF last = NULL THEN Put(m, parent, "child", item) ELSE Suffix(m, last, item)
Linked(m, parent, last) ==
    [m |-> IF last = NULL THEN m ELSE Put(m, m.h[parent].child, "prev", last), n |-> parent]

(* cJSON_CreateStringArray and its like, from the array made on *)
RECURSIVE Fill(_, _, _, _)
Fill(m, array, last, count) ==
    LET new == Create(m, "string")
    IN  IF count = 0 THEN Linked(m, array, last)
        ELSE IF new.n = NULL THEN [m |-> Delete(new.m, array), n |-> NULL]
        ELSE Fill(Link(new.m, array, last, new.n), array, new.n, count - 1)

(* create_reference *)
Reference(m, item) ==
    LET new == NewItem(m)
    IN  IF item = NULL \/ new.n = NULL THEN [m |-> m, n |-> NULL]
        ELSE [m |-> [new.m EXCEPT !.h[new.n] =
                        [m.h[item] EXCEPT !.key = NULL, !.ref = TRUE,
                                          !.next = NULL, !.prev = NULL]],
              n |-> new.n]

(***************************************************************************)
(* parse_value, parse_array and parse_object, for a text that is the tree: *)
(* the items found so far are a list from head to last, and each one is in *)
(* it before its name and its value are parsed. An error deletes the list. *)
(***************************************************************************)
RECURSIVE ParseValue(_, _, _, _), ParseItems(_, _, _, _, _, _)

ParseValue(m, item, tree, depth) ==
    LET copy == StrDup(m)
    IN  CASE tree.type = "error" -> [m |-> m, ok |-> FALSE]
          [] tree.type = "string" ->
               IF copy.ok THEN [m |-> Put(Put(copy.m, item, "type", "string"), item, "text", item),
                                ok |-> TRUE]
               ELSE [m |-> m, ok |-> FALSE]
          [] OTHER -> IF depth >= NESTING_LIMIT THEN [m |-> m, ok |-> FALSE]
                      ELSE ParseItems(m, item, tree, 1, <<>>, depth + 1)

(* From the i-th part of the tree on; ends: the first and the last item, if any. *)
ParseItems(m, item, tree, i, ends, depth) ==
    IF i > Len(tree.kids)
    THEN LET head == IF ends = <<>> THEN NULL ELSE ends[1]
             m1 == IF ends = <<>> THEN m ELSE Put(m, ends[1], "prev", ends[2])
         IN  [m |-> Put(Put(m1, item, "type", tree.type), item, "child", head), ok |-> TRUE]
    ELSE LET new   == NewItem(m)
             m1    == IF ends = <<>> THEN new.m ELSE Suffix(new.m, ends[2], new.n)
             head  == IF ends = <<>> THEN new.n ELSE ends[1]
             name  == IF tree.type = "array" THEN [m |-> m1, ok |-> TRUE] ELSE StrDup(m1)
             m2    == IF tree.type = "array" THEN m1
                      ELSE Put(name.m, new.n, "key", tree.kids[i].key)
             value == ParseValue(m2, new.n, tree.kids[i], depth)
         IN  IF new.n = NULL
             THEN [m |-> IF ends = <<>> THEN m ELSE Delete(m, ends[1]), ok |-> FALSE]
             ELSE IF ~name.ok THEN [m |-> Delete(m1, head), ok |-> FALSE]
             ELSE IF ~value.ok THEN [m |-> Delete(value.m, head), ok |-> FALSE]
             ELSE ParseItems(value.m, item, tree, i + 1, <<head, new.n>>, depth)

(* cJSON_ParseWithLengthOpts *)
Parse(m, tree) ==
    LET new   == NewItem(m)
        value == ParseValue(new.m, new.n, tree, 0)
    IN  IF new.n = NULL THEN new
        ELSE IF value.ok THEN [m |-> value.m, n |-> new.n]
        ELSE [m |-> Delete(value.m, new.n), n |-> NULL]

(***************************************************************************)
(* cJSON_Duplicate: a reference's list and text become the copy's own. The *)
(* items copied so far hang on the copy, so that an error deletes them.    *)
(***************************************************************************)
RECURSIVE Duplicate(_, _, _), DuplicateKids(_, _, _, _)

Duplicate(m, n, recurse) ==
    LET item == m.h[n]
        new  == NewItem(m)
        bare == [new.m EXCEPT !.h[new.n] = [Zero EXCEPT !.type = item.type, !.const = item.const]]
        text == IF item.text # NULL THEN StrDup(bare) ELSE [m |-> bare, ok |-> TRUE]
        m1   == Put(text.m, new.n, "text", IF item.text = NULL THEN NULL ELSE new.n)
        name == IF OwnKey(item) THEN StrDup(m1) ELSE [m |-> m1, ok |-> TRUE]
        m2   == Put(name.m, new.n, "key", item.key)
    IN  IF new.n = NULL THEN new
        ELSE IF ~text.ok THEN [m |-> Delete(bare, new.n), n |-> NULL]
        ELSE IF ~name.ok THEN [m |-> Delete(m1, new.n), n |-> NULL]
        ELSE IF recurse THEN DuplicateKids(m2, new.n, item.child, NULL)
        ELSE [m |-> m2, n |-> new.n]

DuplicateKids(m, copy, child, last) ==
    LET new == Duplicate(m, child, TRUE)
    IN  IF child = NULL THEN Linked(m, copy, last)
        ELSE IF new.n = NULL THEN [m |-> Delete(new.m, copy), n |-> NULL]
        ELSE DuplicateKids(Link(new.m, copy, last, new.n), copy, m.h[child].next, new.n)

(***************************************************************************)
(* cJSON_Compare: names are looked up from both sides.                     *)
(***************************************************************************)
RECURSIVE Compare(_, _, _, _)

(* Mutant: the names of an object are looked up from one side. *)
CompareSubset(h, a, b, sensitive) ==
    LET as == Kids(h, a)
        bs == Kids(h, b)
    IN  /\ h[a].type = h[b].type
        /\ \/ h[a].type = "string"
           \/ h[a].type = "array" /\ Len(as) = Len(bs)
                /\ \A j \in DOMAIN as : Compare(h, as[j], bs[j], sensitive)
           \/ h[a].type = "object" /\ \A j \in DOMAIN as :
                LET other == ObjectItem(h, b, h[as[j]].key, sensitive)
                IN  other # NULL /\ Compare(h, as[j], other, sensitive)

Compare(h, a, b, sensitive) ==
    LET as == Kids(h, a)
        bs == Kids(h, b)
        Found(ns, in) ==
            \A j \in DOMAIN ns :
                LET other == ObjectItem(h, in, h[ns[j]].key, sensitive)
                IN  other # NULL /\ Compare(h, ns[j], other, sensitive)
    IN  /\ h[a].type = h[b].type
        /\ \/ a = b
           \/ h[a].type = "string"
           \/ h[a].type = "array" /\ Len(as) = Len(bs)
                /\ \A j \in DOMAIN as : Compare(h, as[j], bs[j], sensitive)
           \/ h[a].type = "object" /\ Found(as, b) /\ Found(bs, a)

-----------------------------------------------------------------------------
(* The client *)

Live == DOMAIN heap
Refs == {r \in Live : heap[r].ref}
Containers == {n \in Live \ Refs : heap[n].type # "string"}

(* An item and all that is deleted with it *)
Below(n) == {n} \cup IF heap[n].ref THEN {} ELSE Visited(heap, heap[n].child)

(* All that is seen from n on, through references too *)
RECURSIVE Seen(_)
Seen(n) == IF n = NULL THEN {} ELSE {n} \cup Seen(heap[n].next) \cup Seen(heap[n].child)

(* Put into a, item leads to no circle. *)
Fits(a, item) ==
    \/ a = item \/ item = NULL
    \/ /\ ({a} \cup Range(Kids(heap, a))) \cap Seen(item) = {}
       /\ item \notin Seen(a)

(* A reference shows the list from item on: item stays where it is. *)
Shown(item) == \E r \in Refs : heap[r].child = item
(* Nothing outside of it refers to what is below n. *)
Deletable(n) ==
    \A r \in Refs \ Below(n) : {heap[r].child, heap[r].text} \cap Below(n) = {}

Allocs == 0 .. MaxAllocs
Call == calls < MaxCalls /\ calls' = calls + 1
Leaves(m, roots) == heap' = m.h /\ strings' = m.strs /\ held' = roots

(* cJSON_Create..., cJSON_Parse, cJSON_Duplicate: what is made, if it is,  *)
(* the client holds.                                                       *)
Holds(made) == Leaves(made.m, IF made.n = NULL THEN held ELSE held \cup {made.n})

CallCreate(type, left) == Call /\ Holds(Create(Memory(left), type))
CallCreateArray(count, left) ==
    LET array == Create(Memory(left), "array")
    IN  Call /\ Holds(IF array.n = NULL THEN array ELSE Fill(array.m, array.n, NULL, count))
CallParse(tree, left) == Call /\ Holds(Parse(Memory(left), tree))
CallDuplicate(n, recurse, left) == Call /\ Holds(Duplicate(Memory(left), n, recurse))

(* cJSON_CreateArrayReference, cJSON_CreateObjectReference *)
CallCreateReference(type, child, left) ==
    LET new == NewItem(Memory(left))
    IN  /\ Call
        /\ Holds(IF new.n = NULL THEN new
                 ELSE [m |-> [new.m EXCEPT !.h[new.n] = [Zero EXCEPT !.type = type, !.ref = TRUE,
                                                                     !.child = child]],
                       n |-> new.n])

(* What was held is given to a container, if the library takes it. *)
Gives(item, r) == Leaves(r.m, IF r.ok THEN held \ {item} ELSE held)

(* An item of the client's, or NULL, which a call that failed returned *)
Offered == held \cup {NULL}

CallAddToArray(array, item) ==
    /\ Call /\ Fits(array, item)
    /\ Gives(item, AddToArray(Memory(0), array, item))
CallAddToObject(object, key, item, const, left) ==
    /\ Call /\ Fits(object, item)
    /\ Gives(item, AddToObject(Memory(left), object, key, item, const))

(* cJSON_AddItemReferenceToArray, cJSON_AddItemReferenceToObject (with a   *)
(* key): nothing deletes a reference that the object does not take.        *)
CallAddReference(a, key, item, left) ==
    LET new == Reference(Memory(left), item)
    IN  /\ Call /\ ({a} \cup Range(Kids(heap, a))) \cap Seen(heap[item].child) = {}
        /\ Leaves((IF key = NULL THEN AddToArray(new.m, a, new.n)
                   ELSE AddToObject(new.m, a, key, new.n, FALSE)).m, held)

(* cJSON_AddNullToObject and its like *)
CallAddNew(object, key, type, left) ==
    LET new   == Create(Memory(left), type)
        added == AddToObject(new.m, object, key, new.n, FALSE)
    IN  /\ Call
        /\ Leaves(IF added.ok THEN added.m ELSE Delete(added.m, new.n), held)

(* cJSON_DetachItemFrom... and cJSON_DeleteItemFrom... *)
CallDetach(parent, item) ==
    /\ Call /\ item # NULL /\ ~Shown(item)
    /\ Leaves(DetachItem(Memory(0), parent, item), held \cup {item})
CallRemove(parent, item) ==
    /\ Call /\ item # NULL /\ Deletable(item)
    /\ Leaves(Delete(DetachItem(Memory(0), parent, item), item), held)

(* cJSON_InsertItemInArray: at an index that there is, or else at the end. *)
(* NULL is not looked for before an index that there is.                   *)
CallInsert(array, i, item) ==
    LET after == ArrayItem(heap, array, i)
    IN  /\ Call /\ array # item /\ Fits(array, item)
        /\ IF after = NULL THEN Gives(item, AddToArray(Memory(0), array, item))
           ELSE /\ item # NULL
                /\ Gives(item, [m |-> InsertBefore(Memory(0), array, after, item), ok |-> TRUE])

(* cJSON_ReplaceItemInArray *)
CallReplace(array, i, new) ==
    LET item == ArrayItem(heap, array, i)
    IN  /\ Call /\ array # new /\ Fits(array, new)
        /\ item # NULL /\ Deletable(item)
        /\ Leaves(ReplaceItem(Memory(0), array, item, new), held \ {new})

(* replace_item_in_object: the new item gets the name first, whether the   *)
(* object has an item of that name or not, and whether it could be copied  *)
(* or not.                                                                 *)
CallReplaceInObject(object, key, new, sensitive, left) ==
    LET item  == ObjectItem(heap, object, key, sensitive)
        freed == Named(Memory(left), new, NULL, FALSE)
        copy  == StrDup(freed)
        named == Put(copy.m, new, "key", IF copy.ok THEN key ELSE NULL)
    IN  /\ Call /\ object # new /\ Fits(object, new)
        /\ item # NULL => Deletable(item)
        /\ IF item = NULL THEN Leaves(named, held)
           ELSE Leaves(ReplaceItem(named, object, item, new), held \ {new})

CallDelete(n) == Call /\ Deletable(n) /\ Leaves(Delete(Memory(0), n), held \ {n})

Next ==
    \/ \E left \in Allocs :
          \/ \E type \in Types : CallCreate(type, left)
          \/ \E count \in Counts : CallCreateArray(count, left)
          \/ \E tree \in Texts : CallParse(tree, left)
          \/ \E n \in Live :
                \/ \E recurse \in BOOLEAN : CallDuplicate(n, recurse, left)
                \/ \E type \in Types \ {"string"} : CallCreateReference(type, n, left)
                \/ \E a \in Containers, key \in Key \cup {NULL} :
                      CallAddReference(a, key, n, left)
          \/ \E object \in Containers, key \in Key :
                \/ \E type \in Types : CallAddNew(object, key, type, left)
                \/ \E item \in Offered, const \in BOOLEAN :
                      CallAddToObject(object, key, item, const, left)
                \/ \E new \in held, sensitive \in BOOLEAN :
                      CallReplaceInObject(object, key, new, sensitive, left)
    \/ \E array \in Containers :
          \/ \E item \in Offered : CallAddToArray(array, item)
          \/ \E i \in 1 .. Cardinality(Node) :
                \/ CallDetach(array, ArrayItem(heap, array, i))
                \/ CallRemove(array, ArrayItem(heap, array, i))
                \/ \E item \in Offered : CallInsert(array, i, item)
                \/ \E new \in held : CallReplace(array, i, new)
          \/ \E key \in Key, sensitive \in BOOLEAN :
                \/ CallDetach(array, ObjectItem(heap, array, key, sensitive))
                \/ CallRemove(array, ObjectItem(heap, array, key, sensitive))
    \/ \E n \in held : CallDelete(n)

Spec == Init /\ [][Next]_vars

-----------------------------------------------------------------------------
(* Properties *)

Pointers(n) == {heap[n].child, heap[n].next, heap[n].prev, heap[n].text}

TypeOK ==
    /\ Live \subseteq Node /\ held \subseteq Live
    /\ \A n \in Live : /\ heap[n].type \in Types
                       /\ heap[n].key \in Key \cup {NULL}
                       /\ heap[n].text # NULL => heap[n].type = "string"
                       /\ heap[n].child # NULL => heap[n].type # "string"
    /\ strings \in Nat /\ calls \in 0 .. MaxCalls

(***************************************************************************)
(* However calls follow one another and wherever memory runs out: no       *)
(* pointer dangles; each list leads back as it leads on, and from its      *)
(* first item to its last; every item is in one list or with the client,   *)
(* so that nothing is lost or freed twice. Only a reference that was made  *)
(* for an object, when there was no memory for its name, is lost. Every    *)
(* variable keeps its type.                                                *)
(***************************************************************************)
Forest ==
    /\ TypeOK
    /\ \A n \in Live : Pointers(n) \subseteq Live \cup {NULL}
    /\ \A a \in Live \ Refs : LET kids == Kids(heap, a) IN
          \A i \in DOMAIN kids :
              heap[kids[i]].prev = kids[IF i = 1 THEN Len(kids) ELSE i - 1]
    /\ \A n \in Live :
          LET parents == {a \in Live \ Refs : n \in Range(Kids(heap, a))}
          IN  /\ Cardinality(parents) <= 1
              /\ n \in held => parents = {} /\ heap[n].next = NULL /\ heap[n].prev = NULL
              /\ n \notin held /\ parents = {} => n \in Refs /\ heap[n].key = NULL

(* Each string has one owner: none is lost or freed twice when an item is  *)
(* renamed, moved, copied or deleted, or an allocation fails.              *)
StringsOwned == strings = Owned(heap, Live)

(* What an item stands for, where the names of objects are told apart *)
RECURSIVE Value(_, _), Clear(_, _)
Name(n, sensitive) == IF sensitive THEN heap[n].key ELSE Fold[heap[n].key]
Clear(n, sensitive) ==
    LET kids == Kids(heap, n)
    IN  /\ \A i \in DOMAIN kids : Clear(kids[i], sensitive)
        /\ heap[n].type = "object" =>
              /\ \A i \in DOMAIN kids : heap[kids[i]].key # NULL
              /\ \A i, j \in DOMAIN kids :
                    i # j => Name(kids[i], sensitive) # Name(kids[j], sensitive)
Value(n, sensitive) ==
    LET kids == Kids(heap, n)
        values == [i \in DOMAIN kids |-> Value(kids[i], sensitive)]
    IN  [type |-> heap[n].type,
         in |-> IF heap[n].type = "object"
                THEN {<<Name(kids[i], sensitive), values[i]>> : i \in DOMAIN kids}
                ELSE values]

(***************************************************************************)
(* cJSON_Compare says whether two items stand for the same, though it      *)
(* looks up each name from both sides, as long as the names of an object   *)
(* differ and none is missing. (An object with a name twice, or without a  *)
(* name for want of memory, is not equal to its own duplicate.)            *)
(***************************************************************************)
CompareAgrees ==
    \A a, b \in Live, sensitive \in BOOLEAN :
        Clear(a, sensitive) /\ Clear(b, sensitive) =>
            (Compare(heap, a, b, sensitive) <=> Value(a, sensitive) = Value(b, sensitive))

(* The linked lists are sequences, and each call is what its name says on  *)
(* one of them.                                                            *)
Lists == INSTANCE ItemLists
    WITH kids <- [n \in Live |-> IF heap[n].ref THEN <<>> ELSE Kids(heap, n)]
ListsAreSequences == Lists!Spec
=============================================================================
