------------------------------ MODULE MCCJson -------------------------------
(* An instance of CJson and CJsonText for TLC: the heap and the text side  *)
(* of the library.                                                         *)
EXTENDS CJson

CONSTANTS a, A      \* the same name but for case
MCKey == {a, A}
MCFold == [k \in Key |-> a]

Leaf(key) == [type |-> "string", key |-> key, kids |-> <<>>]
MCTexts ==
    {[type |-> "object", key |-> NULL, kids |-> <<Leaf(a), Leaf(A)>>],
     [type |-> "array", key |-> NULL,
      kids |-> <<Leaf(NULL), [type |-> "error", key |-> NULL, kids |-> <<>>]>>],
     [type |-> "array", key |-> NULL,
      kids |-> <<[type |-> "array", key |-> NULL, kids |-> <<Leaf(NULL)>>]>>]}

(* What stands between two quotes: a letter, \ and what may follow it, hex *)
(* digits of a control character, a letter and both surrogates             *)
InString == {<<120>>, <<92>>, <<34>>, <<117>>, <<110>>, <<48, 48, 49, 102>>, <<48, 48, 101, 57>>,
             <<92, 117, 68, 56, 48, 49>>, <<92, 117, 100, 99, 48, 50>>}
(* [ ] { } , : blank, a string, 0, -12, true, {"": *)
Tokens == {<<91>>, <<93>>, <<123>>, <<125>>, <<44>>, <<58>>, <<32>>, <<34, 92, 92, 97, 34>>,
           <<48>>, <<45, 49, 50>>, <<116, 114, 117, 101>>, <<123, 34, 34, 58>>}
TextsOf(chunks, n) == {FlattenSeq(s) : s \in SeqOf(chunks, n)}
(* Arrays and objects of two (or with nothing for one), with the names \ and "" *)
Pairs(S, T) ==
    UNION {{<<91>> \o s \o <<44>> \o t \o <<93>>,
            <<123, 34, 92, 92, 34, 58>> \o s \o <<44, 34, 34, 58>> \o t \o <<125>>} :
              s \in S, t \in T}
Inner == {<<91, 93>>, <<123, 125>>, <<34, 92, 34, 34>>, <<34, 32, 92, 92, 34>>, <<48>>, <<>>}
MCDocuments ==
    {<<34>> \o t \o <<34>> : t \in TextsOf(InString, 4)} \cup TextsOf(Tokens, 3) \cup
    Pairs(Pairs(Inner, Inner), Inner)

VARIABLE text
Text == INSTANCE CJsonText
    WITH Documents <- MCDocuments, CJSON_NESTING_LIMIT <- 3, NumberChars <- 3
StringsFit == Text!StringsFit
RoundTrip == Text!RoundTrip
PrintFits == Text!PrintFits

(* Texts are read, and done with, before the first call. *)
MCInit == Init /\ text = <<>>
MCNext ==
    \/ calls = 0 /\ (Text!ReadText \/ text' = <<>>) /\ UNCHANGED vars
    \/ Next /\ text = <<>> /\ UNCHANGED text
MCSpec == MCInit /\ [][MCNext]_<<vars, text>>
=============================================================================
