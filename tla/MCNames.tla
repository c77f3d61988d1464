------------------------------- MODULE MCNames -------------------------------
(***************************************************************************)
(* Texts for TLC: all words of up to two characters of every kind, and     *)
(* some with a hyphen inside.                                              *)
(***************************************************************************)
EXTENDS ResourceNames

SomeLetters == {"t", "g", "d", "e", "f", "a", "u", "l", "k", "s", "b"}
SomeDigits == {"0", "8"}
SmallOf == [c \in {"A"} |-> "a"]

Words(chars) == {<<>>} \cup {<<c>> : c \in chars} \cup {<<c, d>> : c, d \in chars}

AnyWord == Words({"a", "b", "A", "-", "."}) \cup {<<"b", "-", "a">>}
SomeNamespaces ==
    {Default} \cup Words({"a", "b"}) \cup
    {<<"A">>, <<"8">>, <<"-", "a">>, <<"a", "-">>, <<".">>, <<"a", "-", "b">>}
=============================================================================
