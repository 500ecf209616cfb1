---------------------------- MODULE MCEncoders ----------------------------
(* A small instance of Convert for TLC.  Some events have one field with   *)
(* one value, which is any text of up to two characters.  The others have  *)
(* up to two fields with up to two values, which may be empty, and tags.   *)
(* Decoders make no tags, and their events may have no field.              *)
EXTENDS Convert

TextEvents ==
  [tags : {None}, fields : {<<[name |-> "a", vals |-> <<v>>]>> : v \in BoundedSeq(Char, 2)}]

SomeFields == [name : {"a"}, vals : BoundedSeq({<<>>, <<"x">>}, 2)]
              \cup [name : {"b"}, vals : {<<<<"x">>>>}]
ShapeEvents == [tags : {None, <<>>, <<"t", "u">>},
                fields : {None} \cup BoundedSeq(SomeFields, 2)]

MCEvents    == TextEvents \cup ShapeEvents
MCNameLists == {<<>>, <<"a">>, <<"b", "a">>, <<"a", "", "b">>, <<"c", "a", "b">>}

F(name, vals) == [name |-> name, vals |-> vals]
MCDecoded == [tags : {None}, fields : {None, <<F("b", <<<<"x">>>>), F("a", <<>>)>>, <<F("a", <<>>)>>}]
MCFormats == {<<"b", "a">>, <<"a", "", "b">>}
=============================================================================
