----------------------------- MODULE MCParsers -----------------------------
(* A small instance of Parsers for TLC: for every type some texts of it,   *)
(* all that differ from them in one character or end early, all short      *)
(* texts, and behind the string nothing or what would continue it.         *)
EXTENDS Parsers

Chars(s) == [k \in 1..Len(s) |-> SubSeq(s, k, k)]

Good == {"3-12-31T23:59:60.5Z x", "3-9-1T1:0:0+256:30 x", "3-9-1T1:0:0-2:59",
         "Jan  1 1:2:3:4", "mAY 31 1999 23:59:60", "x Nov 9 8:7:6",
         "2011-01-31", "1999-12-09x", "x 2004-10-20",
         "23:59:59", "12:00:10 ", "09:45:1",
         "1.20.30.255", "255.1.1.256x", "1.2.3.4.5", "x 10.0.0.1", "x 10:20:30", "\"ab\" 17", "a \"b\"x"}
Alphabet == {"0", "1", "3", "6", "9", "-", ":", "T", ".", " ", "\"", "x", "Z"}

Begins(t) == {SubSeq(t, 1, n) : n \in 1..Len(t)}
Wrong(t)  == {[t EXCEPT ![k] = ch] : k \in 1..Len(t), ch \in Alphabet}
Short     == BoundedSeq({"1", " ", "\"", ":"}, 4)

\* what an earlier, longer string may have left in the buffer
Tails == {<<>>} \cup {Chars(s) : s \in {" ", "7 ", "\"", " 5 1:1:1 "}}

MCInputs ==
  [str : Short \cup UNION {Begins(Chars(s)) : s \in Good}, after : Tails]
  \cup [str : UNION {Wrong(Chars(s)) : s \in Good}, after : {<<>>, <<" ">>}]
MCTerms  == {":", " "}
=============================================================================
