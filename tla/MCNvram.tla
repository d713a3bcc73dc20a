------------------------------- MODULE MCNvram -------------------------------
EXTENDS Nvram

CONSTANTS u, v, s, s2, x, y, long, w0, w1

\* Strings: two ordinary ones, one that does not fit, those of the two words.
MCFmt == [w \in Word |-> IF w = w0 THEN "0x0000" ELSE "0x0001"]
FittingVal == {x, y, "0x0000", "0x0001"}
MCVal == FittingVal \cup {long}
OneWord == <<s>>
TwoWords == <<s, s2>>
MCNum == [a \in Val |-> IF a = "0x0001" THEN w1 ELSE w0]
\* u and s share a chain.
MCBucket == [n \in Name |-> IF n \in {u, s} THEN 1 ELSE 2]
\* Tuples of 5 (x), 7 (y), 8 (a word) and 63 bytes.
MCWidth == [a \in Name \cup Val |->
              CASE a \in Name -> 1 [] a = x -> 2 [] a = y -> 4 [] a = long -> 60 [] OTHER -> 5]

Set(n, a) == [name |-> n, value |-> a]
Clear(n) == [name |-> n, value |-> None]
Write(args, commit) == [write |-> TRUE, args |-> args, commit |-> commit, done |-> TRUE]
Read(args, commit) == [write |-> FALSE, args |-> args, commit |-> commit, done |-> TRUE]
\* With a word at the end that nvram does not know.
Wrong(c) == [c EXCEPT !.done = FALSE]

Ordinary ==
    {Write(<<Set(u, x)>>, FALSE), Write(<<Set(v, y), Set(v, x)>>, TRUE), Write(<<Set(u, y), Clear(v)>>, FALSE),
     Write(<<Clear(u)>>, TRUE), Write(<<>>, TRUE), Read(<<>>, FALSE), Read(<<Set(u, x)>>, TRUE),
     Wrong(Write(<<Set(u, x)>>, TRUE)), Wrong(Write(<<Set(v, y)>>, FALSE))}
Filling == Ordinary \cup {Write(<<Set(u, long)>>, FALSE), Write(<<Set(u, y), Set(v, y)>>, TRUE), Write(<<Set(v, x)>>, FALSE)}

\* As the boot loader leaves it: with and without the variables of the words.
Words == [n \in Special |-> IF n = s THEN w1 ELSE w0]
Fresh(tuples) == [size |-> PartSize, len |-> NewLen(EndOf(tuples)[Len(tuples)]), hdr |-> Words, tuples |-> tuples,
                  body |-> "whole"]
MCFlash == {Fresh(<<Set(u, y)>>), Fresh(<<Set(s, "0x0001"), Set(v, x)>>)}
==============================================================================
