---------------------------- MODULE MCSseStream ----------------------------
(***************************************************************************)
(* SseStream for TLC: response bodies of up to three lines from a menu and *)
(* an unfinished last line.                                                *)
(***************************************************************************)
EXTENDS SseStream

Bodies(menu, tails, n) ==
  {FlattenSeq(ls) \o t : ls \in BoundedSeq(menu, n), t \in tails}

\* ASCII content, both line ends, keep-alives, empty deltas, usages.
MCAscii ==
  Bodies({ <<"D", "a", "nl">>, <<"D", "b", "b", "cr", "nl">>, <<"D", "nl">>,
           <<"U1", "nl">>, <<"U2", "cr", "nl">>, <<"B1", "a", "nl">>, <<"B1", "nl">>,
           <<"F", "nl">>, <<"O", "nl">>, <<"nl">> },
         { << >>, <<"D", "a">>, <<"U2">>, <<"F">> }, 3)

\* Lines around the buffer limit.
MCLong ==
  Bodies({ <<"D", "a", "a", "a", "a", "nl">>, <<"D", "b", "nl">>,
           <<"C", "a", "a", "a", "a", "a", "a", "nl">>, <<"F", "nl">> },
         { << >>, <<"C", "a", "a", "a", "a", "a", "a">> }, 3)

\* A two-byte character in the content.
MCTwoByte == Bodies({ <<"D", "a", "x1", "x2", "nl">> , <<"F", "nl">> }, {<< >>}, 2)

MCStreams == MCAscii \union MCLong
=============================================================================
