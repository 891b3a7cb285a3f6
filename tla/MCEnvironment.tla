--------------------------- MODULE MCEnvironment ---------------------------
(***************************************************************************)
(* Ints of 4 bits, -8 .. 7.  The process starts with every text of one     *)
(* field, every list of up to three fields of ListFields and every list of *)
(* four or five of the fields that nest; later it may export a few others. *)
(***************************************************************************)
EXTENDS Environment

F(kind, num) == [kind |-> kind, num |-> num]

ListFields ==
  {F("int", -2), F("int", 3), F("open", 1), F("open", 3), F("close", 2), F("close", 4),
   F("close", 7), F("junk", 4), F("bare", 0), F("empty", 0), F("word", 1)}

Nesting == {F("int", 3), F("open", 1), F("close", 2)}

Single ==
  ListFields \cup
  {F("int", 9), F("padded", 3), F("badOpen", 0), F("word", 128), F("TRUE", 0), F("FALSE", 0),
   F("prefixed", 3), F("alike", 9)}

MCTexts ==
  {<<f>> : f \in Single}
  \cup UNION {[1 .. n -> ListFields] : n \in 2 .. 3}
  \cup UNION {[1 .. n -> Nesting] : n \in 4 .. 5}

MCLater == { <<F("int", 2)>>, <<F("TRUE", 0)>>, <<F("int", 1), F("word", 128)>> }
=============================================================================
