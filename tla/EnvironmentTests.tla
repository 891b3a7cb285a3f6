-------------------------- MODULE EnvironmentTests --------------------------
(***************************************************************************)
(* The unit tests of Util::Environment, run against the module that models *)
(* the class.  Each file of tests owns one Environment object and tests a  *)
(* variable of its own per case, so that the three caches are one function *)
(* of the variables here.  A test exports a text (Install), calls the      *)
(* class, and compares return code, value and cache with its row of data.  *)
(* The files run in any order, and Rounds times over the same objects, as  *)
(* --gtest_shuffle and --gtest_repeat have it.  The build defines NDEBUG.  *)
(***************************************************************************)
EXTENDS Integers, SequencesExt

CONSTANTS Width,   \* bits of an int; the numbers of the tests fit 28
          Rounds   \* how often the tests are repeated

ASSUME TestsAssumption == Width \in Nat \ {0} /\ Rounds \in Nat \ {0}

VARIABLES
  unix, d_values, lost, rc,   \* those of Environment
  order,     \* the files in the order they run
  round,     \* the repetition
  turn,      \* which file of the order
  number,    \* which of its tests
  phase,     \* "install" or "call"
  ran,       \* the last test that finished, as <<file, number>>
  value,     \* what it read
  expected   \* what it compares that with

vars == <<unix, d_values, lost, rc, order, round, turn, number, phase, ran, value, expected>>

Size == [int |-> 41, list |-> 189, str |-> 13]
Files == DOMAIN Size
Variables == UNION {{f} \X (0 .. Size[f] - 1) : f \in Files}
Reads == [int |-> "int", list |-> "ints", str |-> "string"]

\* the class, for a read that asks for a range; min and max bound the number or
\* the bytes of the string
Env(min, max) ==
  INSTANCE Environment WITH
    Texts <- {}, Later <- {}, Asserts <- FALSE, given <- [var |-> "none"],
    Low <- min, High <- max, MinLength <- min, MaxLength <- max

----------------------------------------------------------------------------
(* The rows of data: what is exported, the range asked for, the expected   *)
(* return code, and whether the variable is then in the cache.             *)

Unset == <<>>
Field(kind, n) == [kind |-> kind, num |-> n]
Num(n) == Field("int", n)
Open(n) == Field("open", n)
Close(n) == Field("close", n)
Word(n) == Field("word", n)
Padded(n) == Field("padded", n)
Bare == Field("bare", 0)
BadOpen == Field("badOpen", 0)
Empty == Field("empty", 0)

Unchecked == [check |-> FALSE, min |-> -1, max |-> -1]
Within(min, max) == [check |-> TRUE, min |-> min, max |-> max]
DefaultInt == Within(0, 65535)
DefaultLength == Within(1, 127)
AllRanges == {Unchecked, Within(-1, -1), DefaultInt, DefaultLength, Within(10, 20),
              Within(-100, 10000), Within(999999, 1000000)}

Rows(first, texts, range, code, inCache) ==
  [n \in first .. first + Len(texts) - 1 |->
    [text |-> texts[n - first + 1], range |-> range, rc |-> code, inCache |-> inCache]]

NotExported(n) == [i \in 1 .. n |-> Unset]

\* integers: seven that are not exported, seven malformed ones read in three
\* ways, and good ones at the limits of a range and next to them
MalformedInts == << <<Word(3)>>, <<Word(3)>>, <<Word(6)>>, <<Word(4)>>,
                    <<Num(12), Num(3)>>, <<Word(5)>>, <<Word(7)>> >>

IntMissing == Rows(0, NotExported(7), Unchecked, "NOTFOUND", FALSE)
IntBad == Rows(7, MalformedInts, Unchecked, "ENVIRONMENT", FALSE)
IntBadInRange == Rows(14, MalformedInts, Within(-1, -1), "ENVIRONMENT", FALSE)
IntBadDefault == Rows(21, MalformedInts, DefaultInt, "ENVIRONMENT", FALSE)
IntGood == Rows(28, << <<Num(113070533)>> >>, Unchecked, "ok", TRUE)
IntInRange == Rows(29, << <<Num(10)>>, <<Num(20)>>, <<Num(11)>>, <<Num(19)>> >>,
                   Within(10, 20), "ok", TRUE)
IntOutside == Rows(33, << <<Num(9)>>, <<Num(21)>> >>, Within(10, 20), "RANGE", FALSE)
IntInDefault == Rows(35, << <<Num(0)>>, <<Num(65535)>>, <<Num(1)>>, <<Num(65534)>> >>,
                     DefaultInt, "ok", TRUE)
IntOutsideDefault == Rows(39, << <<Num(-1)>>, <<Num(65536)>> >>, DefaultInt, "RANGE", FALSE)

IntRows == IntMissing @@ IntBad @@ IntBadInRange @@ IntBadDefault @@ IntGood @@ IntInRange
           @@ IntOutside @@ IntInDefault @@ IntOutsideDefault

\* strings, by their length
Words(lengths) == [i \in DOMAIN lengths |-> <<Word(lengths[i])>>]

StrMissing == Rows(0, NotExported(1), Unchecked, "NOTFOUND", FALSE)
StrGood == Rows(1, Words(<<32>>), Unchecked, "ok", TRUE)
StrInRange == Rows(2, Words(<<10, 20, 11, 19>>), Within(10, 20), "ok", TRUE)
StrOutside == Rows(6, Words(<<9, 21>>), Within(10, 20), "STRING_LENGTH", FALSE)
StrInDefault == Rows(8, Words(<<1, 127, 2, 126>>), DefaultLength, "ok", TRUE)
StrOutsideDefault == Rows(12, Words(<<128>>), DefaultLength, "STRING_LENGTH", FALSE)

StrRows == StrMissing @@ StrGood @@ StrInRange @@ StrOutside @@ StrInDefault @@ StrOutsideDefault

\* lists: no numbers, spaces and leading commas, broken ranges, the same inside
\* a longer list
NoNumbers == << <<Word(1)>>, <<Word(6)>>, <<Word(3)>>, <<Padded(9)>>, <<Word(2)>>, <<Word(6)>> >>
Spaces == << <<Num(9), Padded(10), Padded(11)>>, <<Padded(9), Num(10), Num(11)>>,
             <<Num(9), Word(3), Padded(11)>>, <<Num(9), Num(10), Word(3)>>,
             <<Empty, Num(9), Num(10)>>, <<Word(1), Num(9), Num(10)>>,
             <<Num(9), Num(10), Num(9), Num(10), Word(1)>> >>
BrokenRanges == << <<Open(10), Close(9)>>, <<Word(4), Close(13)>>, <<Open(10), Word(4)>>,
                   <<BadOpen>>, <<BadOpen>>, <<Open(10), Bare>>, <<Open(10), Word(2)>>,
                   <<Open(10), Word(3)>>, <<BadOpen, Close(1)>>, <<BadOpen, Word(3)>>,
                   <<BadOpen, Word(3)>> >>
BrokenInside == << <<Open(1), Bare, Num(10), Num(12)>>, <<BadOpen, Close(1), Num(10), Num(12)>>,
                   <<Num(10), Open(1), Bare, Num(12)>>, <<Num(10), BadOpen, Close(1), Num(12)>>,
                   <<Num(10), Num(12), Open(1), Bare>>, <<Num(10), Num(12), BadOpen, Close(1)>>,
                   <<Num(10), Num(12), Open(1), Bare, Num(5)>>,
                   <<Num(10), Num(12), BadOpen, Close(1), Num(5)>> >>
MalformedLists == NoNumbers \o Spaces \o BrokenRanges \o BrokenInside

Nums(numbers) == [i \in DOMAIN numbers |-> Num(numbers[i])]

PlainLists == << Nums(<<9>>), Nums(<<0>>), Nums(<<1, 2>>), Nums(<<3, 4, 5>>),
                 Nums(<<10, 11, 12, 13, 100>>), Nums(<<10, 1, 3, 2, 100, 43, 16>>) >>
Ranges == << <<Open(0), Close(5)>>, <<Open(100), Close(100)>>, <<Open(100), Close(102)>>,
             <<Open(9991), Close(9999)>> >>
MixedLists == << <<Num(9), Open(100), Close(100), Num(3), Open(100), Close(103), Num(2), Num(0)>>,
                 <<Open(100), Close(100), Num(3), Open(100), Close(103), Num(2), Num(0)>>,
                 <<Open(100), Close(100), Num(3), Open(100), Close(109), Num(2), Num(0),
                   Open(422), Close(424)>> >>
ValidLists == PlainLists \o Ranges \o MixedLists

\* each with one number over 65535 at least
LargeLists == << Nums(<<9000000>>), Nums(<<1000000, 2>>), Nums(<<3, 4000000, 5>>),
                 Nums(<<10, 11, 12, 13000000, 100>>), Nums(<<10, 1, 3, 2, 100, 43, 16000000>>),
                 <<Open(5000000), Close(5000001)>>,
                 <<Num(90000000), Open(100), Close(100), Num(3), Open(100), Close(103), Num(2), Num(0)>>,
                 <<Open(100), Close(100), Num(3), Open(10000000), Close(10300000), Num(2), Num(0)>>,
                 <<Open(100), Close(100), Num(3), Open(100), Close(109), Num(20000000), Num(0),
                   Open(422), Close(424)>> >>

ListMissing == Rows(0, NotExported(32), Unchecked, "NOTFOUND", FALSE)
ListBad == Rows(32, MalformedLists, Unchecked, "ENVIRONMENT", FALSE)
ListBadInRange == Rows(64, MalformedLists, Within(-1, -1), "ENVIRONMENT", FALSE)
ListBadDefault == Rows(96, MalformedLists, DefaultInt, "ENVIRONMENT", FALSE)
ListGood == Rows(128, ValidLists, Unchecked, "ok", TRUE)
ListInRange == Rows(141, ValidLists, Within(-100, 10000), "ok", TRUE)
ListOutside == Rows(154, ValidLists, Within(999999, 1000000), "RANGE_LIST", FALSE)
ListInDefault == Rows(167, ValidLists, DefaultInt, "ok", TRUE)
ListOutsideDefault == Rows(180, LargeLists, DefaultInt, "RANGE_LIST", FALSE)

ListRows == ListMissing @@ ListBad @@ ListBadInRange @@ ListBadDefault @@ ListGood @@ ListInRange
            @@ ListOutside @@ ListInDefault @@ ListOutsideDefault

Data == [int |-> IntRows, list |-> ListRows, str |-> StrRows]
Row(test) == Data[test[1]][test[2]]

----------------------------------------------------------------------------
(* The tests.                                                              *)

Init ==
  /\ order \in {s \in [1 .. 3 -> Files] : \A f \in Files : \E i \in 1 .. 3 : s[i] = f}
  /\ unix = [v \in Variables |-> Unset] /\ d_values = [v \in Variables |-> Unset]
  /\ lost = FALSE /\ rc = "none"
  /\ round = 1 /\ turn = 1 /\ number = 0 /\ phase = "install"
  /\ ran = <<>> /\ value = <<>> /\ expected = <<>>

Running == ~lost /\ round <= Rounds
Current == <<order[turn], number>>

\* the head of a test: setenv when its row asks for it
Install ==
  /\ Running /\ phase = "install"
  /\ phase' = "call"
  /\ unix' = IF Row(Current).text = Unset THEN unix
             ELSE [unix EXCEPT ![Current] = Row(Current).text]
  /\ UNCHANGED <<d_values, lost, rc, order, round, turn, number, ran, value, expected>>

\* the next test of the file, of the next file, or of the next round
Advance ==
  LET lastTest == number + 1 = Size[order[turn]]
      lastFile == turn = Len(order)
  IN /\ number' = IF lastTest THEN 0 ELSE number + 1
     /\ turn' = IF ~lastTest THEN turn ELSE IF lastFile THEN 1 ELSE turn + 1
     /\ round' = IF lastTest /\ lastFile THEN round + 1 ELSE round

\* the rest of a test: the call, and the values for the EXPECTs
Test(n, expects) ==
  LET test == Current
      type == Reads[test[1]]
  IN /\ Running /\ phase = "call" /\ number = n
     /\ \E range \in AllRanges :
          /\ range = Row(test).range
          /\ \/ /\ Env(range.min, range.max)!Read(test, type, range.check)
                /\ value' = Env(range.min, range.max)!Answer(test, type).value
             \/ /\ Env(range.min, range.max)!ReadFails(test, type, range.check)
                /\ value' = value
     /\ expected' = expects
     /\ ran' = test
     /\ phase' = "install"
     /\ Advance
     /\ UNCHANGED order

Reading(file) == order[turn] = file

TestIntMissing == Reading("int") /\ \E n \in DOMAIN IntMissing : Test(n, -1)
TestIntBad == Reading("int") /\ \E n \in DOMAIN IntBad : Test(n, -1)
TestIntBadInRange == Reading("int") /\ \E n \in DOMAIN IntBadInRange : Test(n, -1)
TestIntBadDefault == Reading("int") /\ \E n \in DOMAIN IntBadDefault : Test(n, -1)
TestIntGood == Reading("int") /\ Test(28, 113070533)
TestIntInRange == Reading("int") /\ \E n \in 29 .. 32 : Test(n, <<10, 20, 11, 19>>[n - 28])
TestIntOutside == Reading("int") /\ \E n \in DOMAIN IntOutside : Test(n, -1)
TestIntInDefault == Reading("int") /\ \E n \in 35 .. 38 : Test(n, <<0, 65535, 1, 65534>>[n - 34])
TestIntOutsideDefault == Reading("int") /\ \E n \in DOMAIN IntOutsideDefault : Test(n, -1)

TestStrMissing == Reading("str") /\ Test(0, <<Word(2)>>)
TestStrGood == Reading("str") /\ Test(1, <<Word(32)>>)
TestStrInRange == Reading("str") /\ \E n \in 2 .. 5 : Test(n, <<Word(<<10, 20, 11, 19>>[n - 1])>>)
TestStrOutside == Reading("str") /\ \E n \in DOMAIN StrOutside : Test(n, <<Word(2)>>)
TestStrInDefault == Reading("str") /\ \E n \in 8 .. 11 : Test(n, <<Word(<<1, 127, 2, 126>>[n - 7])>>)
TestStrOutsideDefault == Reading("str") /\ Test(12, <<Word(2)>>)

PlainValues == << <<9>>, <<0>>, <<1, 2>>, <<3, 4, 5>>, <<10, 11, 12, 13, 100>>,
                  <<10, 1, 3, 2, 100, 43, 16>> >>
RangeValues == << <<0, 1, 2, 3, 4, 5>>, <<100>>, <<100, 101, 102>>,
                  <<9991, 9992, 9993, 9994, 9995, 9996, 9997, 9998, 9999>> >>
MixedValues == << <<9, 100, 3, 100, 101, 102, 103, 2, 0>>, <<100, 3, 100, 101, 102, 103, 2, 0>>,
                  <<100, 3, 100, 101, 102, 103, 104, 105, 106, 107, 108, 109, 2, 0, 422, 423, 424>> >>
Values == PlainValues \o RangeValues \o MixedValues
Never == <<-65535>>   \* compared with nothing, as the read must fail

TestListMissing == Reading("list") /\ \E n \in DOMAIN ListMissing : Test(n, Never)
TestListBad == Reading("list") /\ \E n \in DOMAIN ListBad : Test(n, Never)
TestListBadInRange == Reading("list") /\ \E n \in DOMAIN ListBadInRange : Test(n, Never)
TestListBadDefault == Reading("list") /\ \E n \in DOMAIN ListBadDefault : Test(n, Never)
TestListGood == Reading("list") /\ \E n \in DOMAIN ListGood : Test(n, Values[n - 127])
TestListInRange == Reading("list") /\ \E n \in DOMAIN ListInRange : Test(n, Values[n - 140])
TestListOutside == Reading("list") /\ \E n \in DOMAIN ListOutside : Test(n, Never)
TestListInDefault == Reading("list") /\ \E n \in DOMAIN ListInDefault : Test(n, Values[n - 166])
TestListOutsideDefault == Reading("list") /\ \E n \in DOMAIN ListOutsideDefault : Test(n, Never)

IntTests ==
  \/ TestIntMissing \/ TestIntBad \/ TestIntBadInRange \/ TestIntBadDefault \/ TestIntGood
  \/ TestIntInRange \/ TestIntOutside \/ TestIntInDefault \/ TestIntOutsideDefault

StrTests ==
  \/ TestStrMissing \/ TestStrGood \/ TestStrInRange \/ TestStrOutside \/ TestStrInDefault
  \/ TestStrOutsideDefault

ListTests ==
  \/ TestListMissing \/ TestListBad \/ TestListBadInRange \/ TestListBadDefault \/ TestListGood
  \/ TestListInRange \/ TestListOutside \/ TestListInDefault \/ TestListOutsideDefault

Next == Install \/ IntTests \/ StrTests \/ ListTests

Spec == Init /\ [][Next]_vars

----------------------------------------------------------------------------
(* Properties.                                                             *)

Position(test) == CHOOSE i \in DOMAIN order : order[i] = test[1]

\* the test has run, in this round or an earlier one
Finished(test) ==
  \/ round > 1
  \/ Position(test) < turn
  \/ Position(test) = turn /\ test[2] < number

\* Every test passes in every order and every round: the return code and the
\* value are those of its row, and what it left in the cache is neither removed
\* nor changed by any test that runs later.
TestsPass ==
  /\ ~lost
  /\ (phase = "install" /\ ran # <<>>) =>
       /\ rc = Row(ran).rc
       /\ rc = "ok" => value = expected
  /\ \A test \in Variables :
       d_values[test] = IF Finished(test) /\ Row(test).inCache THEN Row(test).text ELSE Unset
=============================================================================
