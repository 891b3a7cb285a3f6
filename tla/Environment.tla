---------------------------- MODULE Environment ----------------------------
(***************************************************************************)
(* Util::Environment: reads exported variables as values of a type and     *)
(* serves them from a cache (d_values) until they are reset.  Each public  *)
(* call holds d_mux from its first to its last line, so it is one action.  *)
(*                                                                         *)
(* A text is the sequence of its comma separated fields, and a field is    *)
(* what the conversions can tell apart: int "7", padded " 7", open "[7",   *)
(* close "7]", junk "7]x]", bare "]", badOpen "[x", word (of num bytes,    *)
(* which no conversion to a number takes), TRUE, FALSE, empty "", and      *)
(* char, the one byte the cache keeps of a boolean.  prefixed is           *)
(* "<prefix>_7" and alike the same with another prefix as long; prefixes   *)
(* are longer than all other texts.                                        *)
(***************************************************************************)
EXTENDS Integers, SequencesExt

CONSTANTS Variables,   \* names of environment variables
          Texts,       \* what the process is started with
          Later,       \* what setenv may assign while it runs
          Width,       \* bits of an int
          Low, High,   \* the range a checked read asks for
          MinLength, MaxLength,   \* the same for the bytes of a string
          Asserts      \* TRUE in a build without NDEBUG

Types == {"int", "prefixed", "string", "bool", "ints", "strings"}
Errors == {"NOTFOUND", "ENVIRONMENT", "RANGE", "RANGE_LIST", "STRING_LENGTH"}
Kinds == {"int", "padded", "open", "close", "junk", "bare", "badOpen", "word",
          "TRUE", "FALSE", "empty", "char", "prefixed", "alike"}
Field == [kind : Kinds, num : Int]
Text == Seq(Field) \ {<<>>}

ASSUME EnvironmentAssumption ==
  /\ Texts \subseteq Text /\ Later \subseteq Text
  /\ Width \in Nat \ {0}
  /\ Low \in Int /\ High \in Int
  /\ MinLength \in Nat /\ MaxLength \in Nat
  /\ Asserts \in BOOLEAN

Unset == <<>>          \* not exported (unix), or not cached (d_values)
Char(b) == << [kind |-> "char", num |-> IF b THEN 1 ELSE 0] >>

----------------------------------------------------------------------------
(* Conversions.  Each yields [rc, value]; "lost" ends the process.         *)

Ok(value) == [rc |-> "ok", value |-> value]
Bad == [rc |-> "bad", value |-> <<>>]
Lost == [rc |-> "lost", value |-> <<>>]

MaxInt == 2 ^ (Width - 1) - 1
Wrap(n) == ((n + MaxInt + 1) % (2 ^ Width)) - MaxInt - 1   \* long to int

IsOne(text, kinds) == Len(text) = 1 /\ text[1].kind \in kinds
IsEmpty(text) == IsOne(text, {"empty"})

\* toInt: strtol skips leading white space and must stop at the end of the text
ToInt(text) == IF IsOne(text, {"int", "padded"}) THEN Ok(Wrap(text[1].num)) ELSE Bad

\* what is left behind <prefix>_ as an integer: the prefix is not compared
ToPrefixedInt(text) == IF IsOne(text, {"prefixed", "alike"}) THEN Ok(Wrap(text[1].num)) ELSE Bad

ToBoolean(text) == IF IsOne(text, {"TRUE", "FALSE"}) THEN Ok(text[1].kind = "TRUE") ELSE Bad

\* the number a closing token ends with; toInt takes a bare "]" for 0
UpperLimit(field) == IF field.kind = "bare" THEN 0 ELSE Wrap(field.num)

\* Definitions whose name starts with Mutant are wrong forms of the one that
\* follows; no specification uses them.
MutantInts(from, to) == [i \in 1 .. to - from |-> from + i - 1]

\* the loop that appends a range
Ints(from, to) == [i \in 1 .. to - from + 1 |-> from + i - 1]

MutantIncreases(from, to) == TRUE

\* "[10,9]" is refused
Increases(from, to) == from <= to

\* one turn of the loop over tokens; strtok_r never returns an empty token
TakeToken(s, field) ==
  LET failed == [s EXCEPT !.rc = "bad"]
      end == UpperLimit(field)
  IN CASE s.rc # "ok" \/ field.kind = "empty" -> s
       [] s.rc = "ok" /\ field.kind = "open" ->
            IF s.inRange THEN failed ELSE [s EXCEPT !.inRange = TRUE, !.start = Wrap(field.num)]
       [] s.rc = "ok" /\ s.inRange /\ field.kind \in {"close", "junk", "bare"} ->
            IF ~Increases(s.start, end) THEN failed
            ELSE IF end = MaxInt THEN [s EXCEPT !.rc = "lost"]   \* startRange++ overflows
            ELSE [s EXCEPT !.inRange = FALSE, !.value = @ \o Ints(s.start, end)]
       [] s.rc = "ok" /\ ~s.inRange /\ field.kind = "int" ->
            [s EXCEPT !.value = Append(@, Wrap(field.num))]
       [] OTHER -> failed

HasSpace(text) == \E i \in DOMAIN text : text[i].kind = "padded"
LeadingComma(text) == Len(text) > 1 /\ text[1].kind = "empty"

ExtractIntList(text) ==
  LET none == [rc |-> "ok", inRange |-> FALSE, start |-> 0, value |-> <<>>]
      all == FoldLeft(TakeToken, none, text)
  IN IF IsEmpty(text) /\ Asserts THEN Lost
     ELSE IF HasSpace(text) \/ LeadingComma(text) THEN Bad
     ELSE IF all.rc = "lost" THEN Lost
     ELSE IF all.rc = "bad" \/ all.value = <<>> THEN Bad
     ELSE Ok(all.value)

NotBlank(field) == field.kind # "empty" /\ field # Char(FALSE)[1]

ExtractStringList(text) ==
  LET value == SelectSeq(text, NotBlank)
  IN IF IsEmpty(text) /\ Asserts THEN Lost
     ELSE IF LeadingComma(text) \/ value = <<>> THEN Bad ELSE Ok(value)

Convert(text, type) ==
  CASE type = "int" -> ToInt(text)
    [] type = "prefixed" -> ToPrefixedInt(text)
    [] type = "string" -> Ok(text)
    [] type = "bool" -> ToBoolean(text)
    [] type = "ints" -> ExtractIntList(text)
    [] type = "strings" -> ExtractStringList(text)

\* bytes of a field; only those of words matter, the others are short
FieldLength(field) ==
  CASE field.kind = "word" -> field.num
    [] field.kind = "empty" -> 0
    [] OTHER -> 1

TextLength(text) == FoldLeft(LAMBDA n, field : n + FieldLength(field), Len(text) - 1, text)

\* the range and length checks of the calls, and rangeCheckList
InRange(value, type) ==
  CASE type \in {"int", "prefixed"} -> value \in Low .. High
    [] type = "ints" -> \A i \in DOMAIN value : value[i] \in Low .. High
    [] type = "string" -> TextLength(value) \in MinLength .. MaxLength
    [] type = "strings" -> \A i \in DOMAIN value : FieldLength(value[i]) \in MinLength .. MaxLength
    [] type = "bool" -> TRUE

----------------------------------------------------------------------------
VARIABLES
  unix,       \* the environment of the process, outside this class
  d_values,   \* the cache
  lost,       \* the process died: abort, an exception nobody catches, or overflow
  rc,         \* what the last step returned: "ok", an error, "none" when it was no read
  given       \* one successful answer of the caller's choice, until it is reset

vars == <<unix, d_values, lost, rc, given>>

NoAnswer == [var |-> "none"]
Cached(v) == d_values[v] # Unset

MutantSource(v) == unix[v]

\* the text a read of v goes by: the cache before the environment
Source(v) == IF Cached(v) THEN d_values[v] ELSE unix[v]

\* what a read leaves in an empty cache: for a boolean, one character of its value
ToCache(text, type) == IF type = "bool" THEN Char(Convert(text, type).value) ELSE text

Answer(v, type) == IF Source(v) = Unset THEN Bad ELSE Convert(Source(v), type)

OutOfRange(type) ==
  IF type = "string" THEN "STRING_LENGTH"
  ELSE IF type \in {"ints", "strings"} THEN "RANGE_LIST" ELSE "RANGE"

\* which error a failed read returns
Failure(v, type) ==
  IF Source(v) = Unset THEN "NOTFOUND"
  ELSE IF Answer(v, type).rc # "ok" THEN "ENVIRONMENT" ELSE OutOfRange(type)

Init ==
  /\ unix \in [Variables -> Texts \cup {Unset}]
  /\ d_values = [v \in Variables |-> Unset]
  /\ lost = FALSE /\ rc = "none" /\ given = NoAnswer

\* setenv or unsetenv, by other code of the process
ChangeEnvironment(v) ==
  /\ ~lost
  /\ \E text \in Later \cup {Unset} : unix' = [unix EXCEPT ![v] = text]
  /\ rc' = "none"
  /\ UNCHANGED <<d_values, lost, given>>

\* valueAsInt and its siblings find the value, convert, check and cache it
Read(v, type, check) ==
  LET answer == Answer(v, type)
      checked == check => InRange(answer.value, type)
  IN /\ ~lost
     /\ answer.rc = "ok" /\ checked
     /\ d_values' = IF Cached(v) THEN d_values ELSE [d_values EXCEPT ![v] = ToCache(unix[v], type)]
     /\ \/ given' = given
        \/ given' = [var |-> v, type |-> type, value |-> answer.value]
     /\ rc' = "ok"
     /\ UNCHANGED <<unix, lost>>

MutantReadFails(v, type, check) ==
  LET answer == Answer(v, type)
  IN /\ ~lost
     /\ answer.rc = "ok" => check /\ ~InRange(answer.value, type)
     /\ lost' = (answer.rc = "lost")
     /\ d_values' = IF Cached(v) \/ answer.rc # "ok" THEN d_values
                    ELSE [d_values EXCEPT ![v] = ToCache(unix[v], type)]
     /\ rc' = Failure(v, type)
     /\ UNCHANGED <<unix, given>>

\* the same calls when nothing is found, or it does not convert or is out of range
ReadFails(v, type, check) ==
  LET answer == Answer(v, type)
  IN /\ ~lost
     /\ answer.rc = "ok" => check /\ ~InRange(answer.value, type)
     /\ lost' = (answer.rc = "lost")
     /\ rc' = Failure(v, type)
     /\ UNCHANGED <<unix, d_values, given>>

Forget(v) == IF given # NoAnswer /\ given.var = v THEN NoAnswer ELSE given

\* reset makes a std::string of getenv's null pointer, after the entry is erased
Reset(v) ==
  /\ ~lost
  /\ d_values' = [d_values EXCEPT ![v] = unix[v]]
  /\ lost' = (unix[v] = Unset)
  /\ given' = Forget(v)
  /\ rc' = "none"
  /\ UNCHANGED unix

SemiReset(v) ==
  /\ ~lost
  /\ unix[v] # Unset
  /\ d_values' = [d_values EXCEPT ![v] = unix[v]]
  /\ given' = Forget(v)
  /\ rc' = "none"
  /\ UNCHANGED <<unix, lost>>

Next ==
  \E v \in Variables :
    \/ ChangeEnvironment(v)
    \/ \E type \in Types, check \in BOOLEAN : Read(v, type, check) \/ ReadFails(v, type, check)
    \/ Reset(v)
    \/ SemiReset(v)

Spec == Init /\ [][Next]_vars

----------------------------------------------------------------------------
(* Reference: what the comment on extractIntList calls a valid list.       *)

IsRange(text, i) ==
  /\ i > 1 /\ text[i - 1].kind = "open" /\ text[i].kind = "close"
  /\ text[i - 1].num <= text[i].num

WellFormed(text) ==
  \A i \in DOMAIN text :
    \/ text[i].kind = "int"
    \/ text[i].kind = "open" /\ i < Len(text) /\ IsRange(text, i + 1)
    \/ text[i].kind = "close" /\ IsRange(text, i)

Fits(text) == \A i \in DOMAIN text : text[i].num \in -MaxInt - 1 .. MaxInt - 1

\* the numbers of a range, the smaller before the larger
Ascending(from, to) ==
  CHOOSE s \in [1 .. to - from + 1 -> from .. to] : \A i, j \in DOMAIN s : i < j => s[i] < s[j]

\* what token i adds to the list
Listing(text, i) ==
  CASE text[i].kind = "int" -> << text[i].num >>
    [] text[i].kind = "close" -> Ascending(text[i - 1].num, text[i].num)
    [] OTHER -> <<>>

Listed(text) == FlattenSeq([i \in DOMAIN text |-> Listing(text, i)])

\* a closing token without what stands behind its number
Closed(field) ==
  CASE field.kind = "bare" -> [kind |-> "close", num |-> 0]
    [] field.kind = "junk" -> [field EXCEPT !.kind = "close"]
    [] OTHER -> field

\* a text without blank fields, each range that it closes closed properly
Closing(text) ==
  FlattenSeq([i \in DOMAIN text |-> IF NotBlank(text[i]) THEN << Closed(text[i]) >> ELSE <<>>])

\* the same without a range left open at its end
Repaired(text) ==
  LET closed == Closing(text)
  IN IF closed # <<>> /\ Last(closed).kind = "open" THEN Front(closed) ELSE closed

----------------------------------------------------------------------------
(* Properties.                                                             *)

\* The environment and the cache hold texts, and an answer is to a known question.
TypeOK ==
  /\ unix \in [Variables -> Text \cup {Unset}]
  /\ d_values \in [Variables -> Text \cup {Unset}]
  /\ lost \in BOOLEAN
  /\ rc \in {"none", "ok"} \cup Errors
  /\ given # NoAnswer => given.var \in Variables /\ given.type \in Types

\* the read whose answer is kept, repeated now
AnswersAgain ==
  LET answer == Answer(given.var, given.type)
  IN answer.rc = "ok" /\ answer.value = given.value

\* Repeating a read that succeeded gives the same answer whatever the process
\* exports meanwhile, until the variable is reset: the cache of the class.  Only a
\* boolean may fail to read again, as its cache line keeps a char of the value, but
\* it never reads as the other one.
RepeatedReadsAgree ==
  given # NoAnswer =>
    AnswersAgain \/ (given.type = "bool" /\ Answer(given.var, "bool").rc # "ok")

\* Every documented integer list that fits an int is read as the comment on
\* extractIntList says, each range in place and in order.
ListsReadAsDocumented ==
  \A v \in Variables :
    (WellFormed(unix[v]) /\ unix[v] # Unset /\ Fits(unix[v]))
      => LET list == ExtractIntList(unix[v])
         IN list.rc = "ok" /\ list.value = Listed(unix[v])

\* Text that extractIntList accepts although it is no documented list is such a
\* list once skipped fields, the rest of a closing token and a range left open
\* at the end are passed over; nothing else gets through.
AcceptedListsRepair ==
  \A v \in Variables :
    (unix[v] # Unset /\ Fits(unix[v]) /\ ExtractIntList(unix[v]).rc = "ok")
      => /\ WellFormed(Repaired(unix[v]))
         /\ ExtractIntList(unix[v]).value = Listed(Repaired(unix[v]))

\* A read that fails, be it at the conversion or at the check behind it, leaves
\* the cache as it was, so that a later export can still be read.
FailedReadsCacheNothing == [][rc' \in Errors => d_values' = d_values]_vars
=============================================================================
