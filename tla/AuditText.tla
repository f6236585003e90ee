------------------------------ MODULE AuditText ------------------------------
(***************************************************************************)
(* The line of a record as text (src/src/audit.c): how dfx_write_audit     *)
(* escapes and lays out the fields, how parse_audit_record reads them one  *)
(* behind the other, and how audit_context_hash finds them by searching    *)
(* for their names.                                                        *)
(*                                                                         *)
(* A line is a sequence of bytes, a byte a string: an ASCII character, a   *)
(* whole syllable of a field name, or the class of a non-ASCII byte        *)
(* ("A0" for 0xa0..0xbf, "C0" for those no UTF-8 text contains).  The      *)
(* schema keeps one field of each kind and names that begin each other.    *)
(***************************************************************************)
EXTENDS Integers, SequencesExt

CONSTANTS Letters,     \* the ASCII characters that nothing here names
          Digits,      \* the decimal digits, in order
          MaxNumber,   \* UINT64_MAX
          FieldBytes,  \* the array a text comes in, DFX_ID_MAX and others
          Characters,  \* what texts are composed of: sequences of bytes
          EditBytes,   \* what a damaged line may show
          MaxLength    \* bound on the characters of all texts together

Quote == "\""
Slash == "\\"
End == "nul"
Controls == {"control", "newline", "del"}
Marks == {Quote, Slash, "{", "}", ",", ":"}
Words == {"schema", "1", "true", "false", "identifiant", "_apres", "taille", "modele",
          "laboratoire", "detail"}

(* The byte at `at`, the terminating zero behind the last one.             *)
ByteAt(line, at) == IF at <= Len(line) THEN line[at] ELSE End

Slice(line, at, count) == SubSeq(line, at, at + count - 1)

-----------------------------------------------------------------------------
(* UTF-8, for the parser: lead byte, second byte, length.                  *)
Tails == {"80", "90", "A0"}

Forms == {<<"C2", Tails, 2>>, <<"E0", {"A0"}, 3>>, <<"E1", Tails, 3>>,
          <<"ED", {"80", "90"}, 3>>, <<"F0", {"90", "A0"}, 4>>, <<"F1", Tails, 4>>,
          <<"F4", {"80"}, 4>>}

NonAscii == Tails \cup {"C0", "C2", "E0", "E1", "ED", "F0", "F1", "F4"}

Byte == Letters \cup Words \cup Marks \cup Controls \cup NonAscii

ASSUME TextAssumption ==
    /\ Letters \cap (Marks \cup Controls \cup NonAscii \cup {End}) = {}
    /\ Digits \in Seq(Letters) /\ Len(Digits) > 1
    /\ \A i, j \in 1..Len(Digits) : Digits[i] = Digits[j] => i = j
    /\ MaxNumber \in Nat /\ FieldBytes \in Nat \ {0} /\ MaxLength \in Nat
    /\ Characters \subseteq Seq(Byte) /\ EditBytes \subseteq Byte

HasForm(line, at, form) ==
    /\ ByteAt(line, at) = form[1]
    /\ ByteAt(line, at + 1) \in form[2]
    /\ \A k \in 2..(form[3] - 1) : ByteAt(line, at + k) \in Tails

(* utf8_sequence_length: 0 when there is no character here.                *)
SequenceLength(line, at) ==
    LET found == {form \in Forms : HasForm(line, at, form)}
    IN  IF found = {} THEN 0 ELSE (CHOOSE form \in found : TRUE)[3]

(* The same again, in dfx_text_is_safe.                                    *)
(* Mutant: a surrogate is a character.                                     *)
CharacterLengthLoose(text, at) ==
    LET has(count, second) ==
          /\ at + count - 1 <= Len(text) /\ text[at + 1] \in second
          /\ \A k \in 2..(count - 1) : text[at + k] \in Tails
    IN  CASE text[at] = "C2" /\ has(2, Tails) -> 2
          [] text[at] = "E0" /\ has(3, {"A0"}) -> 3
          [] text[at] \in {"E1", "ED"} /\ has(3, Tails) -> 3
          [] text[at] = "F0" /\ has(4, {"90", "A0"}) -> 4
          [] text[at] = "F1" /\ has(4, Tails) -> 4
          [] text[at] = "F4" /\ has(4, {"80"}) -> 4
          [] OTHER -> 0

CharacterLength(text, at) ==
    LET has(count, second) ==
          /\ at + count - 1 <= Len(text) /\ text[at + 1] \in second
          /\ \A k \in 2..(count - 1) : text[at + k] \in Tails
    IN  CASE text[at] = "C2" /\ has(2, Tails) -> 2
          [] text[at] = "E0" /\ has(3, {"A0"}) -> 3
          [] text[at] = "E1" /\ has(3, Tails) -> 3
          [] text[at] = "ED" /\ has(3, {"80", "90"}) -> 3
          [] text[at] = "F0" /\ has(4, {"90", "A0"}) -> 4
          [] text[at] = "F1" /\ has(4, Tails) -> 4
          [] text[at] = "F4" /\ has(4, {"80"}) -> 4
          [] OTHER -> 0

(* One turn of dfx_text_is_safe, from the character at `at` to the next;   *)
(* 0 once it has given up.                                                 *)
SafeTurn(text, at) ==
    LET count == IF text[at] \in NonAscii THEN CharacterLength(text, at) ELSE 1
    IN  IF at \in {0, Len(text) + 1} THEN at
        ELSE IF text[at] \in Controls THEN 0
        ELSE IF count = 0 THEN 0 ELSE at + count

(* dfx_text_is_safe, and bounded_text_safe for a text of an array.         *)
Safe(text) ==
    LET at[k \in 0..Len(text)] == IF k = 0 THEN 1 ELSE SafeTurn(text, at[k - 1])
    IN  at[Len(text)] = Len(text) + 1

Bounded(text) == Len(text) < FieldBytes /\ Safe(text)

-----------------------------------------------------------------------------
(* Writing.                                                                *)

(* Mutant: only the quotation mark is escaped.                             *)
EscapeByteQuote(out, byte, size) ==
    IF Len(out) + 1 >= size \/ byte \in Controls THEN out
    ELSE IF byte = Quote /\ Len(out) + 2 < size THEN out \o <<Slash, byte>>
    ELSE Append(out, byte)

EscapeByte(out, byte, size) ==
    IF Len(out) + 1 >= size \/ byte \in Controls THEN out
    ELSE IF byte \in {Quote, Slash} /\ Len(out) + 2 < size THEN out \o <<Slash, byte>>
    ELSE Append(out, byte)

(* json_escape, into a buffer of `size` bytes.                             *)
Escaped(text, size) ==
    LET out[i \in 0..Len(text)] ==
          IF i = 0 THEN <<>> ELSE EscapeByte(out[i - 1], text[i], size)
    IN  out[Len(text)]

Numeral(number) ==
    LET numeral[n \in 0..number] ==
          LET last == <<Digits[(n % Len(Digits)) + 1]>>
          IN  IF n < Len(Digits) THEN last ELSE numeral[n \div Len(Digits)] \o last
    IN  numeral[number]

(* Kept fields are copied into the record, context fields are hashed.      *)
Field(name, kind, kept, context) == [name |-> name, kind |-> kind, kept |-> kept, context |-> context]

Schema == <<Field(<<"identifiant">>, "text", TRUE, TRUE),
            Field(<<"identifiant", "_apres">>, "text", TRUE, FALSE),
            Field(<<"taille", "_apres">>, "number", TRUE, FALSE),
            Field(<<"modele">>, "text", FALSE, TRUE),
            Field(<<"laboratoire">>, "flag", TRUE, TRUE),
            Field(<<"taille">>, "number", TRUE, TRUE),
            Field(<<"detail">>, "text", FALSE, FALSE)>>

Opening == <<"{", Quote, "schema", Quote, ":", "1">>
Closing == <<"}", "newline">>

Named(name) == <<Quote>> \o name \o <<Quote, ":">>

Rendered(field, value) ==
    CASE field.kind = "text" -> <<Quote>> \o value \o <<Quote>>
      [] field.kind = "number" -> Numeral(value)
      [] field.kind = "flag" -> <<IF value THEN "true" ELSE "false">>

(* The payload and the two hashes, which are texts like the others.        *)
Line(values) ==
    LET upTo[i \in 0..Len(Schema)] ==
          IF i = 0 THEN Opening
          ELSE upTo[i - 1] \o <<",">> \o Named(Schema[i].name) \o Rendered(Schema[i], values[i])
    IN  upTo[Len(Schema)] \o Closing

-----------------------------------------------------------------------------
(* parse_audit_record: each field where the one before it ended.           *)

Failure == [at |-> 0, value |-> <<End>>]

(* The bytes of the string that one step of parse_json_string takes, 0     *)
(* when it gives up.                                                       *)
(* Mutant: a reverse solidus may stand before anything.                    *)
TakenLoose(line, at) ==
    CASE ByteAt(line, at) = Slash -> 2
      [] ByteAt(line, at) \in Controls \cup {End} -> 0
      [] ByteAt(line, at) \in NonAscii -> SequenceLength(line, at)
      [] OTHER -> 1

Taken(line, at) ==
    CASE ByteAt(line, at) = Slash -> IF ByteAt(line, at + 1) \in {Slash, Quote} THEN 2 ELSE 0
      [] ByteAt(line, at) \in Controls \cup {End} -> 0
      [] ByteAt(line, at) \in NonAscii -> SequenceLength(line, at)
      [] OTHER -> 1

(* One turn of parse_json_string; `at` is 0 once it has given up.          *)
StringTurn(line, st, size) ==
    LET count == Taken(line, st.at)
    IN  IF st.closed \/ st.at = 0 THEN st
        ELSE IF ByteAt(line, st.at) = Quote THEN [st EXCEPT !.at = @ + 1, !.closed = TRUE]
        ELSE IF count = 0 \/ Len(st.value) + count >= size THEN [st EXCEPT !.at = 0]
        ELSE [st EXCEPT !.at = @ + count, !.value = @ \o Slice(line, st.at, count)]

(* parse_json_string; without an output there is no limit.                 *)
ParseString(line, at, kept) ==
    LET size == IF kept THEN 2 * FieldBytes ELSE Len(line) + 1
        start == [at |-> at + 1, value |-> <<>>, closed |-> FALSE]
        state[k \in 0..(Len(line) - at)] ==
          IF k = 0 THEN start ELSE StringTurn(line, state[k - 1], size)
        last == state[Len(line) - at]
    IN  IF ByteAt(line, at) # Quote THEN Failure
        ELSE IF last.closed THEN [at |-> last.at, value |-> last.value] ELSE Failure

DigitAt(line, at) == \E d \in 1..Len(Digits) : Digits[d] = ByteAt(line, at)

AddDigit(number, digit) ==
    LET d == (CHOOSE i \in 1..Len(Digits) : Digits[i] = digit) - 1
    IN  IF number = -1 \/ number > (MaxNumber - d) \div Len(Digits) THEN -1
        ELSE number * Len(Digits) + d

(* Mutant: 007 is a number.                                                *)
StartsNumberLoose(line, at) == DigitAt(line, at)

StartsNumber(line, at) ==
    DigitAt(line, at) /\ ~(ByteAt(line, at) = Digits[1] /\ DigitAt(line, at + 1))

ParseNumber(line, at) ==
    LET end == CHOOSE e \in at..(Len(line) + 1) :
                 ~DigitAt(line, e) /\ \A i \in at..(e - 1) : DigitAt(line, i)
        number[i \in 0..(end - at)] ==
          IF i = 0 THEN 0 ELSE AddDigit(number[i - 1], line[at + i - 1])
    IN  IF ~StartsNumber(line, at) THEN Failure
        ELSE IF number[end - at] = -1 THEN Failure
        ELSE [at |-> end, value |-> number[end - at]]

ParseFlag(line, at) ==
    IF ByteAt(line, at) \in {"true", "false"}
    THEN [at |-> at + 1, value |-> ByteAt(line, at) = "true"] ELSE Failure

HasLiteral(line, at, literal) ==
    at + Len(literal) - 1 <= Len(line) /\ Slice(line, at, Len(literal)) = literal

ParseField(line, at, field) ==
    LET marker == <<",">> \o Named(field.name)
        start == at + Len(marker)
    IN  IF ~HasLiteral(line, at, marker) THEN Failure
        ELSE CASE field.kind = "text" -> ParseString(line, start, field.kept)
               [] field.kind = "number" -> ParseNumber(line, start)
               [] field.kind = "flag" -> ParseFlag(line, start)

(* What was read, in the order of the schema; <<>> when it is refused.     *)
Refused == <<>>

ParseStep(line, st, field) ==
    LET parsed == ParseField(line, st.at, field)
    IN  IF st.at = 0 THEN st
        ELSE IF parsed.at = 0 THEN [st EXCEPT !.at = 0]
        ELSE [at |-> parsed.at, values |-> Append(st.values, parsed.value)]

(* All fields of the schema.                                               *)
ParseFields(line) ==
    LET state[i \in 0..Len(Schema)] ==
          IF i = 0 THEN [at |-> Len(Opening) + 1, values |-> <<>>]
          ELSE ParseStep(line, state[i - 1], Schema[i])
    IN  state[Len(Schema)]

(* Mutant: what stands behind the record does not matter.                  *)
ParseBeginning(line) ==
    LET last == ParseFields(line)
    IN  IF HasLiteral(line, 1, Opening) /\ last.at # 0 THEN last.values ELSE Refused

Parse(line) ==
    LET last == ParseFields(line)
    IN  IF /\ HasLiteral(line, 1, Opening) /\ last.at # 0
           /\ SubSeq(line, last.at, Len(line)) = Closing
        THEN last.values ELSE Refused

-----------------------------------------------------------------------------
(* audit_context_hash: each field where its name is first found.           *)

(* The position behind the first `marker`, 0 when there is none.           *)
Behind(line, marker) ==
    LET found == {at \in 1..Len(line) : HasLiteral(line, at, marker)}
    IN  IF found = {} THEN 0 ELSE Min(found) + Len(marker)

(* One turn of json_string_field.                                          *)
SearchTurn(line, st) ==
    LET byte == ByteAt(line, st.at)
    IN  IF st.closed \/ st.at = 0 THEN st
        ELSE IF byte = Quote /\ ~st.escaped THEN [st EXCEPT !.closed = TRUE]
        ELSE IF byte = End \/ Len(st.value) + 1 >= 2 * FieldBytes THEN [st EXCEPT !.at = 0]
        ELSE [at |-> st.at + 1, value |-> Append(st.value, byte),
              escaped |-> byte = Slash /\ ~st.escaped, closed |-> FALSE]

SearchedFrom(line, at) ==
    LET start == [at |-> at, value |-> <<>>, escaped |-> FALSE, closed |-> FALSE]
        turns == Len(line) + 1 - at
        state[k \in 0..turns] == IF k = 0 THEN start ELSE SearchTurn(line, state[k - 1])
        last == state[turns]
    IN  IF last.closed THEN [at |-> last.at, value |-> last.value] ELSE Failure

(* Mutant: the name is looked for without the mark that ends it.           *)
SearchTextAnywhere(line, name) ==
    LET at == Behind(line, name)
    IN  IF at = 0 THEN Failure ELSE SearchedFrom(line, at + 3)

(* json_string_field.                                                      *)
SearchText(line, name) ==
    LET at == Behind(line, Named(name) \o <<Quote>>)
    IN  IF at = 0 THEN Failure ELSE SearchedFrom(line, at)

(* json_scalar_field: up to a comma or a brace.                            *)
SearchScalar(line, name) ==
    LET at == Behind(line, Named(name))
        ends == {e \in at..Len(line) : line[e] \in {",", "}"}}
        end == IF ends = {} THEN Len(line) + 1 ELSE Min(ends)
    IN  IF at = 0 \/ end = at THEN Failure
        ELSE [at |-> at, value |-> Slice(line, at, end - at)]

Searched(line, field) ==
    IF field.kind = "text" THEN SearchText(line, field.name) ELSE SearchScalar(line, field.name)

(* The fields of the context, as they were found.                          *)
ContextOf(line) ==
    [i \in {k \in 1..Len(Schema) : Schema[k].context} |-> Searched(line, Schema[i]).value]

-----------------------------------------------------------------------------
(* A job's texts are composed character by character, written as a line if *)
(* dfx_write_audit takes them, and the line damaged in one byte.           *)
VARIABLES fields,  \* the values of the job, in the order of the schema
          length,  \* the characters of its texts
          line,    \* the line, <<>> before it is written
          damaged

textVars == <<fields, length, line, damaged>>

Texts == {i \in 1..Len(Schema) : Schema[i].kind = "text"}

TextInit ==
    /\ \E n \in {0, MaxNumber} :
         fields = <<<<>>, <<>>, n, <<>>, n = 0, MaxNumber - n, <<>>>>
    /\ length = 0 /\ line = <<>> /\ damaged = FALSE

Compose ==
    /\ line = <<>> /\ length < MaxLength
    /\ \E i \in Texts, c \in Characters : fields' = [fields EXCEPT ![i] = @ \o c]
    /\ length' = length + 1
    /\ UNCHANGED <<line, damaged>>

EscapedFields ==
    [i \in 1..Len(Schema) |->
       IF i \in Texts THEN Escaped(fields[i], 2 * FieldBytes) ELSE fields[i]]

(* dfx_write_audit: every text is looked at before anything is laid out.   *)
WriteLine ==
    /\ line = <<>> /\ \A i \in Texts : Bounded(fields[i])
    /\ line' = Line(EscapedFields)
    /\ UNCHANGED <<fields, length, damaged>>

(* One byte of a short line replaced, inserted or lost.                    *)
DamageLine ==
    /\ line # <<>> /\ ~damaged /\ length <= 1
    /\ \E at \in 1..Len(line) :
         \/ line' = RemoveAt(line, at)
         \/ \E byte \in EditBytes : line' \in {InsertAt(line, at, byte), ReplaceAt(line, at, byte)}
    /\ damaged' = TRUE
    /\ UNCHANGED <<fields, length>>

TextNext == Compose \/ WriteLine \/ DamageLine

-----------------------------------------------------------------------------
(* What a reader of JSON makes of an escaped text.                         *)
UnescapeByte(st, byte) ==
    IF byte = Slash /\ ~st.escaped THEN [st EXCEPT !.escaped = TRUE]
    ELSE [text |-> Append(st.text, byte), escaped |-> FALSE]

Unescaped(text) ==
    LET state[i \in 0..Len(text)] ==
          IF i = 0 THEN [text |-> <<>>, escaped |-> FALSE]
          ELSE UnescapeByte(state[i - 1], text[i])
    IN  state[Len(text)].text

(* The context that the hash should cover.                                 *)
ContextExpected(values) ==
    [i \in {k \in 1..Len(Schema) : Schema[k].context} |->
       IF Schema[i].kind = "text" THEN values[i] ELSE Rendered(Schema[i], values[i])]

(* Whatever texts dfx_write_audit takes, quotation marks, names of fields  *)
(* and any UTF-8 included, and however large the numbers: the line it lays *)
(* out is one it reads back, nothing of a text was cut off or changed, and *)
(* the search by name finds the fields where the parser reads them.        *)
WrittenReadsBack ==
    line # <<>> /\ ~damaged =>
        LET read == Parse(line)
        IN  /\ read = EscapedFields
            /\ \A i \in Texts : Unescaped(read[i]) = fields[i]
            /\ ContextOf(line) = ContextExpected(EscapedFields)

(* A damaged line that is still accepted is one that could have been       *)
(* written: there is one spelling of each record, and the context hashed   *)
(* is that of the record read.                                             *)
OnlyCanonical ==
    line # <<>> =>
        \A read \in {Parse(line)} \ {Refused} :
            /\ Line(read) = line
            /\ \A i \in Texts : /\ Safe(Unescaped(read[i]))
                                 /\ Escaped(Unescaped(read[i]), Len(read[i]) + 2) = read[i]
            /\ \/ ContextOf(line) = ContextExpected(read)
               \/ \E i \in Texts : Len(read[i]) >= 2 * FieldBytes
=============================================================================
